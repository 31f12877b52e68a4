--------------------------- MODULE ResponseProofs ---------------------------
(***************************************************************************)
(* Theorems about how the response that ServerConnection makes comes to its *)
(* end: what CloseOrder is for.                                            *)
(***************************************************************************)
EXTENDS ServerConnectionProofs, FiniteSetTheorems

-----------------------------------------------------------------------------
(* How far the closing has come.                                           *)

Suffixes == {CloseOrder, <<"out", "in">>, <<"in">>, <<>>}

LEMMA OrderFacts ==
  /\ CloseOrder # <<>> /\ Head(CloseOrder) = "err" /\ Tail(CloseOrder) = <<"out", "in">>
  /\ <<"out", "in">> # <<>> /\ Head(<<"out", "in">>) = "out" /\ Tail(<<"out", "in">>) = <<"in">>
  /\ <<"in">> # <<>> /\ Head(<<"in">>) = "in" /\ Tail(<<"in">>) = <<>>
  /\ <<"out", "in">> # CloseOrder /\ <<"in">> # CloseOrder /\ <<>> # CloseOrder
<1>1. Len(CloseOrder) = 3 /\ Len(<<"out", "in">>) = 2 /\ Len(<<"in">>) = 1 /\ Len(<<>>) = 0
  BY DEF CloseOrder
<1>2. <<"out", "in">> # CloseOrder /\ <<"in">> # CloseOrder /\ <<>> # CloseOrder
  BY <1>1
<1> QED BY <1>1, <1>2 DEF CloseOrder

\* Nothing more will be sent for err().
ErrDone ==
  \/ closed["err"] \/ eos["err"] \/ mode \in {"gone", "terminated"}
  \/ mode = "members" /\ todo # CloseOrder

Plan ==
  /\ mode \in {"close", "destroy", "members"} => todo \in Suffixes
  /\ mode \in {"close", "destroy"} /\ todo # CloseOrder => closed["err"]
  /\ mode = "flush" => \E s \in Outputs : todo = <<s>> /\ ~eos[s] /\ ~closed[s] /\ endDue[s]
  /\ eos["out"] \/ endDue["out"] => ErrDone

LEMMA ClosingFacts ==
  ASSUME Plan, NEW s, Closing(s)
  PROVE  /\ Tail(todo) \in Suffixes /\ Tail(todo) # CloseOrder
         /\ s # "err" <=> todo # CloseOrder
         /\ s # "err" /\ mode # "members" => closed["err"]
BY OrderFacts DEF Plan, Closing, Suffixes

LEMMA PlanKept ==
  ASSUME Plan, UNCHANGED <<closed, eos, endDue, mode, todo>>
  PROVE  Plan'
BY DEF Plan, ErrDone

LEMMA PlanTerminate ==
  ASSUME Types, mode' = "terminated"
  PROVE  Plan'
BY DEF Plan, ErrDone

\* A destructor, or its caller, goes on without the stream buffer that has failed.
LEMMA PlanThrows ==
  ASSUME Types, Plan, NEW s \in Outputs, EndsStream(s) \/ Closing(s), Throws,
         UNCHANGED <<closed, eos>>, UNCHANGED endDue \/ endDue' = [endDue EXCEPT ![s] = TRUE],
         UNCHANGED endDue \/ EndsStream(s)
  PROVE  Plan'
<1>1. CASE mode = "flush"
  <2>1. endDue'["out"] => endDue["out"]
    <3>1. CASE UNCHANGED endDue
      BY <3>1
    <3>2. CASE EndsStream(s)
      <4>1. todo = <<s>>
        BY <1>1, <3>2 DEF EndsStream, Closing
      <4>2. PICK t \in Outputs : todo = <<t>> /\ endDue[t]
        BY <1>1 DEF Plan
      <4>3. t = s
        BY <4>1, <4>2
      <4> QED BY <4>2, <4>3 DEF Types, FlagTypes
    <3> QED BY <3>1, <3>2
  <2>2. mode' = "app"
    BY <1>1 DEF Throws
  <2> QED BY <1>1, <2>1, <2>2 DEF Plan, ErrDone
<1>2. CASE mode # "flush"
  <2>1. Closing(s)
    BY <1>2 DEF EndsStream
  <2>2. /\ Tail(todo) \in Suffixes /\ Tail(todo) # CloseOrder
        /\ s # "err" <=> todo # CloseOrder
        /\ s # "err" /\ mode # "members" => closed["err"]
    BY <2>1, ClosingFacts
  <2>3. CASE mode = "members"
    <3>1. mode' = "members" /\ todo' = Tail(todo)
      BY <2>3 DEF Throws
    <3> QED BY <2>2, <3>1 DEF Plan, ErrDone
  <2>4. CASE mode # "members"
    <3>1. (mode' = "members" /\ todo' = CloseOrder) \/ mode' \in {"app", "abandoned"}
      BY <1>2, <2>4 DEF Throws, DestroyMembers
    <3>2. eos'["out"] \/ endDue'["out"] => closed["err"] \/ eos["err"]
      <4>1. CASE s = "err"
        <5>1. endDue'["out"] = endDue["out"]
          BY <4>1 DEF Types, FlagTypes, Outputs
        <5>2. mode \in {"close", "destroy"}
          BY <2>1, <2>4 DEF Closing
        <5> QED BY <5>1, <5>2 DEF Plan, ErrDone
      <4>2. CASE s # "err"
        BY <2>2, <2>4, <4>2
      <4> QED BY <4>1, <4>2
    <3> QED BY <3>1, <3>2 DEF Plan, ErrDone, Suffixes
  <2> QED BY <2>3, <2>4
<1> QED BY <1>1, <1>2

LEMMA PlanCloseEnd ==
  ASSUME Types, Plan, NEW s \in Outputs, CloseEnd(s)
  PROVE  Plan'
<1>1. CASE /\ endDue' = [endDue EXCEPT ![s] = FALSE]
           /\ eos' = [eos EXCEPT ![s] = TRUE]
           /\ closed' = [closed EXCEPT ![s] = mode # "flush"]
           /\ mode' = IF mode = "flush" THEN "app" ELSE mode
           /\ todo' = Tail(todo)
  <2>1. CASE mode = "flush"
    <3>1. /\ todo = <<s>> /\ endDue[s] /\ ~closed[s]
      <4>1. PICK t \in Outputs : todo = <<t>> /\ endDue[t] /\ ~closed[t]
        BY <2>1 DEF Plan
      <4>2. todo = <<s>>
        BY <2>1 DEF CloseEnd, EndsStream, Closing
      <4>3. t = s
        BY <4>1, <4>2
      <4> QED BY <4>1, <4>2, <4>3
    <3>2. mode' = "app"
      BY <1>1, <2>1
    <3>3. eos'["out"] \/ endDue'["out"] => eos["out"] \/ endDue["out"]
      BY <1>1, <3>1 DEF Types, FlagTypes, Outputs
    <3>4. closed["err"] \/ eos["err"] => closed'["err"] \/ eos'["err"]
      BY <1>1, <3>1 DEF Types, FlagTypes, Outputs
    <3> QED BY <2>1, <3>2, <3>3, <3>4 DEF Plan, ErrDone
  <2>2. CASE mode # "flush"
    <3>1. Closing(s)
      BY <2>2 DEF CloseEnd, EndsStream
    <3>2. /\ Tail(todo) \in Suffixes /\ Tail(todo) # CloseOrder
          /\ s # "err" <=> todo # CloseOrder
          /\ s # "err" /\ mode # "members" => closed["err"]
      BY <3>1, ClosingFacts
    <3>3. closed' = [closed EXCEPT ![s] = TRUE] /\ mode' = mode
      BY <1>1, <2>2
    <3>4. closed'["err"] \/ mode = "members"
      BY <3>2, <3>3 DEF Types, FlagTypes, Outputs
    <3>5. mode' \in {"close", "destroy", "members"}
      BY <3>1, <3>3 DEF Closing
    <3> QED BY <1>1, <3>2, <3>3, <3>4, <3>5 DEF Plan, ErrDone
  <2> QED BY <2>1, <2>2
<1>2. CASE Throws /\ endDue' = [endDue EXCEPT ![s] = TRUE] /\ UNCHANGED <<eos, closed>>
  BY <1>2, PlanThrows DEF CloseEnd
<1>3. CASE Terminate
  BY <1>3, PlanTerminate DEF Terminate
<1> QED BY <1>1, <1>2, <1>3 DEF CloseEnd, WriteIsShort

LEMMA PlanCloseContent ==
  ASSUME Types, Plan, NEW s \in Outputs, CloseContent(s)
  PROVE  Plan'
<1>1. EndsStream(s) /\ endDue' = [endDue EXCEPT ![s] = TRUE] /\ UNCHANGED <<closed, eos>>
  BY DEF CloseContent
<1>2. CASE UNCHANGED <<mode, todo>>
  <2>1. CASE mode = "flush"
    <3>1. PICK t \in Outputs : todo = <<t>> /\ endDue[t]
      BY <2>1 DEF Plan
    <3>2. t = s
      BY <1>1, <2>1, <3>1 DEF EndsStream, Closing
    <3>3. endDue' = endDue
      BY <1>1, <3>1, <3>2 DEF Types, FlagTypes
    <3> QED BY <1>1, <1>2, <3>3, PlanKept
  <2>2. CASE mode # "flush"
    <3>1. Closing(s)
      BY <1>1, <2>2 DEF EndsStream
    <3>2. CASE s = "err"
      <4>1. endDue'["out"] = endDue["out"]
        BY <1>1, <3>2 DEF Types, FlagTypes, Outputs
      <4> QED BY <1>1, <1>2, <2>2, <4>1 DEF Plan, ErrDone
    <3>3. CASE s # "err"
      <4>1. todo # CloseOrder /\ (mode # "members" => closed["err"])
        BY <3>1, <3>3, ClosingFacts
      <4>2. mode \in {"close", "destroy", "members"}
        BY <3>1 DEF Closing
      <4> QED BY <1>1, <1>2, <4>1, <4>2 DEF Plan, ErrDone
    <3> QED BY <3>2, <3>3
  <2> QED BY <2>1, <2>2
<1>3. CASE Throws
  BY <1>1, <1>3, PlanThrows
<1>4. CASE Terminate
  BY <1>4, PlanTerminate DEF Terminate
<1> QED BY <1>2, <1>3, <1>4 DEF CloseContent, ContentTerminates

LEMMA PlanEndingFlush ==
  ASSUME Types, Plan, NEW s \in Outputs, EndingFlush(s)
  PROVE  Plan'
<1>1. mode = "app" /\ ~closed[s] /\ ~eos[s] /\ endDue[s] /\ UNCHANGED <<closed, eos, endDue>>
  BY DEF EndingFlush, Writable
<1>2. CASE mode' = "flush" /\ todo' = <<s>>
  BY <1>1, <1>2 DEF Plan, ErrDone
<1>3. CASE Terminate
  BY <1>3, PlanTerminate DEF Terminate
<1> QED BY <1>2, <1>3 DEF EndingFlush

LEMMA PlanOrder ==
  ASSUME Types, Plan, Close \/ Destroy \/ AllClosed \/ CloseInput
  PROVE  Plan'
<1>1. CASE Close \/ Destroy
  <2>1. mode' \in {"close", "destroy"} /\ todo' = CloseOrder /\ UNCHANGED <<closed, eos, endDue>>
    BY <1>1 DEF Close, Destroy, bufferVars
  <2>2. mode \in {"app", "abandoned"}
    BY <1>1 DEF Close, Destroy
  <2> QED BY <2>1, <2>2 DEF Plan, ErrDone, Suffixes
<1>2. CASE AllClosed
  <2>1. todo = <<>> /\ UNCHANGED <<closed, eos, endDue>>
    BY <1>2 DEF AllClosed, bufferVars
  <2>2. CASE mode \in {"close", "destroy"}
    <3>1. closed["err"]
      BY <2>1, <2>2, OrderFacts DEF Plan
    <3>2. mode' \in {"app", "members"} /\ (mode' = "members" => todo' = CloseOrder)
      BY <1>2, <2>2 DEF AllClosed, DestroyMembers
    <3> QED BY <2>1, <3>1, <3>2 DEF Plan, ErrDone, Suffixes
  <2>3. CASE mode = "members"
    <3>1. mode' = "gone"
      BY <1>2, <2>3 DEF AllClosed
    <3> QED BY <2>1, <3>1 DEF Plan, ErrDone
  <2> QED BY <1>2, <2>2, <2>3 DEF AllClosed
<1>3. CASE CloseInput
  <2>1. Closing("in") /\ mode' = mode /\ todo' = Tail(todo) /\ UNCHANGED <<closed, eos, endDue>>
    BY <1>3 DEF CloseInput, bufferVars
  <2>2. /\ Tail(todo) \in Suffixes /\ Tail(todo) # CloseOrder /\ todo # CloseOrder
        /\ mode # "members" => closed["err"]
    BY <2>1, ClosingFacts
  <2>3. mode \in {"close", "destroy", "members"}
    BY <2>1 DEF Closing
  <2> QED BY <2>1, <2>2, <2>3 DEF Plan, ErrDone
<1> QED BY <1>1, <1>2, <1>3

LEMMA PlanAlreadyClosed ==
  ASSUME Types, Plan, NEW s \in Outputs, AlreadyClosed(s)
  PROVE  Plan'
<1>1. /\ Closing(s) /\ closed[s] /\ mode' = mode /\ todo' = Tail(todo)
      /\ UNCHANGED <<closed, eos, endDue>>
  BY DEF AlreadyClosed, bufferVars
<1>2. /\ Tail(todo) \in Suffixes /\ Tail(todo) # CloseOrder
      /\ s # "err" /\ mode # "members" => closed["err"]
  BY <1>1, ClosingFacts
<1>3. mode \in {"close", "destroy", "members"} /\ (closed["err"] \/ mode = "members")
  BY <1>1, <1>2 DEF Closing
<1> QED BY <1>1, <1>2, <1>3 DEF Plan, ErrDone

LEMMA StepPlan == Types /\ Plan /\ [Next]_vars => Plan'
<1> SUFFICES ASSUME Types, Plan, [Next]_vars PROVE Plan'
  OBVIOUS
<1>1. CASE InputAdvances \/ InputRefuses \/ ClientLeaves \/ UNCHANGED vars
  BY <1>1, PlanKept DEF InputAdvances, InputRefuses, ClientLeaves, vars, bufferVars
<1>2. CASE SyncInput
  BY <1>2, PlanTerminate DEF SyncInput, Terminate
<1>3. CASE Close \/ Destroy \/ AllClosed \/ CloseInput
  BY <1>3, PlanOrder
<1>4. ASSUME NEW s \in Outputs, PutBytes(s) \/ EndedFlush(s) \/ SetBuf(s) \/ Clear(s)
      PROVE  Plan'
  BY <1>4, PlanKept DEF PutBytes, EndedFlush, SetBuf, Clear, bufferVars
<1>5. ASSUME NEW s \in Outputs, Overflow(s) \/ Flush(s)
      PROVE  Plan'
  <2>1. UNCHANGED <<closed, eos, endDue>> /\ (UNCHANGED <<mode, todo>> \/ Terminate)
    BY <1>5 DEF Overflow, Flush, ContentTerminates
  <2> QED BY <2>1, PlanKept, PlanTerminate DEF Terminate
<1>6. ASSUME NEW s \in Outputs, EndingFlush(s) \/ AlreadyClosed(s) \/ CloseContent(s) \/ CloseEnd(s)
      PROVE  Plan'
  BY <1>6, PlanEndingFlush, PlanAlreadyClosed, PlanCloseContent, PlanCloseEnd
<1>7. ASSUME NEW s \in Outputs, RefusesToClose(s)
      PROVE  Plan'
  BY <1>7, PlanThrows DEF RefusesToClose, bufferVars
<1>8. ASSUME NEW s \in Outputs, FailsToClose(s)
      PROVE  Plan'
  BY <1>8, PlanTerminate DEF FailsToClose, Terminate
<1> QED BY <1>1, <1>2, <1>3, <1>4, <1>5, <1>6, <1>7, <1>8 DEF Next, Application, Teardown

-----------------------------------------------------------------------------
(* The records.                                                            *)

Ended(q) == \E i \in 1..Len(q) : IsEnd(q[i])

LastInOrder(q) ==
  \A i \in 1..Len(q) : IsEnd(q[i]) =>
    \A j \in i + 1 .. Len(q) : q[j] = EndRequest("cant_mpx_conn")

EndInv == (Ended(sent) => eos["out"]) /\ LastInOrder(sent)

\* The client has no end record yet: what is sent keeps the order, and ends only if the
\* last of its records is the end record.
LEMMA SentBeforeEnd ==
  ASSUME NEW q \in Seq(Record), ~Ended(q), NEW more \in Seq(Record),
         \A i \in 1..Len(more) : IsEnd(more[i]) => i = Len(more)
  PROVE  LastInOrder(q \o more) /\ (Ended(q \o more) => Ended(more))
<1>1. PICK l \in Nat, m \in Nat : l = Len(q) /\ m = Len(more)
  BY LenProperties
<1>2. /\ Len(q \o more) = l + m
      /\ \A i \in 1..(l + m) : (q \o more)[i] = IF i <= l THEN q[i] ELSE more[i - l]
  BY <1>1, ConcatProperties
<1>3. PICK c : c = q \o more
  OBVIOUS
<1>4. ASSUME NEW i \in 1..(l + m), IsEnd(c[i])
      PROVE  i = l + m /\ m > 0 /\ IsEnd(more[m])
  <2>1. ~(i <= l)
    BY <1>1, <1>2, <1>3, <1>4 DEF Ended
  <2>2. c[i] = more[i - l] /\ i - l \in 1..m
    BY <1>1, <1>2, <1>3, <2>1
  <2>3. i - l = m /\ IsEnd(more[m])
    BY <1>1, <1>4, <2>2
  <2>4. i = l + m /\ m > 0
    BY <1>1, <2>2, <2>3
  <2> QED BY <2>3, <2>4
<1>5. LastInOrder(c)
  <2>1. \A i \in 1..(l + m) : IsEnd(c[i]) => i = l + m
    BY <1>4
  <2>2. Len(c) = l + m
    BY <1>2, <1>3
  <2>3. ASSUME NEW i \in 1..(l + m), IsEnd(c[i]), NEW j \in i + 1 .. (l + m)
        PROVE  FALSE
    <3>1. i = l + m
      BY <2>1, <2>3
    <3> QED BY <2>3, <3>1
  <2> QED BY <2>2, <2>3 DEF LastInOrder
<1>6. Ended(c) => Ended(more)
  <2>1. \A i \in 1..(l + m) : IsEnd(c[i]) => m > 0 /\ IsEnd(more[m])
    BY <1>4
  <2>2. Len(c) = l + m
    BY <1>2, <1>3
  <2>3. m > 0 => m \in 1..Len(more)
    BY <1>1
  <2> QED BY <2>1, <2>2, <2>3 DEF Ended
<1> QED BY <1>3, <1>5, <1>6

LEMMA RefusalRecord == EndRequest("cant_mpx_conn") \in Record
BY SMT DEF Record, EndRequest

LEMMA SentRefusal ==
  ASSUME NEW q \in Seq(Record), LastInOrder(q)
  PROVE  /\ LastInOrder(Append(q, EndRequest("cant_mpx_conn")))
         /\ Ended(Append(q, EndRequest("cant_mpx_conn"))) => Ended(q)
<1>1. PICK r \in Record : r = EndRequest("cant_mpx_conn") /\ ~IsEnd(r)
  <2>1. EndRequest("cant_mpx_conn") \in Record
    BY RefusalRecord
  <2>2. ~IsEnd(EndRequest("cant_mpx_conn"))
    BY DEF EndRequest, IsEnd
  <2> QED BY <2>1, <2>2
<1>2. PICK l \in Nat : l = Len(q)
  BY LenProperties
<1>3. PICK c : c = Append(q, r)
  OBVIOUS
<1>4. /\ Len(c) = l + 1 /\ c[l + 1] = r
      /\ \A i \in 1..l : c[i] = q[i]
  BY <1>2, <1>3, AppendProperties
<1>5. ASSUME NEW i \in 1..(l + 1), IsEnd(c[i])
      PROVE  i \in 1..l /\ IsEnd(q[i])
  BY <1>1, <1>4, <1>5
<1>6. LastInOrder(c)
  <2>1. ASSUME NEW i \in 1..(l + 1), IsEnd(c[i]), NEW j \in (i + 1)..(l + 1)
        PROVE  c[j] = r
    <3>1. i \in 1..l /\ IsEnd(q[i])
      BY <1>5, <2>1
    <3>2. CASE j = l + 1
      BY <1>4, <3>2
    <3>3. CASE j # l + 1
      BY <1>1, <1>2, <1>4, <3>1, <3>3 DEF LastInOrder
    <3> QED BY <3>2, <3>3
  <2> QED BY <1>1, <1>4, <2>1 DEF LastInOrder
<1>7. Ended(c) => Ended(q)
  BY <1>2, <1>4, <1>5 DEF Ended
<1> QED BY <1>1, <1>3, <1>6, <1>7

\* While anything is sent for a stream, out() has not ended.
LEMMA OutNotEnded ==
  ASSUME Types, Plan, NEW s \in Outputs, (Writable(s) /\ ~eos[s]) \/ EndsStream(s)
  PROVE  ~eos["out"]
<1>1. CASE s = "out"
  <2>1. CASE mode = "flush" /\ todo = <<s>>
    BY <1>1, <2>1 DEF Plan
  <2> QED BY <1>1, <2>1 DEF EndsStream
<1>2. CASE s = "err"
  <2>1. CASE Writable(s) /\ ~eos[s]
    BY <1>2, <2>1 DEF Plan, ErrDone, Writable
  <2>2. CASE mode = "flush" /\ todo = <<s>>
    BY <1>2, <2>2 DEF Plan, ErrDone
  <2>3. CASE Closing(s) /\ ~closed[s] /\ ~eos[s]
    BY <1>2, <2>3, ClosingFacts DEF Plan, ErrDone, Closing
  <2> QED BY <2>1, <2>2, <2>3 DEF EndsStream
<1> QED BY <1>1, <1>2 DEF Outputs

LEMMA NotEnded ==
  ASSUME Types, Plan, EndInv, NEW s \in Outputs, (Writable(s) /\ ~eos[s]) \/ EndsStream(s)
  PROVE  ~Ended(sent)
BY OutNotEnded DEF EndInv

\* The end of the stream is kept: no step takes it back.
LEMMA EndStays ==
  ASSUME Types, [Next]_vars
  PROVE  \A s \in Outputs : eos[s] => eos'[s]
<1>1. UNCHANGED eos \/ \E s \in Outputs : eos' = [eos EXCEPT ![s] = TRUE]
  BY DEF Next, Application, Teardown, AllClosed, CloseInput, AlreadyClosed, RefusesToClose,
         FailsToClose, CloseContent, CloseEnd, PutBytes, Overflow, Flush, EndingFlush,
         EndedFlush, SetBuf, Clear, InputAdvances, InputRefuses, SyncInput, Close, Destroy,
         ClientLeaves, vars, bufferVars
<1> QED BY <1>1 DEF Types, FlagTypes

\* out() ends with a, its empty record, and b, the end of the response.
EndsOut(e, a, b) ==
  /\ e \in Seq(Record) /\ Len(e) = 2 /\ e[1] = a /\ e[2] = b
  /\ a.kind = "out" /\ a.clen = 0 /\ ~IsEnd(a) /\ b.kind = "end" /\ IsEnd(b)

LEMMA EndRecordsOfOut ==
  \E a \in Record, b \in Record : EndsOut(EndRecords("out"), a, b)
<1>1. PICK a : a = [kind |-> "out", clen |-> 0, plen |-> 0]
  OBVIOUS
<1>2. PICK b : b = EndRequest("request_complete")
  OBVIOUS
<1>3. a \in Record
  BY <1>1, SMT DEF Record, Outputs
<1>4. b \in Record
  BY <1>2, SMT DEF Record, EndRequest
<1>5. EndRecords("out") = <<a>> \o <<b>>
  BY <1>1, <1>2 DEF EndRecords
<1>6. /\ <<a>> \in Seq(Record) /\ <<b>> \in Seq(Record)
      /\ Len(<<a>>) = 1 /\ Len(<<b>>) = 1 /\ <<a>>[1] = a /\ <<b>>[1] = b
  BY <1>3, <1>4
<1>7. PICK e \in Seq(Record) : e = <<a>> \o <<b>> /\ Len(e) = 2 /\ e[1] = a /\ e[2] = b
  <2>1. /\ <<a>> \o <<b>> \in Seq(Record) /\ Len(<<a>> \o <<b>>) = 1 + 1
        /\ \A i \in 1..1 + 1 : (<<a>> \o <<b>>)[i] = IF i <= 1 THEN <<a>>[i] ELSE <<b>>[i - 1]
    BY <1>6, ConcatProperties
  <2>2. PICK e \in Seq(Record) :
          /\ e = <<a>> \o <<b>> /\ Len(e) = 1 + 1
          /\ \A i \in 1..1 + 1 : e[i] = IF i <= 1 THEN <<a>>[i] ELSE <<b>>[i - 1]
    BY <2>1
  <2>3. Len(e) = 2 /\ e[1] = <<a>>[1] /\ e[2] = <<b>>[1]
    BY <2>2
  <2> QED BY <1>6, <2>2, <2>3
<1>8. a.kind = "out" /\ a.clen = 0 /\ ~IsEnd(a) /\ b.kind = "end" /\ IsEnd(b)
  BY <1>1, <1>2 DEF IsEnd, EndRequest
<1>9. EndsOut(EndRecords("out"), a, b)
  BY <1>5, <1>7, <1>8 DEF EndsOut
<1> QED BY <1>3, <1>4, <1>9

LEMMA StepEnd == Types /\ Plan /\ EndInv /\ [Next]_vars => EndInv'
<1> SUFFICES ASSUME Types, Plan, EndInv, [Next]_vars PROVE EndInv'
  OBVIOUS
<1>1. sent \in Seq(Record)
  BY DEF Types, ClientTypes
<1>2. CASE UNCHANGED sent
  BY <1>2, EndStays DEF EndInv, Outputs
<1>3. ASSUME NEW s \in Outputs, NEW content \in Seq(Nat), ContentArrives(s, content)
      PROVE  EndInv'
  <2>1. PICK r \in Record : r = ContentRecord(s, content) /\ ~IsEnd(r)
    <3>1. ContentRecord(s, content) \in Record
      BY <1>3, RecordOfContent DEF ContentArrives, ContentSent
    <3>2. ~IsEnd(ContentRecord(s, content))
      BY DEF IsEnd, ContentRecord, Outputs
    <3> QED BY <3>1, <3>2
  <2>2. /\ <<r>> \in Seq(Record)
        /\ \A i \in 1..Len(<<r>>) : ~IsEnd(<<r>>[i])
    BY <2>1
  <2>3. sent' = sent \o <<r>> \/ sent' = sent
    BY <1>3, <2>1 DEF ContentArrives, ContentSent, Arrives, clientVars
  <2>4. ~Ended(sent) /\ ~Ended(<<r>>)
    BY <1>3, <2>2, NotEnded DEF ContentArrives, Ended
  <2>5. LastInOrder(sent \o <<r>>) /\ ~Ended(sent \o <<r>>)
    BY <1>1, <2>2, <2>4, SentBeforeEnd
  <2> QED BY <1>2, <2>3, <2>5 DEF EndInv
<1>4. ASSUME NEW s \in Outputs, EndArrives(s)
      PROVE  EndInv'
  <2>1. EndRecords(s) \in Seq(Record)
    BY EndRecordsType
  <2>2. \A i \in 1..Len(EndRecords(s)) : IsEnd(EndRecords(s)[i]) => i = Len(EndRecords(s)) /\ s = "out"
    <3>1. CASE s = "out"
      <4>1. PICK a \in Record, b \in Record : EndsOut(EndRecords(s), a, b)
        BY <3>1, EndRecordsOfOut
      <4>2. PICK e \in Seq(Record) :
              /\ e = EndRecords(s) /\ Len(e) = 2 /\ e[1] = a /\ ~IsEnd(a)
        BY <4>1 DEF EndsOut
      <4>3. \A i \in 1..Len(e) : IsEnd(e[i]) => i = Len(e)
        BY <4>2
      <4> QED BY <3>1, <4>2, <4>3
    <3>2. CASE s = "err"
      <4>1. EndRecords(s) \in {<<>>, <<[kind |-> "err", clen |-> 0, plen |-> 0]>>}
        BY <3>2 DEF EndRecords
      <4> QED BY <3>2, <4>1 DEF IsEnd
    <3> QED BY <3>1, <3>2 DEF Outputs
  <2>3. sent' = sent \o EndRecords(s) \/ sent' = sent
    BY <1>4 DEF EndArrives, Arrives, clientVars
  <2>4. ~Ended(sent)
    BY <1>4, NotEnded DEF EndArrives
  <2>5. /\ LastInOrder(sent \o EndRecords(s))
        /\ Ended(sent \o EndRecords(s)) => Ended(EndRecords(s))
    BY <1>1, <2>1, <2>2, <2>4, SentBeforeEnd
  <2>6. Ended(EndRecords(s)) => eos'["out"]
    <3>1. Ended(EndRecords(s)) => s = "out"
      BY <2>2 DEF Ended
    <3> QED BY <1>4, <3>1 DEF EndArrives, Types, FlagTypes, Outputs
  <2> QED BY <1>2, <2>3, <2>5, <2>6 DEF EndInv
<1>5. CASE RefusalArrives
  <2>1. sent' = Append(sent, EndRequest("cant_mpx_conn")) \/ sent' = sent
    BY <1>5 DEF RefusalArrives
  <2>2. /\ LastInOrder(Append(sent, EndRequest("cant_mpx_conn")))
        /\ Ended(Append(sent, EndRequest("cant_mpx_conn"))) => Ended(sent)
    BY <1>1, SentRefusal DEF EndInv
  <2> QED BY <1>2, <2>1, <2>2, EndStays DEF EndInv, Outputs
<1> QED BY <1>2, <1>3, <1>4, <1>5, Arrivals, ContentType DEF clientVars

-----------------------------------------------------------------------------
(* The end of each stream.                                                 *)

EndsStreamOf(r, s) == r.kind = s /\ r.clen = 0

StreamEnded(q, s) == \E i \in 1..Len(q) : EndsStreamOf(q[i], s)

StreamEndLast(q, s) ==
  \A i \in 1..Len(q) : EndsStreamOf(q[i], s) => \A j \in i + 1 .. Len(q) : q[j].kind # s

StreamInv ==
  \A s \in Outputs : (StreamEnded(sent, s) => eos[s]) /\ StreamEndLast(sent, s)

\* More is sent, of a stream that has not been ended, or nothing of it.
LEMMA MoreOfStream ==
  ASSUME NEW q \in Seq(Record), NEW more \in Seq(Record), NEW s,
         StreamEndLast(q, s), StreamEndLast(more, s),
         ~StreamEnded(q, s) \/ \A i \in 1..Len(more) : more[i].kind # s
  PROVE  /\ StreamEndLast(q \o more, s)
         /\ StreamEnded(q \o more, s) => StreamEnded(q, s) \/ StreamEnded(more, s)
<1>1. PICK l \in Nat, m \in Nat : l = Len(q) /\ m = Len(more)
  BY LenProperties
<1>2. PICK c : /\ c = q \o more /\ Len(c) = l + m
               /\ \A i \in 1..(l + m) : c[i] = IF i <= l THEN q[i] ELSE more[i - l]
  <2>1. PICK c : c = q \o more
    OBVIOUS
  <2>2. /\ Len(c) = Len(q) + Len(more)
        /\ \A i \in 1..Len(q) + Len(more) :
             c[i] = IF i <= Len(q) THEN q[i] ELSE more[i - Len(q)]
    BY <2>1, ConcatProperties, Zenon
  <2> QED BY <1>1, <2>1, <2>2
<1>3. ASSUME NEW i \in 1..(l + m), EndsStreamOf(c[i], s)
      PROVE  /\ i <= l => StreamEnded(q, s)
             /\ i > l => StreamEnded(more, s)
  <2>1. CASE i <= l
    BY <1>1, <1>2, <1>3, <2>1 DEF StreamEnded
  <2>2. CASE i > l
    <3>1. c[i] = more[i - l] /\ i - l \in 1..m
      BY <1>2, <2>2
    <3> QED BY <1>1, <1>3, <2>2, <3>1 DEF StreamEnded
  <2> QED BY <2>1, <2>2
<1>4. ASSUME NEW i \in 1..(l + m), EndsStreamOf(c[i], s), NEW j \in (i + 1)..(l + m)
      PROVE  c[j].kind # s
  <2>1. CASE i > l
    <3>1. /\ i \in 1..(l + m) /\ j \in 1..(l + m) /\ ~(i <= l) /\ ~(j <= l)
          /\ i - l \in 1..m /\ j - l \in (i - l) + 1 .. m
      BY <2>1
    <3>2. c[i] = more[i - l] /\ c[j] = more[j - l]
      BY <1>2, <3>1
    <3> QED BY <1>1, <1>4, <3>1, <3>2 DEF StreamEndLast
  <2>2. CASE i <= l /\ j <= l
    <3>1. /\ i \in 1..(l + m) /\ j \in 1..(l + m)
          /\ i \in 1..l /\ j \in i + 1 .. l
      BY <2>2
    <3>2. c[i] = q[i] /\ c[j] = q[j]
      BY <1>2, <2>2, <3>1
    <3> QED BY <1>1, <1>4, <3>1, <3>2 DEF StreamEndLast
  <2>3. CASE i <= l /\ j > l
    <3>1. StreamEnded(q, s)
      BY <1>3, <1>4, <2>3
    <3>2. c[j] = more[j - l] /\ j - l \in 1..m
      BY <1>2, <2>3
    <3> QED BY <1>1, <3>1, <3>2
  <2> QED BY <2>1, <2>2, <2>3
<1>5. StreamEndLast(c, s)
  BY <1>2, <1>4 DEF StreamEndLast
<1>6. StreamEnded(c, s) => StreamEnded(q, s) \/ StreamEnded(more, s)
  BY <1>2, <1>3 DEF StreamEnded
<1> QED BY <1>2, <1>5, <1>6

\* One record: it has an end of its stream only if it is empty.
LEMMA OneRecord ==
  ASSUME NEW r \in Record, NEW s
  PROVE  /\ <<r>> \in Seq(Record) /\ StreamEndLast(<<r>>, s)
         /\ StreamEnded(<<r>>, s) => EndsStreamOf(r, s)
         /\ r.kind # s => \A i \in 1..Len(<<r>>) : <<r>>[i].kind # s
<1>1. PICK e \in Seq(Record) : e = <<r>> /\ Len(e) = 1 /\ e[1] = r
  <2>1. <<r>> \in Seq(Record) /\ Len(<<r>>) = 1 /\ <<r>>[1] = r
    OBVIOUS
  <2> QED BY <2>1
<1>2. StreamEndLast(e, s) /\ (StreamEnded(e, s) => EndsStreamOf(r, s))
  BY <1>1 DEF StreamEndLast, StreamEnded
<1>3. r.kind # s => \A i \in 1..Len(e) : e[i].kind # s
  BY <1>1
<1> QED BY <1>1, <1>2, <1>3

\* The records with which a stream ends are of no other, and its last is the empty one.
LEMMA EndRecordsOf ==
  ASSUME NEW s \in Outputs
  PROVE  /\ StreamEndLast(EndRecords(s), s)
         /\ \A t \in Outputs \ {s} : /\ StreamEndLast(EndRecords(s), t)
                                    /\ \A i \in 1..Len(EndRecords(s)) : EndRecords(s)[i].kind # t
<1>1. CASE s = "out"
  <2>1. PICK a \in Record, b \in Record : EndsOut(EndRecords(s), a, b)
    BY <1>1, EndRecordsOfOut
  <2>2. PICK e \in Seq(Record) :
          /\ e = EndRecords(s) /\ Len(e) = 2 /\ e[1] = a /\ e[2] = b
          /\ a.kind = "out" /\ b.kind = "end"
    BY <2>1 DEF EndsOut
  <2>3. \A i \in 1..Len(e) : i = 1 \/ i = 2
    BY <2>2
  <2>4. \A i \in 1..Len(e) : \A j \in i + 1 .. Len(e) : e[j] = b
    BY <2>2
  <2>5. \A t \in Outputs : b.kind # t
    BY <2>2 DEF Outputs
  <2>6. \A t \in Outputs : StreamEndLast(e, t)
    BY <2>4, <2>5 DEF StreamEndLast
  <2>7. \A t \in Outputs \ {s} : \A i \in 1..Len(e) : e[i].kind # t
    BY <1>1, <2>2, <2>3 DEF Outputs
  <2> QED BY <1>1, <2>2, <2>6, <2>7
<1>2. CASE s = "err"
  <2>1. EndRecords(s) = <<>> \/ EndRecords(s) = <<[kind |-> "err", clen |-> 0, plen |-> 0]>>
    BY <1>2 DEF EndRecords
  <2>2. PICK r : r = [kind |-> "err", clen |-> 0, plen |-> 0] /\ r.kind = "err"
    <3>1. [kind |-> "err", clen |-> 0, plen |-> 0].kind = "err"
      OBVIOUS
    <3> QED BY <3>1
  <2>3. r \in Record
    BY <2>2, SMT DEF Record, Outputs
  <2>4. CASE EndRecords(s) = <<r>>
    <3>1. \A t : StreamEndLast(<<r>>, t)
      BY <2>3, OneRecord
    <3>2. \A t \in Outputs \ {s} : \A i \in 1..Len(<<r>>) : <<r>>[i].kind # t
      BY <1>2, <2>2, <2>3, OneRecord
    <3> QED BY <2>4, <3>1, <3>2
  <2>5. CASE EndRecords(s) = <<>>
    BY <2>5 DEF StreamEndLast
  <2> QED BY <2>1, <2>2, <2>4, <2>5
<1> QED BY <1>1, <1>2 DEF Outputs

\* While anything is sent for a stream, it has not ended.
LEMMA StreamNotEnded ==
  ASSUME Plan, StreamInv, NEW s \in Outputs, (Writable(s) /\ ~eos[s]) \/ EndsStream(s)
  PROVE  ~StreamEnded(sent, s)
<1>1. ~eos[s]
  <2>1. CASE mode = "flush" /\ todo = <<s>>
    BY <2>1 DEF Plan
  <2> QED BY <2>1 DEF EndsStream
<1> QED BY <1>1 DEF StreamInv

LEMMA ContentHasBytes ==
  ASSUME Types, NEW s \in Outputs, NEW content \in Seq(Nat), ContentArrives(s, content)
  PROVE  ContentRecord(s, content).clen # 0 /\ ContentRecord(s, content).kind = s
<1>1. PICK p \in Seq(Nat) : p = put[s]
  BY ContentType
<1>2. CASE content = p /\ p # <<>>
  <2>1. Len(content) # 0
    BY <1>2, EmptySeq
  <2> QED BY <2>1 DEF ContentRecord
<1>3. CASE content = Append(p, written[s] + 1)
  <2>1. Len(content) = Len(p) + 1
    BY <1>3
  <2>2. Len(content) # 0
    BY <2>1, LenProperties
  <2> QED BY <2>2 DEF ContentRecord
<1> QED BY <1>1, <1>2, <1>3 DEF ContentArrives

LEMMA StepStreams == Types /\ Plan /\ StreamInv /\ [Next]_vars => StreamInv'
<1> SUFFICES ASSUME Types, Plan, StreamInv, [Next]_vars, NEW t \in Outputs
             PROVE  (StreamEnded(sent, t) => eos[t])' /\ StreamEndLast(sent', t)
  BY DEF StreamInv
<1>1. /\ sent \in Seq(Record)
      /\ StreamEndLast(sent, t) /\ (StreamEnded(sent, t) => eos[t])
  BY DEF Types, ClientTypes, StreamInv
<1>2. CASE UNCHANGED sent
  BY <1>1, <1>2, EndStays
<1>3. ASSUME NEW s \in Outputs, NEW content \in Seq(Nat), ContentArrives(s, content)
      PROVE  (StreamEnded(sent, t) => eos[t])' /\ StreamEndLast(sent', t)
  <2>1. PICK r \in Record : r = ContentRecord(s, content) /\ r.clen # 0 /\ r.kind = s
    <3>1. ContentRecord(s, content) \in Record
      BY <1>3, RecordOfContent DEF ContentArrives, ContentSent
    <3> QED BY <1>3, <3>1, ContentHasBytes
  <2>2. sent' = sent \o <<r>> \/ sent' = sent
    BY <1>3, <2>1 DEF ContentArrives, ContentSent, Arrives, clientVars
  <2>3. ~StreamEnded(<<r>>, t)
    BY <2>1, OneRecord DEF EndsStreamOf
  <2>4. ~StreamEnded(sent, t) \/ \A i \in 1..Len(<<r>>) : <<r>>[i].kind # t
    <3>1. CASE s = t
      BY <1>3, <3>1, StreamNotEnded DEF ContentArrives
    <3>2. CASE s # t
      BY <2>1, <3>2, OneRecord
    <3> QED BY <3>1, <3>2
  <2>5. StreamEndLast(sent \o <<r>>, t) /\ (StreamEnded(sent \o <<r>>, t) => StreamEnded(sent, t))
    BY <1>1, <2>1, <2>3, <2>4, OneRecord, MoreOfStream
  <2> QED BY <1>1, <1>2, <2>2, <2>5, EndStays
<1>4. ASSUME NEW s \in Outputs, EndArrives(s)
      PROVE  (StreamEnded(sent, t) => eos[t])' /\ StreamEndLast(sent', t)
  <2>1. sent' = sent \o EndRecords(s) \/ sent' = sent
    BY <1>4 DEF EndArrives, Arrives, clientVars
  <2>2. EndRecords(s) \in Seq(Record) /\ StreamEndLast(EndRecords(s), t)
    BY EndRecordsType, EndRecordsOf
  <2>3. CASE s = t
    <3>1. ~StreamEnded(sent, t) /\ eos'[t]
      BY <1>4, <2>3, StreamNotEnded DEF EndArrives, Types, FlagTypes
    <3>2. StreamEndLast(sent \o EndRecords(s), t)
      BY <1>1, <2>2, <3>1, MoreOfStream
    <3> QED BY <1>1, <2>1, <3>1, <3>2
  <2>4. CASE s # t
    <3>1. \A i \in 1..Len(EndRecords(s)) : EndRecords(s)[i].kind # t
      BY <2>4, EndRecordsOf
    <3>2. ~StreamEnded(EndRecords(s), t)
      BY <3>1 DEF StreamEnded, EndsStreamOf
    <3>3. /\ StreamEndLast(sent \o EndRecords(s), t)
          /\ StreamEnded(sent \o EndRecords(s), t) => StreamEnded(sent, t)
      BY <1>1, <2>2, <3>1, <3>2, MoreOfStream
    <3> QED BY <1>1, <2>1, <3>3, EndStays
  <2> QED BY <2>3, <2>4
<1>5. CASE RefusalArrives
  <2>1. PICK r \in Record : r = EndRequest("cant_mpx_conn") /\ r.kind # t
    <3>1. EndRequest("cant_mpx_conn").kind # t
      BY DEF EndRequest, Outputs
    <3> QED BY <3>1, RefusalRecord
  <2>2. sent' = Append(sent, r) \/ sent' = sent
    BY <1>5, <2>1 DEF RefusalArrives
  <2>3. Append(sent, r) = sent \o <<r>>
    BY <1>1, <2>1, AppendIsConcat
  <2>4. /\ StreamEndLast(sent \o <<r>>, t)
        /\ StreamEnded(sent \o <<r>>, t) => StreamEnded(sent, t)
    BY <1>1, <2>1, OneRecord, MoreOfStream DEF EndsStreamOf
  <2> QED BY <1>1, <1>2, <2>2, <2>3, <2>4, EndStays
<1> QED BY <1>2, <1>3, <1>4, <1>5, Arrivals, ContentType DEF clientVars

LEMMA InitPlan == Init => Plan /\ EndInv /\ StreamInv
BY DEF Init, Plan, EndInv, Ended, LastInOrder, StreamInv, StreamEnded, StreamEndLast, Outputs

\* Behind the end record of a stream the client gets no record of this stream, and behind the
\* end-request record of the response nothing but the refusal of a request, whatever fails in
\* close() and is tried again by a flush(), another close() or the destructors (overflow(),
\* 372-426; server_connection_stacked.cpp, 42-91).
THEOREM EndIsLast == Spec => []EndRequestLast
<1>1. EndInv /\ StreamInv => EndRequestLast
  <2> SUFFICES ASSUME EndInv, StreamInv, NEW i \in 1..Len(sent), NEW j \in i + 1 .. Len(sent)
               PROVE  /\ sent[i].kind \in Outputs /\ sent[i].clen = 0 => sent[j].kind # sent[i].kind
                      /\ IsEnd(sent[i]) => sent[j] = EndRequest("cant_mpx_conn")
    BY DEF EndRequestLast
  <2>1. IsEnd(sent[i]) => sent[j] = EndRequest("cant_mpx_conn")
    BY DEF EndInv, LastInOrder
  <2>2. sent[i].kind \in Outputs /\ sent[i].clen = 0 => sent[j].kind # sent[i].kind
    BY DEF StreamInv, StreamEndLast, EndsStreamOf
  <2> QED BY <2>1, <2>2
<1> QED BY <1>1, InitPlan, InitTypes, StepTypes, StepPlan, StepEnd, StepStreams, PTL DEF Spec

-----------------------------------------------------------------------------
(* Calls that only fail because the client has left.                       *)

\* send() is not interrupted, and the application neither goes on after an error nor calls
\* in().sync().
Careful == ~Signals /\ ~RetryAfterError /\ ~SyncsInput

Calls ==
  /\ mode \notin {"terminated", "flush"}
  /\ mode \in {"close", "destroy"} =>
       /\ todo \in {<<"in">>, <<>>} => closed["out"]
       /\ todo = <<>> => inClosed
  /\ mode = "app" => \A s \in Outputs :
       /\ ~endDue[s] /\ (closed[s] => inClosed)
       /\ ios[s] = "good" /\ ~closed[s] => Len(put[s]) <= Room
  /\ \A s \in Outputs : (closed[s] => ~endDue[s]) /\ (eos[s] <=> closed[s])
  /\ inClosed => \/ \A s \in Outputs : closed[s]
                 \/ mode = "gone"
                 \/ mode = "members" /\ todo = <<>>

LEMMA WholeBlocks ==
  ASSUME NEW n \in Nat, NEW p \in 0..7, NEW m \in Nat, n <= m, (n + p) % 8 = 0, m % 8 = 0
  PROVE  p <= (m - 1) - n + 1
<1>1. PICK a \in Nat, b \in Nat : n + p = 8 * a /\ m = 8 * b
  <2>1. n + p = 8 * ((n + p) \div 8) /\ m = 8 * (m \div 8)
    OBVIOUS
  <2>2. (n + p) \div 8 \in Nat /\ m \div 8 \in Nat
    OBVIOUS
  <2> QED BY <2>1, <2>2
<1>2. a <= b
  BY <1>1
<1>3. n + p <= m
  BY <1>1, <1>2
<1> QED BY <1>3

\* What fits the buffer fits it with its padding: the buffer is a whole number of 8 bytes.
LEMMA PaddedContentFits ==
  ASSUME NEW content \in Seq(Nat), Len(content) <= MaxContent
  PROVE  PaddingFits(content)
<1>1. PICK n \in Nat, p \in 0..7 : n = Len(content) /\ p = Padding(n, 8) /\ (n + p) % 8 = 0
  BY LenProperties, PaddingBounds
<1>2. PICK m \in Nat : m = MaxContent /\ m % 8 = 0 /\ Room = m - 1
  BY MaxContentFacts
<1>3. p <= (m - 1) - n + 1
  BY <1>1, <1>2, WholeBlocks
<1> QED BY <1>1, <1>2, <1>3 DEF PaddingFits

LEMMA NothingTerminates ==
  ASSUME Types, Calls, Careful, NEW s \in Outputs
  PROVE  /\ ~ContentTerminates(put[s]) /\ ~WriteIsShort
         /\ mode = "app" /\ ios[s] = "good" /\ ~closed[s]
              => ~ContentTerminates(Append(put[s], written[s] + 1))
<1>1. PaddingFits(put[s])
  BY PaddedContentFits DEF Types, PutType
<1>2. ASSUME mode = "app", ios[s] = "good", ~closed[s]
      PROVE  PaddingFits(Append(put[s], written[s] + 1))
  <2>1. Len(put[s]) \in Nat /\ Len(put[s]) <= Room
    BY <1>2, LenProperties DEF Types, PutType, Calls
  <2>2. /\ Append(put[s], written[s] + 1) \in Seq(Nat)
        /\ Len(Append(put[s], written[s] + 1)) = Len(put[s]) + 1
    BY StreamTypes, ContentType, AppendProperties
  <2>3. Len(put[s]) + 1 <= MaxContent
    BY <2>1, MaxContentFacts
  <2> QED BY <2>2, <2>3, PaddedContentFits
<1> QED BY <1>1, <1>2 DEF ContentTerminates, Careful, WriteIsShort

\* The calls of the application do not close.
LEMMA CallsApplication ==
  ASSUME Types, Calls, Careful, NEW s \in Outputs,
         PutBytes(s) \/ Overflow(s) \/ Flush(s) \/ EndingFlush(s) \/ EndedFlush(s)
           \/ SetBuf(s) \/ Clear(s)
  PROVE  Calls'
<1>1. ~EndingFlush(s) /\ ~Clear(s)
  BY DEF EndingFlush, Clear, Writable, Calls, Careful
<1>2. mode = "app" /\ UNCHANGED <<closed, eos, endDue, inClosed, mode, todo>>
  <2>1. CASE PutBytes(s) \/ EndedFlush(s) \/ SetBuf(s)
    BY <2>1 DEF PutBytes, EndedFlush, SetBuf, Writable, bufferVars, inputVars
  <2>2. CASE Overflow(s) \/ Flush(s)
    BY <2>2, NothingTerminates DEF Overflow, Flush, Writable, inputVars
  <2> QED BY <1>1, <2>1, <2>2
<1>3. \A t \in Outputs \ {s} : ios'[t] = ios[t] /\ put'[t] = put[t]
  BY <1>1 DEF Types, PutType, FlagTypes, ApplicationTypes, PutBytes, Overflow, Flush, EndedFlush, SetBuf,
         bufferVars, ContentSent, ContentThrows, ContentTerminates
<1>4. ios'[s] = "good" /\ ~closed[s] => Len(put'[s]) <= Room
  <2>1. Len(<<>>) = 0 /\ 0 <= Room
    BY MaxContentFacts
  <2>2. CASE EndedFlush(s)
    BY <2>2 DEF EndedFlush, Types, ApplicationTypes
  <2>3. CASE SetBuf(s)
    BY <2>1, <2>3 DEF SetBuf, Types, PutType
  <2>4. CASE Overflow(s) \/ Flush(s)
    <3>1. put'[s] = <<>> \/ ios'[s] = "bad"
      BY <2>4, NothingTerminates DEF Overflow, Flush, Writable, ContentSent, ContentThrows,
                                Types, PutType, ApplicationTypes
    <3> QED BY <2>1, <3>1
  <2>5. CASE PutBytes(s)
    <3>1. PICK n \in WriteSizes \cup {Room - Len(put[s])} :
            /\ n \in 1..(Room - Len(put[s]))
            /\ put' = [put EXCEPT ![s] = put[s] \o Numbers(written[s], n)]
      BY <2>5 DEF PutBytes
    <3>2. n \in Nat /\ put[s] \in Seq(Nat) /\ Len(put[s]) \in Nat /\ Room \in Int
      BY <3>1, StreamTypes, LenProperties, MaxContentFacts
    <3>3. PICK more \in Seq(Nat) : more = Numbers(written[s], n) /\ Len(more) = n
      BY <3>2, StreamTypes, NumbersProperties
    <3>4. Len(put[s] \o more) = Len(put[s]) + n
      BY <3>2, <3>3, Concatenated
    <3>5. Len(put[s]) + n <= Room
      BY <3>1, <3>2
    <3>6. put'[s] = put[s] \o more
      BY <3>1, <3>3 DEF Types, PutType
    <3> QED BY <3>4, <3>5, <3>6
  <2> QED BY <1>1, <2>2, <2>3, <2>4, <2>5
<1> QED BY <1>2, <1>3, <1>4 DEF Calls

\* An exception leaves close(), or the destructor goes on: in() is still open.
LEMMA CallsThrows ==
  ASSUME Types, Plan, Calls, Careful, NEW s \in Outputs, Closing(s), ~closed[s], ~inClosed,
         Throws, UNCHANGED <<closed, eos, inClosed>>,
         \A t \in Outputs : closed[t] => endDue'[t] = endDue[t]
  PROVE  Calls'
<1>1. mode \in {"close", "destroy", "members"}
  BY DEF Closing
<1>2. \/ mode' = "abandoned"
      \/ mode' = "members"
  BY <1>1 DEF Throws, DestroyMembers, Careful
<1> QED BY <1>2 DEF Calls

LEMMA CallsClosing ==
  ASSUME Types, Plan, Calls, Careful, NEW s \in Outputs,
         AlreadyClosed(s) \/ RefusesToClose(s) \/ FailsToClose(s) \/ CloseContent(s)
           \/ CloseEnd(s)
  PROVE  Calls'
<1>1. Closing(s)
  BY DEF AlreadyClosed, RefusesToClose, FailsToClose, CloseContent, CloseEnd, EndsStream, Calls
<1>2. /\ mode \in {"close", "destroy", "members"} /\ todo # <<>>
      /\ s = "err" => todo = CloseOrder /\ Tail(todo) = <<"out", "in">>
      /\ s = "out" => todo = <<"out", "in">> /\ Tail(todo) = <<"in">>
  BY <1>1, OrderFacts DEF Closing, Plan, Suffixes
<1>3. inClosed => closed[s]
  BY <1>2 DEF Calls
<1>4. CASE AlreadyClosed(s)
  <2>1. closed[s] /\ mode' = mode /\ todo' = Tail(todo) /\ UNCHANGED <<closed, eos, endDue, inClosed>>
    BY <1>4 DEF AlreadyClosed, bufferVars, inputVars
  <2>2. inClosed => \A t \in Outputs : closed[t]
    BY <1>2 DEF Calls
  <2> QED BY <1>2, <2>1, <2>2, OrderFacts DEF Calls, Outputs
<1>5. CASE RefusesToClose(s)
  BY <1>1, <1>5, CallsThrows DEF RefusesToClose, bufferVars, inputVars
<1>6. ~FailsToClose(s)
  BY <1>3 DEF FailsToClose, Calls
<1>7. CASE CloseContent(s) \/ CloseEnd(s)
  <2>1. ~closed[s] /\ ~eos[s] /\ ~inClosed /\ ~inClosed'
    BY <1>2, <1>7 DEF CloseContent, CloseEnd, EndsStream, inputVars
  <2>2. CASE CloseContent(s)
    <3>1. /\ UNCHANGED <<closed, eos, inClosed>>
          /\ \A t \in Outputs : closed[t] => endDue'[t] = endDue[t]
      BY <2>1, <2>2 DEF CloseContent, inputVars, Types, FlagTypes
    <3>2. CASE Throws
      BY <1>1, <2>1, <3>1, <3>2, CallsThrows
    <3>3. CASE UNCHANGED <<mode, todo>>
      BY <1>2, <3>1, <3>3 DEF Calls
    <3> QED BY <2>2, <3>2, <3>3, NothingTerminates DEF CloseContent
  <2>3. CASE CloseEnd(s)
    <3>1. CASE /\ endDue' = [endDue EXCEPT ![s] = TRUE]
               /\ Throws /\ UNCHANGED <<eos, closed>>
      <4>1. \A t \in Outputs : closed[t] => endDue'[t] = endDue[t]
        BY <2>1, <3>1 DEF Types, FlagTypes
      <4>2. UNCHANGED inClosed
        BY <2>3 DEF CloseEnd, inputVars
      <4> QED BY <1>1, <2>1, <3>1, <4>1, <4>2, CallsThrows
    <3>2. CASE /\ endDue' = [endDue EXCEPT ![s] = FALSE]
               /\ eos' = [eos EXCEPT ![s] = TRUE]
               /\ closed' = [closed EXCEPT ![s] = mode # "flush"]
               /\ mode' = IF mode = "flush" THEN "app" ELSE mode
               /\ todo' = Tail(todo)
      <4>1. mode' = mode /\ closed' = [closed EXCEPT ![s] = TRUE]
        BY <1>2, <3>2
      <4>2. \A t \in Outputs :
              /\ closed'[t] = (closed[t] \/ t = s) /\ eos'[t] = (eos[t] \/ t = s)
              /\ endDue'[t] = (endDue[t] /\ t # s)
        BY <3>2, <4>1 DEF Types, FlagTypes
      <4>3. mode' \in {"close", "destroy"} => /\ todo' \in {<<"in">>, <<>>} => closed'["out"]
                                              /\ todo' # <<>>
        BY <1>2, <3>2, <4>2, OrderFacts DEF Outputs
      <4> QED BY <1>2, <2>1, <4>1, <4>2, <4>3 DEF Calls
    <3> QED BY <2>3, <3>1, <3>2, NothingTerminates DEF CloseEnd
  <2> QED BY <1>7, <2>2, <2>3
<1> QED BY <1>4, <1>5, <1>6, <1>7

LEMMA CallsOrder ==
  ASSUME Types, Plan, Calls, Careful, Close \/ Destroy \/ AllClosed \/ CloseInput
  PROVE  Calls'
<1>1. CASE Close \/ Destroy
  <2>1. /\ mode' \in {"close", "destroy"} /\ todo' = CloseOrder
        /\ UNCHANGED <<closed, eos, endDue, inClosed>> /\ mode \in {"app", "abandoned"}
    BY <1>1 DEF Close, Destroy, bufferVars, inputVars
  <2>2. todo' \notin {<<"in">>, <<>>}
    BY <2>1, OrderFacts
  <2> QED BY <2>1, <2>2 DEF Calls
<1>2. CASE AllClosed
  <2>1. todo = <<>> /\ UNCHANGED <<closed, eos, endDue, inClosed>>
    BY <1>2 DEF AllClosed, bufferVars, inputVars
  <2>2. CASE mode \in {"close", "destroy"}
    <3>1. inClosed /\ \A s \in Outputs : closed[s]
      BY <2>1, <2>2 DEF Calls
    <3>2. mode' \in {"app", "members"}
      BY <1>2, <2>2 DEF AllClosed, DestroyMembers
    <3> QED BY <2>1, <3>1, <3>2 DEF Calls
  <2>3. CASE mode = "members"
    <3>1. mode' = "gone"
      BY <1>2, <2>3 DEF AllClosed
    <3> QED BY <2>1, <3>1 DEF Calls
  <2> QED BY <1>2, <2>2, <2>3 DEF AllClosed
<1>3. CASE CloseInput
  <2>1. /\ Closing("in") /\ mode' = mode /\ todo' = Tail(todo) /\ inClosed'
        /\ UNCHANGED <<closed, eos, endDue>>
    BY <1>3 DEF CloseInput, bufferVars
  <2>2. todo = <<"in">> /\ todo' = <<>> /\ mode \in {"close", "destroy", "members"}
    BY <2>1, OrderFacts DEF Closing, Plan, Suffixes
  <2>3. mode \in {"close", "destroy"} => \A s \in Outputs : closed[s]
    BY <2>2, OrderFacts DEF Plan, Calls, Outputs
  <2> QED BY <2>1, <2>2, <2>3 DEF Calls, Outputs
<1> QED BY <1>1, <1>2, <1>3

LEMMA StepCalls == Careful /\ Types /\ Plan /\ Calls /\ [Next]_vars => Calls'
<1> SUFFICES ASSUME Careful, Types, Plan, Calls, [Next]_vars PROVE Calls'
  OBVIOUS
<1>1. CASE InputAdvances \/ InputRefuses \/ ClientLeaves \/ UNCHANGED vars
  <2>1. UNCHANGED <<put, closed, eos, endDue, ios, inClosed, mode, todo>>
    BY <1>1 DEF InputAdvances, InputRefuses, ClientLeaves, vars, bufferVars, inputVars
  <2> QED BY <2>1 DEF Calls
<1>2. ~SyncInput
  BY DEF SyncInput, Careful
<1>3. CASE Close \/ Destroy \/ AllClosed \/ CloseInput
  BY <1>3, CallsOrder
<1>4. ASSUME NEW s \in Outputs, PutBytes(s) \/ Overflow(s) \/ Flush(s) \/ EndingFlush(s)
                                  \/ EndedFlush(s) \/ SetBuf(s) \/ Clear(s)
      PROVE  Calls'
  BY <1>4, CallsApplication
<1>5. ASSUME NEW s \in Outputs, AlreadyClosed(s) \/ RefusesToClose(s) \/ FailsToClose(s)
                                  \/ CloseContent(s) \/ CloseEnd(s)
      PROVE  Calls'
  BY <1>5, CallsClosing
<1> QED BY <1>1, <1>2, <1>3, <1>4, <1>5 DEF Next, Application, Teardown

LEMMA InitCalls == Init => Calls
<1>1. Len(<<>>) = 0 /\ 0 <= Room
  BY MaxContentFacts
<1> QED BY <1>1 DEF Init, Calls, Outputs

\* No assertion of streambuf.cpp fails (108, 118, 336, 345, 360, 410) as long as send() is
\* not interrupted and the application stops at the first error: neither the padding nor
\* the order in which the buffers are closed can make one fail, also when the client leaves
\* or pubsetbuf() is called.
THEOREM AssertionsHold == ASSUME Careful PROVE Spec => []NeverTerminated
<1>1. Calls => NeverTerminated
  BY DEF Calls, NeverTerminated
<1> QED BY <1>1, InitTypes, InitPlan, InitCalls, StepTypes, StepPlan, StepCalls, PTL DEF Spec

-----------------------------------------------------------------------------
(* A client that stays.                                                    *)

Told(q) == q # <<>> /\ IsEnd(q[Len(q)])

Reached ==
  conn = "up" =>
    /\ mode = "abandoned" => ~MayEnd
    /\ mode \in {"members", "gone"} /\ MayEnd => closed["err"] /\ closed["out"]
    /\ closed["out"] => Told(sent)

\* What can be sent for a stream is sent before out() is closed.
LEMMA SentWhileOpen ==
  ASSUME Types, Plan, Calls, NEW s \in Outputs, Writable(s) \/ EndsStream(s)
  PROVE  ~closed["out"]
BY OutNotEnded DEF Calls, Writable, Outputs

LEMMA ClientStays ==
  ASSUME [Next]_vars, conn' = "up"
  PROVE  conn = "up"
BY DEF Next, Application, Teardown, AllClosed, CloseInput, AlreadyClosed, RefusesToClose,
       FailsToClose, CloseContent, CloseEnd, PutBytes, Overflow, Flush, EndingFlush,
       EndedFlush, SetBuf, Clear, InputAdvances, InputRefuses, SyncInput, Close, Destroy,
       ClientLeaves, vars

LEMMA ReachedClosing ==
  ASSUME Types, Plan, Calls, Reached, Careful, conn = "up", conn' = "up", NEW s \in Outputs,
         AlreadyClosed(s) \/ RefusesToClose(s) \/ FailsToClose(s) \/ CloseContent(s)
           \/ CloseEnd(s)
  PROVE  Reached'
<1>1. mode \in {"close", "destroy", "members"} /\ UNCHANGED MayEnd
  BY DEF AlreadyClosed, RefusesToClose, FailsToClose, CloseContent, CloseEnd, EndsStream, Calls,
         Closing, inputVars, MayEnd
<1>2. ~WriteThrows
  BY DEF WriteThrows, Careful
<1>3. CASE AlreadyClosed(s)
  BY <1>1, <1>3 DEF AlreadyClosed, Reached, bufferVars, clientVars
<1>4. CASE RefusesToClose(s)
  BY <1>1, <1>4 DEF RefusesToClose, Reached, bufferVars, clientVars
<1>5. CASE FailsToClose(s)
  <2>1. mode' = "terminated" /\ UNCHANGED <<closed, sent>>
    BY <1>5 DEF FailsToClose, Terminate, clientVars
  <2> QED BY <2>1 DEF Reached
<1>6. CASE CloseContent(s)
  <2>1. UNCHANGED <<mode, closed>> /\ ~closed["out"]
    BY <1>2, <1>6, NothingTerminates, SentWhileOpen DEF CloseContent, ContentThrows
  <2> QED BY <1>1, <2>1 DEF Reached
<1>7. CASE CloseEnd(s)
  <2>1. /\ mode' = mode /\ closed' = [closed EXCEPT ![s] = TRUE]
        /\ sent' = sent \o EndRecords(s) /\ ~closed["out"] /\ ~closed[s]
    BY <1>1, <1>2, <1>7, NothingTerminates, SentWhileOpen DEF CloseEnd, Arrives, EndsStream
  <2>2. MayEnd /\ mode # "members"
    BY <1>1, <1>7, <2>1 DEF CloseEnd, EndsStream, Reached, Outputs
  <2>3. CASE s = "err"
    <3>1. ~closed'["out"]
      BY <2>1, <2>3 DEF Types, FlagTypes, Outputs
    <3> QED BY <1>1, <2>1, <2>2, <3>1 DEF Reached
  <2>4. CASE s = "out"
    <3>1. PICK a \in Record, b \in Record : EndsOut(EndRecords("out"), a, b)
      BY EndRecordsOfOut
    <3>2. PICK e \in Seq(Record) : e = EndRecords("out") /\ Len(e) = 2 /\ IsEnd(e[2])
      BY <3>1 DEF EndsOut
    <3>3. sent \in Seq(Record) /\ Len(sent) \in Nat
      BY LenProperties DEF Types, ClientTypes
    <3>4. Len(sent \o e) = Len(sent) + 2 /\ (sent \o e)[Len(sent) + 2] = e[2]
      <4>1. /\ Len(sent \o e) = Len(sent) + Len(e)
            /\ \A i \in 1..(Len(sent) + Len(e)) :
                 (sent \o e)[i] = IF i <= Len(sent) THEN sent[i] ELSE e[i - Len(sent)]
        BY <3>2, <3>3, ConcatProperties
      <4>2. PICK l \in Nat : l = Len(sent)
        BY <3>3
      <4>3. l + 2 \in 1..(l + 2) /\ ~(l + 2 <= l) /\ (l + 2) - l = 2
        OBVIOUS
      <4> QED BY <3>2, <4>1, <4>2, <4>3
    <3>5. Told(sent \o e)
      BY <3>2, <3>3, <3>4 DEF Told
    <3> QED BY <1>1, <2>1, <2>2, <2>4, <3>2, <3>5 DEF Reached
  <2> QED BY <2>3, <2>4 DEF Outputs
<1> QED BY <1>3, <1>4, <1>5, <1>6, <1>7

LEMMA StepReached == Careful /\ Types /\ Plan /\ Calls /\ Reached /\ [Next]_vars => Reached'
<1> SUFFICES ASSUME Careful, Types, Plan, Calls, Reached, [Next]_vars, conn' = "up"
             PROVE  Reached'
  BY DEF Reached
<1>1. conn = "up"
  BY ClientStays
<1>2. CASE InputAdvances \/ Close \/ Destroy
  <2>1. UNCHANGED <<closed, sent>> /\ mode' \in {"app", "close", "destroy"}
    BY <1>2 DEF InputAdvances, Close, Destroy, bufferVars, clientVars
  <2> QED BY <1>1, <2>1 DEF Reached
<1>3. CASE InputRefuses
  <2>1. mode' = "app" /\ ~closed["out"] /\ UNCHANGED closed
    BY <1>3 DEF InputRefuses, Calls, bufferVars, Outputs
  <2> QED BY <2>1 DEF Reached
<1>4. CASE CloseInput \/ UNCHANGED vars
  BY <1>1, <1>4 DEF CloseInput, Reached, MayEnd, bufferVars, clientVars, inputVars, vars
<1>5. CASE AllClosed
  <2>1. UNCHANGED <<closed, sent, MayEnd>> /\ todo = <<>>
    BY <1>5 DEF AllClosed, bufferVars, clientVars, inputVars, MayEnd
  <2>2. CASE mode \in {"close", "destroy"}
    <3>1. closed["err"] /\ closed["out"] /\ mode' \in {"app", "members"}
      BY <1>5, <2>1, <2>2 DEF AllClosed, DestroyMembers, Calls, Outputs
    <3> QED BY <1>1, <2>1, <3>1 DEF Reached
  <2>3. CASE mode = "members" /\ mode' = "gone"
    BY <1>1, <2>1, <2>3 DEF Reached
  <2> QED BY <1>5, <2>2, <2>3 DEF AllClosed
<1>6. ASSUME NEW s \in Outputs, PutBytes(s) \/ EndedFlush(s) \/ SetBuf(s)
      PROVE  Reached'
  <2>1. mode' = "app" /\ UNCHANGED <<closed, sent>>
    BY <1>6 DEF PutBytes, EndedFlush, SetBuf, Writable, bufferVars, clientVars
  <2> QED BY <1>1, <2>1 DEF Reached
<1>7. ASSUME NEW s \in Outputs, Overflow(s) \/ Flush(s)
      PROVE  Reached'
  <2>1. UNCHANGED <<closed, mode>> /\ mode = "app" /\ ~closed["out"]
    BY <1>7, NothingTerminates, SentWhileOpen DEF Overflow, Flush, Writable
  <2> QED BY <2>1 DEF Reached
<1>8. ASSUME NEW s \in Outputs, EndingFlush(s) \/ Clear(s)
      PROVE  FALSE
  BY <1>8 DEF EndingFlush, Clear, Writable, Calls, Careful
<1>9. ASSUME NEW s \in Outputs, AlreadyClosed(s) \/ RefusesToClose(s) \/ FailsToClose(s)
                                  \/ CloseContent(s) \/ CloseEnd(s)
      PROVE  Reached'
  BY <1>1, <1>9, ReachedClosing
<1> QED BY <1>2, <1>3, <1>4, <1>5, <1>6, <1>7, <1>8, <1>9
        DEF Next, Application, Teardown, SyncInput, ClientLeaves, Careful

\* A client that stays is told the end of the response by the time the connection is
\* destroyed, whether close() was called or left to the destructors, and whatever records
\* it has sent (close(), 98-129; server_connection_stacked.cpp, 42-91).
THEOREM DestroyedConnectionsHaveEnded == ASSUME Careful PROVE Spec => []GoneMeansEnded
<1>1. Init => Reached
  BY DEF Init, Reached, Outputs
<1>2. Reached => GoneMeansEnded
  BY DEF Reached, GoneMeansEnded, Told
<1> QED BY <1>1, <1>2, InitTypes, InitPlan, InitCalls, StepTypes, StepPlan, StepCalls,
           StepReached, PTL DEF Spec

-----------------------------------------------------------------------------
(* What the steps do to the response.                                      *)

\* The client sends no record that has to be refused, and pubsetbuf() is not called.
Gentle == Careful /\ ~ClientViolates /\ ~SetsBuffers

\* put' is left out: a write that fails leaves what will never be received.
Lost ==
  /\ conn = "down" /\ UNCHANGED <<eos, consumed, clientVars>>
  /\ \E s \in Outputs, n \in Nat : written' = [written EXCEPT ![s] = written[s] + n]

Puts(s, n) ==
  /\ put' = [put EXCEPT ![s] = put[s] \o Numbers(written[s], n)]
  /\ written' = [written EXCEPT ![s] = written[s] + n]
  /\ UNCHANGED <<eos, consumed, clientVars>>

\* The put area, with what has been written at this moment, becomes a record.
Sends(s, content, n) ==
  /\ (Writable(s) /\ ~eos[s]) \/ EndsStream(s)
  /\ ContentSent(s, content) /\ content # <<>>
  /\ content = put[s] \o Numbers(written[s], n)
  /\ written' = [written EXCEPT ![s] = written[s] + n]
  /\ UNCHANGED eos

Stops(s) ==
  /\ EndArrives(s) /\ Closing(s) /\ ~closed[s] /\ MayEnd /\ UNCHANGED <<put, consumed, written>>

LEMMA NoNumbers ==
  ASSUME NEW q \in Seq(Nat), NEW w \in Nat
  PROVE  q \o Numbers(w, 0) = q /\ q \o Numbers(w, 1) = Append(q, w + 1)
<1>1. Numbers(w, 0) = <<>>
  <2>1. Numbers(w, 0) \in Seq(Nat) /\ Len(Numbers(w, 0)) = 0
    BY NumbersProperties
  <2> QED BY <2>1, EmptySeq
<1>2. Numbers(w, 1) = <<w + 1>>
  BY DEF Numbers
<1>3. Append(q, w + 1) = q \o <<w + 1>>
  BY AppendIsConcat
<1>4. q \o <<>> = q
  BY ConcatEmptySeq
<1> QED BY <1>1, <1>2, <1>3, <1>4

LEMMA SameWritten ==
  ASSUME Types, NEW s \in Outputs
  PROVE  written = [written EXCEPT ![s] = written[s] + 0]
BY DEF Types, ApplicationTypes

LEMMA ResponseSteps ==
  ASSUME Gentle, Types, Plan, Calls, [Next]_vars
  PROVE  \/ UNCHANGED <<put, eos, consumed, written, clientVars>>
         \/ Lost
         \/ \E s \in Outputs : \/ \E n \in Nat : Puts(s, n)
                               \/ \E content \in Seq(Nat), n \in Nat : Sends(s, content, n)
                               \/ Stops(s)
<1>1. CASE Calm \/ UNCHANGED vars
  BY <1>1 DEF Calm, EndedFlush, Clear, AlreadyClosed, RefusesToClose, InputAdvances, SyncInput,
         Close, Destroy, AllClosed, CloseInput, ClientLeaves, bufferVars, vars
<1>2. ~InputRefuses /\ \A s \in Outputs : ~SetBuf(s) /\ ~EndingFlush(s)
  BY DEF Gentle, InputRefuses, SetBuf, EndingFlush, Writable, Calls
<1>3. ASSUME WriteThrows PROVE conn = "down"
  BY <1>3 DEF WriteThrows, Gentle, Careful
<1>4. ASSUME NEW s \in Outputs, PutBytes(s)
      PROVE  \E n \in Nat : Puts(s, n)
  <2>1. PICK n \in WriteSizes \cup {Room - Len(put[s])} :
            /\ n \in 1..(Room - Len(put[s]))
            /\ put' = [put EXCEPT ![s] = put[s] \o Numbers(written[s], n)]
            /\ written' = [written EXCEPT ![s] = written[s] + n]
    BY <1>4 DEF PutBytes
  <2>2. n \in Nat
    BY <2>1
  <2> QED BY <1>4, <2>1, <2>2 DEF PutBytes, Puts
<1>5. ASSUME NEW s \in Outputs, Overflow(s)
      PROVE  Lost \/ \E content \in Seq(Nat), n \in Nat : Sends(s, content, n)
  <2> DEFINE content == Append(put[s], written[s] + 1)
  <2>1. /\ content \in Seq(Nat) /\ content # <<>>
        /\ content = put[s] \o Numbers(written[s], 1)
    <3>1. put[s] \in Seq(Nat) /\ written[s] + 1 \in Nat
      BY StreamTypes
    <3>2. content # <<>>
      BY <3>1, AppendProperties
    <3>3. content \in Seq(Nat)
      BY ContentType
    <3>4. put[s] \in Seq(Nat) /\ written[s] \in Nat
      BY StreamTypes
    <3>5. content = put[s] \o Numbers(written[s], 1)
      BY <3>4, NoNumbers
    <3> QED BY <3>2, <3>3, <3>5
  <2>2. ~ContentTerminates(content)
    BY <1>5, NothingTerminates DEF Overflow, Writable, Gentle
  <2>3. CASE ContentSent(s, content) /\ written' = [written EXCEPT ![s] = written[s] + 1]
    <3>1. Sends(s, content, 1)
      BY <1>5, <2>1, <2>3 DEF Overflow, Sends
    <3> QED BY <2>1, <3>1
  <2>4. CASE ContentThrows(s, content) /\ written' = [written EXCEPT ![s] = written[s] + 1]
    <3>1. conn = "down" /\ UNCHANGED <<eos, consumed, clientVars>> /\ 1 \in Nat
      BY <1>3, <1>5, <2>4 DEF Overflow, ContentThrows
    <3> QED BY <2>4, <3>1 DEF Lost
  <2> QED BY <1>5, <2>2, <2>3, <2>4 DEF Overflow
<1>6. ASSUME NEW s \in Outputs, Flush(s) \/ CloseContent(s)
      PROVE  Lost \/ \E content \in Seq(Nat), n \in Nat : Sends(s, content, n)
  <2>1. /\ put[s] \in Seq(Nat) /\ put[s] # <<>> /\ put[s] = put[s] \o Numbers(written[s], 0)
        /\ written' = [written EXCEPT ![s] = written[s] + 0] /\ UNCHANGED eos
    BY <1>6, StreamTypes, NoNumbers, SameWritten DEF Flush, CloseContent
  <2>2. ~ContentTerminates(put[s])
    BY NothingTerminates DEF Gentle
  <2>3. CASE ContentSent(s, put[s])
    <3>1. Sends(s, put[s], 0)
      BY <1>6, <2>1, <2>3 DEF Flush, CloseContent, Sends
    <3> QED BY <2>1, <3>1
  <2>4. CASE ContentThrows(s, put[s])
    <3>1. conn = "down" /\ UNCHANGED <<eos, consumed, clientVars>> /\ 0 \in Nat
      BY <1>3, <2>1, <2>4 DEF ContentThrows
    <3> QED BY <2>1, <3>1 DEF Lost
  <2> QED BY <1>6, <2>2, <2>3, <2>4 DEF Flush, CloseContent
<1>7. ASSUME NEW s \in Outputs, CloseEnd(s)
      PROVE  Stops(s) \/ UNCHANGED <<put, eos, consumed, written, clientVars>>
  <2>1. EndArrives(s) \/ UNCHANGED <<eos, clientVars>>
    BY <1>7 DEF CloseEnd, EndArrives
  <2>2. Closing(s) /\ ~closed[s] /\ MayEnd /\ UNCHANGED <<put, consumed, written>>
    BY <1>7 DEF CloseEnd, EndsStream, Calls
  <2> QED BY <2>1, <2>2 DEF Stops
<1>8. ASSUME NEW s \in Outputs, FailsToClose(s)
      PROVE  UNCHANGED <<put, eos, consumed, written, clientVars>>
  BY <1>8 DEF FailsToClose
<1> QED BY <1>1, <1>2, <1>4, <1>5, <1>6, <1>7, <1>8 DEF Next, Application, Teardown, Calm

-----------------------------------------------------------------------------
(* The bytes of a client that stays.                                       *)

\* What it has of a stream and what is still in the put area is what has been written.
Whole(r, p, w) == r \o p = Numbers(0, w)

LEMMA NumbersJoin ==
  ASSUME NEW w \in Nat, NEW n \in Nat
  PROVE  Numbers(0, w) \o Numbers(w, n) = Numbers(0, w + n)
<1>1. PICK a \in Seq(Nat) : /\ a = Numbers(0, w) /\ Len(a) = w
                            /\ \A i \in 1..w : a[i] = 0 + i
  BY NumbersProperties
<1>2. PICK b \in Seq(Nat) : /\ b = Numbers(w, n) /\ Len(b) = n
                            /\ \A i \in 1..n : b[i] = w + i
  BY NumbersProperties
<1>3. PICK all \in Seq(Nat) : /\ all = Numbers(0, w + n) /\ Len(all) = w + n
                              /\ \A i \in 1..(w + n) : all[i] = 0 + i
  <2>1. w + n \in Nat
    OBVIOUS
  <2> QED BY <2>1, NumbersProperties
<1>4. PICK q \in Seq(Nat), l \in Nat, m \in Nat :
        /\ q = a \o b /\ l = Len(a) /\ m = Len(b) /\ Len(q) = l + m
        /\ \A i \in 1..l : q[i] = a[i] /\ a[i] \in Nat
        /\ \A i \in 1..m : q[l + i] = b[i] /\ b[i] \in Nat
  BY Split
<1>5. ASSUME NEW i \in 1..(w + n)
      PROVE  q[i] = all[i]
  <2>1. CASE i <= w
    <3>1. i \in 1..w
      BY <2>1
    <3> QED BY <1>1, <1>3, <1>4, <3>1
  <2>2. CASE ~(i <= w)
    <3>1. PICK j \in 1..n : i = w + j
      <4>1. i - w \in 1..n /\ i = w + (i - w)
        BY <2>2
      <4> QED BY <4>1
    <3>2. q[w + j] = w + j
      <4>1. l = w /\ m = n
        BY <1>1, <1>2, <1>4
      <4>2. q[l + j] = b[j] /\ b[j] = w + j
        BY <1>2, <1>4, <4>1
      <4> QED BY <4>1, <4>2
    <3>3. all[i] = i
      BY <1>3
    <3> QED BY <3>1, <3>2, <3>3
  <2> QED BY <2>1, <2>2
<1>6. Len(q) = Len(all) /\ \A i \in 1..Len(q) : q[i] = all[i]
  BY <1>1, <1>2, <1>3, <1>4, <1>5
<1>7. q = all
  BY <1>6, SeqEqual
<1> QED BY <1>1, <1>2, <1>3, <1>4, <1>7

LEMMA JoinTwice ==
  ASSUME NEW r \in Seq(Nat), NEW p \in Seq(Nat), NEW more \in Seq(Nat)
  PROVE  (r \o p) \o more = r \o (p \o more)
BY ConcatAssociative, SMTT(30)

LEMMA WholeMore ==
  ASSUME NEW r \in Seq(Nat), NEW p \in Seq(Nat), NEW w \in Nat, NEW n \in Nat, Whole(r, p, w)
  PROVE  /\ p \o Numbers(w, n) \in Seq(Nat)
         /\ Whole(r, p \o Numbers(w, n), w + n)
<1>1. PICK more \in Seq(Nat) : more = Numbers(w, n)
  BY NumbersProperties
<1>2. (r \o p) \o more = r \o (p \o more)
  BY JoinTwice
<1>3. r \o (p \o more) = Numbers(0, w + n)
  BY <1>1, <1>2, NumbersJoin DEF Whole
<1> QED BY <1>1, <1>3, Concatenated DEF Whole

LEMMA WholeSent ==
  ASSUME NEW r \in Seq(Nat), NEW p \in Seq(Nat), NEW w, Whole(r, p, w)
  PROVE  Whole(r \o p, <<>>, w)
<1>1. r \o p \in Seq(Nat)
  BY Concatenated
<1>2. (r \o p) \o <<>> = r \o p
  BY <1>1, ConcatEmptySeq
<1> QED BY <1>2 DEF Whole

WholeInv == conn = "up" => \A s \in Outputs : Whole(received[s], put[s], written[s])

\* The end records of a stream are none of its bytes.
LEMMA EndKeepsReceived ==
  ASSUME Types, NEW s \in Outputs, EndArrives(s)
  PROVE  received' = received
<1>1. received[s] \o <<>> = received[s]
  BY StreamTypes, ConcatEmptySeq
<1>2. received \in [Outputs -> Seq(Nat)]
  BY DEF Types, ClientTypes
<1>3. received' = [received EXCEPT ![s] = received[s]] \/ received' = received
  BY <1>1 DEF EndArrives, Arrives, clientVars
<1> QED BY <1>2, <1>3

LEMMA WholeStep ==
  Gentle /\ Types /\ Plan /\ Calls /\ WholeInv /\ [Next]_vars => WholeInv'
<1> SUFFICES ASSUME Gentle, Types, Plan, Calls, WholeInv, [Next]_vars, conn' = "up",
                    NEW t \in Outputs
             PROVE  Whole(received'[t], put'[t], written'[t])
  BY DEF WholeInv
<1>1. conn = "up" /\ Whole(received[t], put[t], written[t])
  BY ClientStays DEF WholeInv
<1>2. CASE UNCHANGED <<put, eos, consumed, written, clientVars>>
  BY <1>1, <1>2 DEF clientVars
<1>3. ASSUME NEW s \in Outputs, NEW n \in Nat, Puts(s, n)
      PROVE  Whole(received'[t], put'[t], written'[t])
  <2>1. CASE t = s
    <3>1. put'[t] = put[t] \o Numbers(written[t], n) /\ written'[t] = written[t] + n
      BY <1>3, <2>1, StreamTypes DEF Puts
    <3>2. received'[t] = received[t]
      BY <1>3 DEF Puts, clientVars
    <3> QED BY <1>1, <3>1, <3>2, StreamTypes, WholeMore
  <2>2. CASE t # s
    BY <1>1, <1>3, <2>2, StreamTypes DEF Puts, clientVars
  <2> QED BY <2>1, <2>2
<1>4. ASSUME NEW s \in Outputs, NEW content \in Seq(Nat), NEW n \in Nat, Sends(s, content, n)
      PROVE  Whole(received'[t], put'[t], written'[t])
  <2>1. /\ received' = [received EXCEPT ![s] = received[s] \o content]
        /\ put' = [put EXCEPT ![s] = <<>>]
        /\ written' = [written EXCEPT ![s] = written[s] + n]
        /\ content = put[s] \o Numbers(written[s], n)
    BY <1>1, <1>4 DEF Sends, ContentSent, Arrives
  <2>2. CASE t = s
    <3>1. /\ received'[t] = received[t] \o content /\ put'[t] = <<>>
          /\ written'[t] = written[t] + n
      BY <2>1, <2>2, StreamTypes
    <3>2. Whole(received[t], content, written[t] + n)
      BY <1>1, <2>1, <2>2, StreamTypes, WholeMore
    <3>3. Whole(received[t] \o content, <<>>, written[t] + n)
      BY <3>2, StreamTypes, WholeSent
    <3> QED BY <3>1, <3>3
  <2>3. CASE t # s
    BY <1>1, <2>1, <2>3, StreamTypes
  <2> QED BY <2>2, <2>3
<1>5. ASSUME NEW s \in Outputs, Stops(s)
      PROVE  Whole(received'[t], put'[t], written'[t])
  BY <1>1, <1>5, EndKeepsReceived DEF Stops
<1> QED BY <1>1, <1>2, <1>3, <1>4, <1>5, ResponseSteps DEF Lost

-----------------------------------------------------------------------------
(* The ends a client has been told.                                        *)

Kinds == Outputs \cup {"end"}

Marks(q, kind) == {i \in 1..Len(q) : q[i].kind = kind /\ (kind \in Outputs => q[i].clen = 0)}

LEMMA MarksAre ==
  ASSUME NEW kind
  PROVE  EndsOf(kind) = Marks(sent, kind) /\ EndsOf(kind)' = Marks(sent', kind)
BY DEF EndsOf, Marks

LEMMA MarksOfMore ==
  ASSUME NEW q \in Seq(Record), NEW e \in Seq(Record), NEW kind
  PROVE  /\ Marks(e, kind) = {} => Marks(q \o e, kind) = Marks(q, kind)
         /\ \A i \in 1..Len(e) : Marks(q, kind) = {} /\ Marks(e, kind) = {i}
              => Marks(q \o e, kind) = {Len(q) + i}
<1>1. PICK c : c = q \o e
  OBVIOUS
<1>2. PICK l \in Nat, m \in Nat : l = Len(q) /\ m = Len(e)
  BY LenProperties
<1>3. Len(c) = l + m /\ \A i \in 1..(l + m) : c[i] = IF i <= l THEN q[i] ELSE e[i - l]
  BY <1>1, <1>2, ConcatProperties
<1>4. \A i \in 1..l : i \in 1..(l + m) /\ c[i] = q[i]
  BY <1>3
<1>5. ASSUME NEW i \in 1..m
      PROVE  l + i \in 1..(l + m) /\ l + i \notin 1..l /\ c[l + i] = e[i]
  <2>1. l + i \in 1..(l + m) /\ ~(l + i <= l) /\ (l + i) - l = i
    OBVIOUS
  <2> QED BY <1>3, <2>1
<1>6. ASSUME NEW j \in 1..(l + m), j \notin 1..l
      PROVE  \E i \in 1..m : j = l + i
  <2>1. j - l \in 1..m /\ j = l + (j - l)
    BY <1>6
  <2> QED BY <2>1
<1>7. ASSUME NEW j
      PROVE  j \in Marks(c, kind)
               <=> j \in Marks(q, kind) \/ \E i \in Marks(e, kind) : j = l + i
  <2>1. ASSUME j \in Marks(c, kind)
        PROVE  j \in Marks(q, kind) \/ \E i \in Marks(e, kind) : j = l + i
    <3>1. CASE j \in 1..l
      BY <1>2, <1>4, <2>1, <3>1 DEF Marks
    <3>2. CASE j \notin 1..l
      <4>1. PICK i \in 1..m : j = l + i
        BY <1>3, <1>6, <2>1, <3>2 DEF Marks
      <4>2. c[l + i] = e[i]
        BY <1>5
      <4>3. i \in Marks(e, kind)
        BY <1>2, <2>1, <4>1, <4>2 DEF Marks
      <4> QED BY <4>1, <4>3
    <3> QED BY <3>1, <3>2
  <2>2. ASSUME j \in Marks(q, kind)
        PROVE  j \in Marks(c, kind)
    BY <1>2, <1>3, <1>4, <2>2 DEF Marks
  <2>3. ASSUME NEW i \in Marks(e, kind), j = l + i
        PROVE  j \in Marks(c, kind)
    BY <1>2, <1>3, <1>5, <2>3 DEF Marks
  <2> QED BY <2>1, <2>2, <2>3
<1> HIDE DEF Marks
<1>8. Marks(e, kind) = {} => Marks(c, kind) = Marks(q, kind)
  BY <1>7
<1>9. ASSUME NEW i \in 1..Len(e), Marks(q, kind) = {}, Marks(e, kind) = {i}
      PROVE  Marks(c, kind) = {l + i}
  BY <1>7, <1>9
<1> QED BY <1>1, <1>2, <1>8, <1>9

LEMMA MarksOfContent ==
  ASSUME NEW s \in Outputs, NEW content \in Seq(Nat), content # <<>>, PaddingFits(content)
  PROVE  /\ <<ContentRecord(s, content)>> \in Seq(Record)
         /\ \A kind \in Kinds : Marks(<<ContentRecord(s, content)>>, kind) = {}
<1>1. PICK r \in Record : r = ContentRecord(s, content)
  BY RecordOfContent
<1>2. r.kind = s /\ r.clen # 0
  <2>1. Len(content) # 0
    BY EmptySeq
  <2> QED BY <1>1, <2>1 DEF ContentRecord
<1>3. \A kind \in Kinds : Marks(<<r>>, kind) = {}
  BY <1>2 DEF Marks, Kinds, Outputs
<1> QED BY <1>1, <1>3

LEMMA EmptyErrRecord == [kind |-> "err", clen |-> 0, plen |-> 0] \in Record
BY SMT DEF Record, Outputs

LEMMA MarksOfEnds ==
  /\ EndRecords("out") \in Seq(Record) /\ Len(EndRecords("out")) = 2
  /\ Marks(EndRecords("out"), "out") = {1} /\ Marks(EndRecords("out"), "end") = {2}
  /\ Marks(EndRecords("out"), "err") = {}
  /\ EndRecords("err") \in Seq(Record)
  /\ ~consumed["err"] => EndRecords("err") = <<>>
  /\ consumed["err"] => /\ Len(EndRecords("err")) = 1 /\ Marks(EndRecords("err"), "err") = {1}
                        /\ Marks(EndRecords("err"), "out") = {}
                        /\ Marks(EndRecords("err"), "end") = {}
<1>1. PICK a \in Record, b \in Record : EndsOut(EndRecords("out"), a, b)
  BY EndRecordsOfOut
<1>2. PICK e \in Seq(Record) : e = EndRecords("out") /\ Len(e) = 2 /\ e[1] = a /\ e[2] = b
  BY <1>1 DEF EndsOut
<1>3. a.kind = "out" /\ a.clen = 0 /\ b.kind = "end"
  BY <1>1 DEF EndsOut
<1>4. 1..Len(e) = {1, 2}
  BY <1>2
<1>5. Marks(e, "out") = {1} /\ Marks(e, "end") = {2} /\ Marks(e, "err") = {}
  BY <1>2, <1>3, <1>4 DEF Marks, Outputs
<1>6. EndRecords("err") \in Seq(Record)
  BY EndRecordsType DEF Outputs
<1>7. ~consumed["err"] => EndRecords("err") = <<>>
  BY DEF EndRecords
<1>8. ASSUME consumed["err"]
      PROVE  /\ Len(EndRecords("err")) = 1 /\ Marks(EndRecords("err"), "err") = {1}
             /\ Marks(EndRecords("err"), "out") = {} /\ Marks(EndRecords("err"), "end") = {}
  <2>1. PICK r \in Record : r.kind = "err" /\ r.clen = 0 /\ r = [kind |-> "err", clen |-> 0, plen |-> 0]
    <3>1. [kind |-> "err", clen |-> 0, plen |-> 0] \in Record
      BY EmptyErrRecord
    <3> QED BY <3>1
  <2>2. EndRecords("err") = <<r>> \o <<>>
    BY <1>8, <2>1 DEF EndRecords
  <2>3. EndRecords("err") = <<r>>
    BY <2>2, ConcatEmptySeq
  <2>4. Len(<<r>>) = 1 /\ <<r>>[1] = r /\ 1..1 = {1}
    OBVIOUS
  <2> QED BY <2>1, <2>3, <2>4 DEF Marks, Outputs
<1> QED BY <1>2, <1>5, <1>6, <1>7, <1>8

\* A stream that goes on has not been ended, and err() has been if anything was received.
CountInv ==
  /\ \A s \in Outputs : ~eos[s] => EndsOf(s) = {}
  /\ ~eos["out"] => EndsOf("end") = {}
  /\ \A s \in Outputs : received[s] # <<>> => consumed[s]
  /\ conn = "up" /\ eos["err"] /\ consumed["err"] => Cardinality(EndsOf("err")) = 1

LEMMA SendsKeepsEnds ==
  ASSUME Types, NEW s \in Outputs, NEW content \in Seq(Nat), NEW n \in Nat,
         Sends(s, content, n)
  PROVE  \A kind \in Kinds : EndsOf(kind)' = EndsOf(kind)
<1>1. sent \in Seq(Record)
  BY DEF Types, ClientTypes
<1>2. PaddingFits(content) /\ content # <<>>
  BY DEF Sends, ContentSent
<1>3. PICK e \in Seq(Record) :
        e = <<ContentRecord(s, content)>> /\ \A kind \in Kinds : Marks(e, kind) = {}
  BY <1>2, MarksOfContent
<1>4. sent' = sent \o e \/ sent' = sent
  BY <1>3 DEF Sends, ContentSent, Arrives, clientVars
<1>5. ASSUME NEW kind \in Kinds
      PROVE  Marks(sent', kind) = Marks(sent, kind)
  <2>1. Marks(e, kind) = {}
    BY <1>3
  <2>2. Marks(sent \o e, kind) = Marks(sent, kind)
    BY <1>1, <2>1, MarksOfMore
  <2> QED BY <1>4, <2>2
<1> QED BY <1>5, MarksAre

\* What ending a stream tells a client that is there.
LEMMA StopsTells ==
  ASSUME Types, Plan, Calls, CountInv, NEW s \in Outputs, Stops(s), conn = "up"
  PROVE  /\ s = "out" => /\ Cardinality(EndsOf("out")') = 1 /\ Cardinality(EndsOf("end")') = 1
                         /\ EndsOf("err")' = EndsOf("err")
         /\ s = "err" => /\ EndsOf("out")' = EndsOf("out") /\ EndsOf("end")' = EndsOf("end")
                         /\ ~consumed["err"] => EndsOf("err")' = EndsOf("err")
                         /\ consumed["err"] => Cardinality(EndsOf("err")') = 1
<1>1. sent \in Seq(Record) /\ Len(sent) \in Nat
  BY LenProperties DEF Types, ClientTypes
<1>2. EndsStream(s) /\ ~eos[s] /\ ~eos["out"] /\ sent' = sent \o EndRecords(s)
  <2>1. EndsStream(s) /\ sent' = sent \o EndRecords(s)
    BY DEF Stops, EndArrives, Arrives
  <2>2. ~eos[s]
    BY DEF Stops, Calls
  <2> QED BY <2>1, <2>2, OutNotEnded
<1>3. Marks(sent, s) = {} /\ Marks(sent, "end") = {}
  BY <1>2, MarksAre DEF CountInv
<1>4. CASE s = "out"
  <2>1. PICK e \in Seq(Record) :
          /\ e = EndRecords("out") /\ Len(e) = 2
          /\ Marks(e, "out") = {1} /\ Marks(e, "end") = {2} /\ Marks(e, "err") = {}
    BY MarksOfEnds
  <2>2. Marks(sent', "out") = {Len(sent) + 1} /\ Marks(sent', "end") = {Len(sent) + 2}
    <3>1. 1 \in 1..Len(e) /\ 2 \in 1..Len(e)
      BY <2>1
    <3>2. Marks(sent \o e, "out") = {Len(sent) + 1}
      <4>1. Marks(sent, "out") = {}
        BY <1>3, <1>4
      <4> QED BY <1>1, <2>1, <3>1, <4>1, MarksOfMore
    <3>3. Marks(sent \o e, "end") = {Len(sent) + 2}
      BY <1>1, <1>3, <2>1, <3>1, MarksOfMore
    <3> QED BY <1>2, <1>4, <2>1, <3>2, <3>3
  <2>3. Marks(sent', "err") = Marks(sent, "err")
    BY <1>1, <1>2, <1>4, <2>1, MarksOfMore
  <2>4. /\ EndsOf("out")' = {Len(sent) + 1} /\ EndsOf("end")' = {Len(sent) + 2}
        /\ EndsOf("err")' = EndsOf("err")
    BY <2>2, <2>3, MarksAre
  <2>5. \A x : Cardinality({x}) = 1
    BY FS_Singleton, Zenon
  <2> QED BY <1>4, <2>4, <2>5
<1>5. CASE s = "err" /\ consumed["err"]
  <2>1. PICK e \in Seq(Record) :
          /\ e = EndRecords("err") /\ Len(e) = 1
          /\ Marks(e, "err") = {1} /\ Marks(e, "out") = {} /\ Marks(e, "end") = {}
    BY <1>5, MarksOfEnds
  <2>2. Marks(sent', "err") = {Len(sent) + 1}
    <3>1. 1 \in 1..Len(e)
      BY <2>1
    <3> QED BY <1>1, <1>2, <1>3, <1>5, <2>1, <3>1, MarksOfMore
  <2>3. Marks(sent', "out") = Marks(sent, "out") /\ Marks(sent', "end") = Marks(sent, "end")
    BY <1>1, <1>2, <1>5, <2>1, MarksOfMore
  <2> QED BY <1>5, <2>2, <2>3, MarksAre, FS_Singleton
<1>6. CASE s = "err" /\ ~consumed["err"]
  <2>1. sent' = sent
    BY <1>1, <1>2, <1>6, MarksOfEnds, ConcatEmptySeq
  <2> QED BY <1>6, <2>1, MarksAre
<1> QED BY <1>4, <1>5, <1>6 DEF Outputs

LEMMA CountStep ==
  Gentle /\ Types /\ Plan /\ Calls /\ CountInv /\ [Next]_vars => CountInv'
<1> SUFFICES ASSUME Gentle, Types, Plan, Calls, CountInv, [Next]_vars PROVE CountInv'
  OBVIOUS
<1>1. conn' = "up" => conn = "up"
  BY ClientStays
<1>2. CASE UNCHANGED <<put, eos, consumed, written, clientVars>> \/ Lost
  <2>1. UNCHANGED <<eos, consumed, sent, received>>
    BY <1>2 DEF Lost, clientVars
  <2> QED BY <1>1, <2>1 DEF CountInv, EndsOf
<1>3. ASSUME NEW s \in Outputs, NEW n \in Nat, Puts(s, n)
      PROVE  CountInv'
  <2>1. UNCHANGED <<eos, consumed, sent, received>>
    BY <1>3 DEF Puts, clientVars
  <2> QED BY <1>1, <2>1 DEF CountInv, EndsOf
<1>4. ASSUME NEW s \in Outputs, NEW content \in Seq(Nat), NEW n \in Nat, Sends(s, content, n)
      PROVE  CountInv'
  <2>1. \A kind \in Kinds : EndsOf(kind)' = EndsOf(kind)
    BY <1>4, SendsKeepsEnds
  <2>2. UNCHANGED eos /\ consumed' = [consumed EXCEPT ![s] = TRUE]
    BY <1>4 DEF Sends, ContentSent
  <2>3. consumed'[s] /\ \A t \in Outputs \ {s} : consumed'[t] = consumed[t]
    BY <2>2 DEF Types, FlagTypes
  <2>4. \A t \in Outputs \ {s} : received'[t] = received[t]
    BY <1>4, StreamTypes DEF Sends, ContentSent, Arrives, clientVars
  <2>5. ~eos[s]
    BY <1>4 DEF Sends, EndsStream, Calls
  <2> QED BY <1>1, <2>1, <2>2, <2>3, <2>4, <2>5 DEF CountInv, Kinds, Outputs
<1>5. ASSUME NEW s \in Outputs, Stops(s)
      PROVE  CountInv'
  <2>1. UNCHANGED <<received, consumed>> /\ eos' = [eos EXCEPT ![s] = TRUE]
    BY <1>5, EndKeepsReceived DEF Stops, EndArrives
  <2>2. eos'[s] /\ \A t \in Outputs \ {s} : eos'[t] = eos[t]
    BY <2>1 DEF Types, FlagTypes
  <2>3. CASE conn = "up"
    BY <1>5, <2>1, <2>2, <2>3, StopsTells DEF CountInv, Outputs
  <2>4. CASE conn # "up"
    <3>1. UNCHANGED sent
      BY <1>5, <2>4 DEF Stops, EndArrives, Arrives, clientVars
    <3> QED BY <1>1, <2>1, <2>2, <2>4, <3>1 DEF CountInv, EndsOf, Outputs
  <2> QED BY <2>3, <2>4
<1> QED BY <1>2, <1>3, <1>4, <1>5, ResponseSteps

-----------------------------------------------------------------------------
(* The refinement.                                                         *)

\* Response's ends and finished.
EndsMap == [s \in Outputs |-> Cardinality(EndsOf(s))]
FinishedCount == Cardinality(EndsOf("end"))

LEMMA ResponseActions ==
  ASSUME NEW s \in Outputs
  PROVE  /\ Output!Transfers(s) <=>
              /\ \A t \in Outputs \ {s} : written'[t] = written[t]
              /\ \A t \in Outputs \ {s} : received'[t] = received[t]
              /\ written[s] <= written'[s]
              /\ \/ received'[s] = received[s]
                 \/ /\ EndsMap[s] = 0 /\ FinishedCount = 0
                    /\ Len(received'[s]) \in Len(received[s]) .. written'[s]
                    /\ \A i \in 1..Len(received'[s]) : received'[s][i] = i
              /\ UNCHANGED <<EndsMap, FinishedCount>>
         /\ Output!Ends(s) <=>
              /\ s # "out" /\ EndsMap[s] = 0 /\ Len(received[s]) = written[s]
              /\ FinishedCount = 0 /\ EndsMap' = [EndsMap EXCEPT ![s] = 1]
              /\ UNCHANGED <<written, received, FinishedCount>>
         /\ Output!Finishes <=>
              /\ EndsMap["out"] = 0 /\ Len(received["out"]) = written["out"] /\ FinishedCount = 0
              /\ \A t \in Outputs \ {"out"} : received[t] # <<>> => EndsMap[t] = 1
              /\ EndsMap' = [EndsMap EXCEPT !["out"] = 1] /\ FinishedCount' = 1
              /\ UNCHANGED <<written, received>>
BY DEF Output!Transfers, Output!Ends, Output!Finishes, Output!OnlyAt, Output!Complete,
       EndsMap, FinishedCount

LEMMA ResponseNext ==
  ASSUME \/ UNCHANGED <<written, received, EndsMap, FinishedCount>>
         \/ Output!Finishes
         \/ \E s \in Outputs : Output!Transfers(s) \/ Output!Ends(s)
  PROVE  [Output!Next]_(Output!responseVars)
BY DEF Output!Next, Output!responseVars, EndsMap, FinishedCount

LEMMA SameEnds ==
  ASSUME \A kind \in Kinds : EndsOf(kind)' = EndsOf(kind)
  PROVE  UNCHANGED <<EndsMap, FinishedCount>>
BY DEF EndsMap, FinishedCount, Kinds

LEMMA NothingTold ==
  ASSUME CountInv, ~eos["out"], NEW s \in Outputs, ~eos[s]
  PROVE  EndsMap[s] = 0 /\ FinishedCount = 0
BY FS_EmptySet DEF CountInv, EndsMap, FinishedCount

\* With an empty put area the client has all.
LEMMA AllReceived ==
  ASSUME NEW r \in Seq(Nat), NEW w \in Nat, Whole(r, <<>>, w)
  PROVE  Len(r) = w /\ \A i \in 1..w : r[i] = i
<1>1. r = Numbers(0, w)
  BY ConcatEmptySeq DEF Whole
<1>2. Len(Numbers(0, w)) = w /\ \A i \in 1..w : Numbers(0, w)[i] = 0 + i
  BY NumbersProperties
<1>3. \A i \in 1..w : 0 + i = i
  OBVIOUS
<1> QED BY <1>1, <1>2, <1>3

RespInv == Types /\ Plan /\ Calls /\ Reached /\ WholeInv /\ CountInv

LEMMA SendsIsTransfers ==
  ASSUME RespInv, NEW s \in Outputs, NEW content \in Seq(Nat), NEW n \in Nat,
         Sends(s, content, n)
  PROVE  Output!Transfers(s)
<1>1. /\ \A t \in Outputs \ {s} : written'[t] = written[t]
      /\ \A t \in Outputs \ {s} : received'[t] = received[t]
      /\ written[s] <= written'[s]
  <2>1. Types /\ written' = [written EXCEPT ![s] = written[s] + n]
    BY DEF RespInv, Sends
  <2>2. written[s] \in Nat /\ written'[s] = written[s] + n
    BY <2>1, StreamTypes
  <2>3. \A t \in Outputs \ {s} : written'[t] = written[t]
    BY <2>1, StreamTypes
  <2>4. \A t \in Outputs \ {s} : received'[t] = received[t]
    BY <2>1, StreamTypes DEF Sends, ContentSent, Arrives, clientVars
  <2> QED BY <2>2, <2>3, <2>4
<1>2. UNCHANGED <<EndsMap, FinishedCount>>
  <2>1. \A kind \in Kinds : EndsOf(kind)' = EndsOf(kind)
    BY SendsKeepsEnds DEF RespInv
  <2> QED BY <2>1, SameEnds
<1>3. CASE received'[s] = received[s]
  BY <1>1, <1>2, <1>3, ResponseActions
<1>4. CASE received'[s] # received[s]
  <2>1. conn = "up"
    BY <1>4 DEF Sends, ContentSent, Arrives, clientVars
  <2>2. PICK r \in Seq(Nat), p \in Seq(Nat), w \in Nat :
          /\ r = received[s] /\ p = put[s] /\ w = written[s] /\ Whole(r, p, w)
    BY <2>1, StreamTypes DEF RespInv, WholeInv
  <2>3. received'[s] = r \o content /\ content = p \o Numbers(w, n) /\ written'[s] = w + n
    BY <2>1, <2>2, StreamTypes DEF Sends, ContentSent, Arrives, RespInv
  <2>4. PICK q \in Seq(Nat) : q = r \o content /\ Len(q) = Len(r) + Len(content)
    BY Concatenated
  <2>5. Whole(q, <<>>, w + n)
    BY <2>2, <2>3, <2>4, WholeMore, WholeSent
  <2>6. Len(q) = w + n /\ \A i \in 1..Len(q) : q[i] = i
    BY <2>5, AllReceived
  <2>7. Len(r) \in Nat /\ Len(content) \in Nat
    BY LenProperties
  <2>8. Len(q) \in Len(r) .. (w + n)
    BY <2>4, <2>6, <2>7
  <2>9. EndsMap[s] = 0 /\ FinishedCount = 0
    <3>1. ~eos[s] /\ ~eos["out"]
      BY OutNotEnded DEF Sends, EndsStream, RespInv, Calls
    <3> QED BY <3>1, NothingTold DEF RespInv
  <2>10. received'[s] = q /\ received[s] = r /\ written'[s] = w + n
    BY <2>2, <2>3, <2>4
  <2> QED BY <1>1, <1>2, <2>6, <2>8, <2>9, <2>10, ResponseActions
<1> QED BY <1>3, <1>4

\* What is written, and what is lost, only shows in written.
LEMMA WritesIsTransfers ==
  ASSUME Types, NEW s \in Outputs, NEW n \in Nat, UNCHANGED clientVars,
         written' = [written EXCEPT ![s] = written[s] + n]
  PROVE  Output!Transfers(s)
<1>1. UNCHANGED <<EndsMap, FinishedCount>>
  BY DEF clientVars, EndsMap, FinishedCount, EndsOf
<1>2. /\ \A t \in Outputs \ {s} : written'[t] = written[t] /\ received'[t] = received[t]
      /\ written[s] <= written'[s] /\ received'[s] = received[s]
  BY StreamTypes DEF clientVars
<1> QED BY <1>1, <1>2, ResponseActions

LEMMA StopsIsEnds ==
  ASSUME RespInv, NEW s \in Outputs, Stops(s)
  PROVE  \/ UNCHANGED <<written, received, EndsMap, FinishedCount>>
         \/ Output!Finishes
         \/ Output!Ends(s)
<1>1. UNCHANGED <<written, received>>
  BY EndKeepsReceived DEF RespInv, Stops
<1>2. ~eos[s] /\ ~eos["out"] /\ put[s] = <<>>
  BY OutNotEnded DEF Stops, RespInv, Calls, EndArrives
<1>3. EndsMap[s] = 0 /\ FinishedCount = 0
  BY <1>2, NothingTold DEF RespInv
<1>4. CASE conn # "up"
  <2>1. UNCHANGED sent
    BY <1>4 DEF Stops, EndArrives, Arrives, clientVars
  <2> QED BY <1>1, <2>1 DEF EndsMap, FinishedCount, EndsOf
<1>5. CASE conn = "up"
  <2>1. Len(received[s]) = written[s]
    <3>1. Whole(received[s], <<>>, written[s])
      BY <1>2, <1>5 DEF RespInv, WholeInv
    <3> QED BY <3>1, StreamTypes, AllReceived DEF RespInv
  <2>2. CASE s = "out"
    <3>1. /\ Cardinality(EndsOf("out")') = 1 /\ FinishedCount' = 1
          /\ EndsOf("err")' = EndsOf("err")
      BY <1>5, <2>2, StopsTells DEF RespInv, FinishedCount
    <3>2. EndsMap' = [EndsMap EXCEPT !["out"] = 1]
      BY <3>1 DEF EndsMap, Outputs
    <3>3. received["err"] # <<>> => EndsMap["err"] = 1
      <4>1. eos["err"]
        <5>1. mode \in {"close", "destroy", "members"} /\ MayEnd /\ ~closed["out"]
          BY <2>2 DEF Stops, Closing
        <5>2. mode # "members" => closed["err"]
          BY <2>2, ClosingFacts DEF Stops, RespInv
        <5> QED BY <1>5, <5>1, <5>2 DEF RespInv, Reached, Calls, Outputs
      <4>2. received["err"] # <<>> => consumed["err"]
        BY DEF RespInv, CountInv, Outputs
      <4> QED BY <1>5, <4>1, <4>2 DEF RespInv, CountInv, EndsMap, Outputs
    <3> QED BY <1>1, <1>3, <2>1, <2>2, <3>1, <3>2, <3>3, ResponseActions DEF Outputs
  <2>3. CASE s = "err" /\ consumed["err"]
    <3>1. /\ Cardinality(EndsOf("err")') = 1 /\ EndsOf("out")' = EndsOf("out")
          /\ EndsOf("end")' = EndsOf("end")
      BY <1>5, <2>3, StopsTells DEF RespInv
    <3>2. EndsMap' = [EndsMap EXCEPT !["err"] = 1] /\ UNCHANGED FinishedCount
      BY <3>1 DEF EndsMap, FinishedCount, Outputs
    <3> QED BY <1>1, <1>3, <2>1, <2>3, <3>2, ResponseActions
  <2>4. CASE s = "err" /\ ~consumed["err"]
    <3>1. \A kind \in Kinds : EndsOf(kind)' = EndsOf(kind)
      BY <1>5, <2>4, StopsTells DEF RespInv, Kinds, Outputs
    <3> QED BY <1>1, <3>1, SameEnds
  <2> QED BY <2>2, <2>3, <2>4 DEF Outputs
<1> QED BY <1>4, <1>5

LEMMA InitResponse == Init => WholeInv /\ CountInv /\ Reached /\ Output!Init
<1> SUFFICES ASSUME Init PROVE WholeInv /\ CountInv /\ Reached /\ Output!Init
  OBVIOUS
<1>1. \A kind \in Kinds : EndsOf(kind) = {}
  BY DEF Init, EndsOf
<1>2. WholeInv
  <2>1. Numbers(0, 0) = <<>> /\ <<>> \o <<>> = <<>>
    <3>1. Numbers(0, 0) \in Seq(Nat) /\ Len(Numbers(0, 0)) = 0
      BY NumbersProperties
    <3>2. <<>> \in Seq(Nat)
      OBVIOUS
    <3> QED BY <3>1, <3>2, EmptySeq, ConcatEmptySeq
  <2> QED BY <2>1 DEF Init, WholeInv, Whole
<1>3. CountInv
  BY <1>1 DEF Init, CountInv, Kinds, Outputs
<1>4. Reached
  BY DEF Init, Reached, Outputs
<1>5. Output!Init
  <2>1. Cardinality({}) = 0
    BY FS_EmptySet
  <2> QED BY <1>1, <2>1 DEF Init, Output!Init, Kinds
<1> QED BY <1>2, <1>3, <1>4, <1>5

\* Records, padding and buffers, the order of closing, destruction and the loss of the
\* client are not to be seen in the response (overflow(), 314-437; close(), 98-129;
\* server_connection_stacked.cpp, 42-91), unless the client has to be refused, send() is
\* interrupted, or the application goes on after an error or calls pubsetbuf().
THEOREM OutputImplements == ASSUME Gentle PROVE Spec => ImplementsResponse
<1>1. Init => RespInv /\ Output!Init
  BY InitTypes, InitPlan, InitCalls, InitResponse DEF RespInv
<1>2. RespInv /\ [Next]_vars => RespInv'
  BY StepTypes, StepPlan, StepCalls, StepReached, WholeStep, CountStep DEF RespInv, Gentle
<1>3. RespInv /\ [Next]_vars => [Output!Next]_(Output!responseVars)
  <2> SUFFICES ASSUME RespInv, [Next]_vars PROVE [Output!Next]_(Output!responseVars)
    OBVIOUS
  <2>1. CASE UNCHANGED <<put, eos, consumed, written, clientVars>>
    BY <2>1, ResponseNext DEF clientVars, EndsMap, FinishedCount, EndsOf
  <2>2. CASE Lost
    BY <2>2, WritesIsTransfers, ResponseNext DEF Lost, RespInv
  <2>3. ASSUME NEW s \in Outputs, NEW n \in Nat, Puts(s, n)
        PROVE  [Output!Next]_(Output!responseVars)
    BY <2>3, WritesIsTransfers, ResponseNext DEF Puts, RespInv
  <2>4. ASSUME NEW s \in Outputs, NEW content \in Seq(Nat), NEW n \in Nat, Sends(s, content, n)
        PROVE  [Output!Next]_(Output!responseVars)
    BY <2>4, SendsIsTransfers, ResponseNext
  <2>5. ASSUME NEW s \in Outputs, Stops(s)
        PROVE  [Output!Next]_(Output!responseVars)
    BY <2>5, StopsIsEnds, ResponseNext
  <2> QED BY <2>1, <2>2, <2>3, <2>4, <2>5, ResponseSteps DEF RespInv
<1> QED BY <1>1, <1>2, <1>3, PTL DEF Spec, ImplementsResponse, Output!Spec

=============================================================================
