----------------------- MODULE ServerConnectionProofs -----------------------
(***************************************************************************)
(* Theorems about ServerConnection that hold whatever fails: any role and   *)
(* buffer, writes that throw, are short and are tried again, pubsetbuf(),   *)
(* clients that violate the protocol.                                      *)
(***************************************************************************)
EXTENDS ServerConnection, SequenceTheorems, TLAPS

-----------------------------------------------------------------------------
(* Records.                                                                *)

\* The bytes of a record's content that fit the buffer, behind its header.
MaxContent == BufferSize - HeaderSize

LEMMA MaxContentFacts ==
  /\ MaxContent \in Nat /\ MaxContent >= 8 /\ MaxContent % 8 = 0
  /\ Room = MaxContent - 1 /\ BufferSize = MaxContent + HeaderSize
<1>1. BufferSize \in Nat /\ BufferSize >= 16 /\ BufferSize % 8 = 0
  BY BufferAssumption, SMTT(30)
<1>2. PICK b \in Nat : b = BufferSize /\ b >= 16 /\ b % 8 = 0
  BY <1>1
<1>3. b - 8 \in Nat /\ b - 8 >= 8 /\ (b - 8) % 8 = 0
  BY <1>2
<1> QED BY <1>2, <1>3 DEF MaxContent, Room, HeaderSize

LEMMA PaddingBounds ==
  ASSUME NEW n \in Nat
  PROVE  Padding(n, 8) \in 0..7 /\ (n + Padding(n, 8)) % 8 = 0
BY DEF Padding

\* Content that is asserted to fit, with its padding.
LEMMA FittingContent ==
  ASSUME NEW content \in Seq(Nat), PaddingFits(content)
  PROVE  /\ Len(content) \in Nat /\ Len(content) <= MaxContent
         /\ Len(content) + Padding(Len(content), 8) <= MaxContent
         /\ Padding(Len(content), 8) \in 0..7
         /\ (Len(content) + Padding(Len(content), 8)) % 8 = 0
<1>1. Len(content) \in Nat
  BY LenProperties
<1>2. PICK p \in 0..7 : p = Padding(Len(content), 8) /\ (Len(content) + p) % 8 = 0
  BY <1>1, PaddingBounds
<1>3. p <= Room - Len(content) + 1
  BY <1>2 DEF PaddingFits
<1>4. Len(content) + p <= MaxContent /\ Len(content) <= MaxContent
  <2>1. Room \in Int /\ Room = MaxContent - 1
    BY MaxContentFacts
  <2> QED BY <1>1, <1>3, <2>1, MaxContentFacts
<1> QED BY <1>1, <1>2, <1>4

LEMMA RecordOfContent ==
  ASSUME NEW s \in Outputs, NEW content \in Seq(Nat), PaddingFits(content)
  PROVE  ContentRecord(s, content) \in Record
<1> DEFINE most == 65535
<1>1. most \in Nat /\ MaxContent <= most
  BY BufferAssumption, SMTT(30) DEF MaxContent, HeaderSize
<1>2. Record = [kind : Outputs, clen : 0..most, plen : 0..255]
                 \cup [kind : {"end"}, status : {"request_complete", "cant_mpx_conn"}]
  BY DEF Record
<1> HIDE DEF most
<1>3. Len(content) \in 0..most
  BY <1>1, FittingContent, MaxContentFacts
<1>4. Padding(Len(content), 8) \in 0..255
  BY FittingContent
<1>5. ContentRecord(s, content) \in [kind : Outputs, clen : 0..most, plen : 0..255]
  BY <1>3, <1>4 DEF ContentRecord
<1> QED BY <1>2, <1>5

LEMMA Concatenated ==
  ASSUME NEW a \in Seq(Nat), NEW b \in Seq(Nat)
  PROVE  /\ a \o b \in Seq(Nat) /\ Len(a \o b) = Len(a) + Len(b)
         /\ \A i \in 1..Len(a) + Len(b) :
              (a \o b)[i] = IF i <= Len(a) THEN a[i] ELSE b[i - Len(a)]
BY ConcatProperties

LEMMA NumbersProperties ==
  ASSUME NEW first \in Nat, NEW n \in Nat
  PROVE  /\ Numbers(first, n) \in Seq(Nat) /\ Len(Numbers(first, n)) = n
         /\ \A i \in 1..n : Numbers(first, n)[i] = first + i
<1>1. [i \in 1..n |-> first + i] \in [1..n -> Nat]
  OBVIOUS
<1>2. Numbers(first, n) \in Seq(Nat)
  BY <1>1 DEF Numbers
<1> QED BY <1>2 DEF Numbers

LEMMA PaddedContent ==
  ASSUME NEW content \in Seq(Nat), PaddingFits(content)
  PROVE  /\ content \o Zeros(Padding(Len(content), 8)) \in Seq(Nat)
         /\ Len(content \o Zeros(Padding(Len(content), 8))) <= MaxContent
<1> DEFINE n == Padding(Len(content), 8)
<1>1. n \in Nat /\ Len(content) + n <= MaxContent
  BY FittingContent
<1>2. Zeros(n) \in Seq(Nat) /\ Len(Zeros(n)) = n
  BY <1>1 DEF Zeros
<1> QED BY <1>1, <1>2, ConcatProperties

LEMMA EndRecordsType ==
  ASSUME NEW s \in Outputs
  PROVE  EndRecords(s) \in Seq(Record)
<1>1. [kind |-> s, clen |-> 0, plen |-> 0] \in Record
  BY SMT DEF Record
<1>2. EndRequest("request_complete") \in Record
  BY SMT DEF Record, EndRequest
<1> DEFINE first == IF s = "out" \/ consumed[s]
                      THEN <<[kind |-> s, clen |-> 0, plen |-> 0]>> ELSE <<>>
           last == IF s = "out" THEN <<EndRequest("request_complete")>> ELSE <<>>
<1>3. first \in Seq(Record)
  BY <1>1
<1>4. last \in Seq(Record)
  BY <1>2
<1> QED BY <1>3, <1>4, ConcatProperties DEF EndRecords

-----------------------------------------------------------------------------
(* Types.                                                                  *)

Modes == {"app", "abandoned", "flush", "close", "destroy", "members", "gone", "terminated"}

\* The parts of TypeOK.
PutType == put \in [Outputs -> Seq(Nat)] /\ \A s \in Outputs : Len(put[s]) <= MaxContent

FlagTypes ==
  /\ closed \in [Outputs -> BOOLEAN] /\ eos \in [Outputs -> BOOLEAN]
  /\ endDue \in [Outputs -> BOOLEAN] /\ consumed \in [Outputs -> BOOLEAN]

ClientTypes ==
  received \in [Outputs -> Seq(Nat)] /\ sent \in Seq(Record) /\ conn \in {"up", "down"}

InputTypes == inType \in {"params", "in", "data"} /\ {inUnread, inClosed, refused} \subseteq BOOLEAN

ApplicationTypes == ios \in [Outputs -> {"good", "bad"}] /\ written \in [Outputs -> Nat]

PlaceTypes == mode \in Modes /\ todo \in Seq(Outputs \cup {"in"})

Types == /\ PutType /\ FlagTypes /\ ClientTypes
         /\ InputTypes /\ ApplicationTypes /\ PlaceTypes

LEMMA TypeParts == (TypeOK <=> Types) /\ (TypeOK' <=> Types')
BY DEF Types, TypeOK, PutType, FlagTypes, ClientTypes, InputTypes, ApplicationTypes,
       PlaceTypes, Modes, MaxContent

LEMMA ArrivesType ==
  ASSUME ClientTypes, NEW s \in Outputs, NEW records \in Seq(Record),
         NEW content \in Seq(Nat), Arrives(records, s, content), conn' = conn
  PROVE  ClientTypes'
<1>1. sent \o records \in Seq(Record) /\ received[s] \o content \in Seq(Nat)
  BY ConcatProperties DEF ClientTypes
<1> QED BY <1>1 DEF ClientTypes, Arrives, clientVars

\* What overflow() does with a record's content, in each of its ways.
SendsContent(s, content) ==
  \/ ContentSent(s, content) \/ ContentThrows(s, content) \/ ContentTerminates(content)

LEMMA SendsContentType ==
  ASSUME PutType, ClientTypes, consumed \in [Outputs -> BOOLEAN], conn' = conn,
         NEW s \in Outputs, NEW content \in Seq(Nat), SendsContent(s, content)
  PROVE  PutType' /\ ClientTypes' /\ consumed' \in [Outputs -> BOOLEAN]
<1>1. CASE ContentSent(s, content)
  <2>1. ClientTypes'
    <3>1. <<ContentRecord(s, content)>> \in Seq(Record)
      BY <1>1, RecordOfContent DEF ContentSent
    <3> QED BY <1>1, <3>1, ArrivesType DEF ContentSent
  <2>2. PutType'
    <3>1. <<>> \in Seq(Nat) /\ Len(<<>>) <= MaxContent
      BY MaxContentFacts
    <3> QED BY <1>1, <3>1 DEF ContentSent, PutType
  <2>3. consumed' \in [Outputs -> BOOLEAN]
    BY <1>1, Zenon DEF ContentSent
  <2> QED BY <2>1, <2>2, <2>3
<1>2. CASE ContentThrows(s, content)
  <2>1. PutType'
    BY <1>2, PaddedContent DEF ContentThrows, PutType
  <2> QED BY <1>2, <2>1 DEF ContentThrows, ClientTypes, clientVars
<1>3. CASE ContentTerminates(content)
  BY <1>3 DEF ContentTerminates, PutType, ClientTypes, clientVars
<1> QED BY <1>1, <1>2, <1>3 DEF SendsContent

LEMMA TerminateType == Terminate /\ PlaceTypes => PlaceTypes'
BY DEF Terminate, PlaceTypes, Modes

LEMMA ThrowsType ==
  ASSUME PlaceTypes, Throws, mode = "flush" \/ todo # <<>>
  PROVE  PlaceTypes'
<1>1. <<>> \in Seq(Outputs \cup {"in"}) /\ CloseOrder \in Seq(Outputs \cup {"in"})
  BY DEF CloseOrder, Outputs
<1>2. todo # <<>> => Tail(todo) \in Seq(Outputs \cup {"in"})
  BY HeadTailProperties DEF PlaceTypes
<1> QED BY <1>1, <1>2 DEF PlaceTypes, Throws, DestroyMembers, Modes

LEMMA PutBytesType ==
  ASSUME Types, NEW s \in Outputs, PutBytes(s)
  PROVE  Types'
<1>1. PICK n \in WriteSizes \cup {Room - Len(put[s])} :
        /\ n \in 1..(Room - Len(put[s]))
        /\ put' = [put EXCEPT ![s] = @ \o Numbers(written[s], n)]
        /\ written' = [written EXCEPT ![s] = @ + n]
  BY DEF PutBytes
<1>2. written[s] \in Nat /\ n \in Nat /\ put[s] \in Seq(Nat) /\ Len(put[s]) \in Nat
  BY <1>1, LenProperties DEF Types, PutType, ApplicationTypes
<1>3. PICK more \in Seq(Nat) : more = Numbers(written[s], n) /\ Len(more) = n
  BY <1>2, NumbersProperties
<1>4. PutType'
  <2>1. put[s] \o more \in Seq(Nat) /\ Len(put[s] \o more) = Len(put[s]) + n
    BY <1>2, <1>3, Concatenated
  <2>2. Len(put[s]) + n <= MaxContent
    <3>1. MaxContent \in Nat
      BY MaxContentFacts
    <3> QED BY <1>1, <1>2, <3>1, MaxContentFacts
  <2> QED BY <1>1, <1>3, <2>1, <2>2 DEF Types, PutType
<1>5. ApplicationTypes'
  BY <1>1, <1>2 DEF Types, PutBytes, ApplicationTypes
<1>6. FlagTypes' /\ ClientTypes' /\ InputTypes' /\ PlaceTypes'
  BY Zenon DEF Types, PutBytes, FlagTypes, ClientTypes, InputTypes, PlaceTypes,
               clientVars, inputVars
<1> QED BY <1>4, <1>5, <1>6 DEF Types

LEMMA OverflowType ==
  ASSUME Types, NEW s \in Outputs, Overflow(s)
  PROVE  Types'
<1>1. PICK content : /\ content = Append(put[s], written[s] + 1)
                     /\ SendsContent(s, content)
  BY DEF Overflow, SendsContent
<1>2. content \in Seq(Nat)
  <2>1. put[s] \in Seq(Nat) /\ written[s] + 1 \in Nat
    BY DEF Types, PutType, ApplicationTypes
  <2> QED BY <1>1, <2>1
<1>3. PutType' /\ ClientTypes' /\ consumed' \in [Outputs -> BOOLEAN]
  BY <1>1, <1>2, SendsContentType DEF Overflow, Types, FlagTypes
<1>4. FlagTypes' /\ InputTypes'
  BY <1>3, Zenon DEF Overflow, Types, FlagTypes, InputTypes, inputVars
<1>5. ApplicationTypes'
  BY DEF Overflow, Types, ApplicationTypes
<1>6. PlaceTypes'
  BY TerminateType DEF Overflow, ContentTerminates, Types, PlaceTypes
<1> QED BY <1>3, <1>4, <1>5, <1>6 DEF Types

LEMMA FlushType ==
  ASSUME Types, NEW s \in Outputs, Flush(s)
  PROVE  Types'
<1>1. SendsContent(s, put[s]) /\ put[s] \in Seq(Nat)
  BY DEF Flush, SendsContent, Types, PutType
<1>2. PutType' /\ ClientTypes' /\ consumed' \in [Outputs -> BOOLEAN]
  BY <1>1, SendsContentType DEF Flush, Types, FlagTypes
<1>3. FlagTypes' /\ InputTypes'
  BY <1>2, Zenon DEF Flush, Types, FlagTypes, InputTypes, inputVars
<1>4. ApplicationTypes'
  BY DEF Flush, Types, ApplicationTypes
<1>5. PlaceTypes'
  BY TerminateType DEF Flush, ContentTerminates, Types, PlaceTypes
<1> QED BY <1>2, <1>3, <1>4, <1>5 DEF Types

LEMMA EndingFlushType ==
  ASSUME Types, NEW s \in Outputs, EndingFlush(s)
  PROVE  Types'
<1>1. put[s] \in Seq(Nat) /\ Len(put[s]) \in Nat /\ written[s] + 1 \in Nat
  BY LenProperties DEF Types, PutType, ApplicationTypes
<1>2. /\ Append(put[s], written[s] + 1) \in Seq(Nat)
      /\ Len(Append(put[s], written[s] + 1)) = Len(put[s]) + 1
  BY <1>1
<1>3. PutType'
  <2>1. Len(put[s]) = Room => Len(put[s]) + 1 <= MaxContent
    BY <1>1, MaxContentFacts
  <2> QED BY <1>2, <2>1 DEF EndingFlush, Types, PutType
<1>4. ApplicationTypes'
  BY <1>1 DEF EndingFlush, Types, ApplicationTypes
<1>5. FlagTypes' /\ ClientTypes' /\ InputTypes'
  BY Zenon DEF EndingFlush, Types, FlagTypes, ClientTypes, InputTypes, clientVars, inputVars
<1>6. PlaceTypes'
  <2>1. <<s>> \in Seq(Outputs \cup {"in"})
    OBVIOUS
  <2> QED BY <2>1, TerminateType DEF EndingFlush, Types, PlaceTypes, Modes
<1> QED BY <1>3, <1>4, <1>5, <1>6 DEF Types

LEMMA EndsStreamPlace ==
  ASSUME NEW s \in Outputs, EndsStream(s)
  PROVE  mode = "flush" \/ todo # <<>>
BY DEF EndsStream, Closing

LEMMA CloseContentType ==
  ASSUME Types, NEW s \in Outputs, CloseContent(s)
  PROVE  Types'
<1>1. SendsContent(s, put[s]) /\ put[s] \in Seq(Nat)
  BY DEF CloseContent, SendsContent, Types, PutType
<1>2. PutType' /\ ClientTypes' /\ consumed' \in [Outputs -> BOOLEAN]
  BY <1>1, SendsContentType DEF CloseContent, Types, FlagTypes
<1>3. FlagTypes' /\ InputTypes'
  BY <1>2, Zenon DEF CloseContent, Types, FlagTypes, InputTypes, inputVars
<1>4. ApplicationTypes'
  BY DEF CloseContent, IosAfterThrow, Types, ApplicationTypes
<1>5. PlaceTypes'
  BY TerminateType, ThrowsType, EndsStreamPlace
     DEF CloseContent, ContentTerminates, Types, PlaceTypes
<1> QED BY <1>2, <1>3, <1>4, <1>5 DEF Types

LEMMA CloseEndType ==
  ASSUME Types, NEW s \in Outputs, CloseEnd(s)
  PROVE  Types'
<1>1. ClientTypes'
  <2>1. EndRecords(s) \in Seq(Record) /\ <<>> \in Seq(Nat)
    BY EndRecordsType
  <2>2. CASE Arrives(EndRecords(s), s, <<>>)
    BY <2>1, <2>2, ArrivesType DEF CloseEnd, Types
  <2>3. CASE UNCHANGED clientVars
    BY <2>3 DEF CloseEnd, Types, ClientTypes, clientVars
  <2> QED BY <2>2, <2>3 DEF CloseEnd
<1>2. PutType' /\ InputTypes'
  BY Zenon DEF CloseEnd, Types, PutType, InputTypes, inputVars
<1>3. FlagTypes'
  <2>1. (mode # "flush") \in BOOLEAN
    OBVIOUS
  <2> QED BY <2>1, Zenon DEF CloseEnd, Types, FlagTypes
<1>4. ApplicationTypes'
  BY DEF CloseEnd, IosAfterThrow, Types, ApplicationTypes
<1>5. PlaceTypes'
  <2>1. todo # <<>>
    BY DEF CloseEnd, EndsStream, Closing
  <2>2. Tail(todo) \in Seq(Outputs \cup {"in"})
    BY <2>1, HeadTailProperties DEF Types, PlaceTypes
  <2> QED BY <2>1, <2>2, TerminateType, ThrowsType
          DEF CloseEnd, WriteIsShort, Types, PlaceTypes, Modes
<1> QED BY <1>1, <1>2, <1>3, <1>4, <1>5 DEF Types

\* The actions that leave the put areas, the flags and the client alone.
Calm ==
  \/ \E s \in Outputs : EndedFlush(s) \/ Clear(s) \/ AlreadyClosed(s) \/ RefusesToClose(s)
  \/ InputAdvances \/ SyncInput \/ Close \/ Destroy \/ AllClosed \/ CloseInput
  \/ ClientLeaves

LEMMA CalmType ==
  ASSUME Types, Calm
  PROVE  Types'
<1>1. UNCHANGED <<bufferVars, clientVars, written>>
  BY DEF Calm, EndedFlush, Clear, AlreadyClosed, RefusesToClose, InputAdvances, SyncInput,
         Close, Destroy, AllClosed, CloseInput, ClientLeaves
<1>2. PutType' /\ FlagTypes'
  BY <1>1, Zenon DEF Types, PutType, FlagTypes, bufferVars
<1>3. ClientTypes'
  BY <1>1 DEF Types, ClientTypes, clientVars, Calm, EndedFlush, Clear, AlreadyClosed,
              RefusesToClose, InputAdvances, SyncInput, Close, Destroy, AllClosed,
              CloseInput, ClientLeaves
<1>4. ApplicationTypes'
  BY <1>1 DEF Types, ApplicationTypes, Calm, EndedFlush, Clear, AlreadyClosed,
              RefusesToClose, InputAdvances, SyncInput, Close, Destroy, AllClosed,
              CloseInput, ClientLeaves
<1>5. InputTypes'
  <2>1. CASE InputAdvances \/ CloseInput
    BY <2>1 DEF Types, InputTypes, InputAdvances, CloseInput
  <2>2. CASE UNCHANGED inputVars
    BY <2>2, Zenon DEF Types, InputTypes, inputVars
  <2> QED BY <2>1, <2>2 DEF Calm, EndedFlush, Clear, AlreadyClosed, RefusesToClose,
             SyncInput, Close, Destroy, AllClosed, ClientLeaves
<1>6. PlaceTypes'
  <2>1. CloseOrder \in Seq(Outputs \cup {"in"})
    BY DEF CloseOrder, Outputs
  <2>2. CASE \/ \E s \in Outputs : AlreadyClosed(s)
             \/ CloseInput
    <3>1. todo # <<>> /\ todo' = Tail(todo) /\ mode' = mode
      BY <2>2 DEF AlreadyClosed, CloseInput, Closing
    <3> QED BY <3>1, HeadTailProperties DEF Types, PlaceTypes
  <2>3. CASE \E s \in Outputs : RefusesToClose(s)
    <3>1. Throws /\ todo # <<>>
      BY <2>3 DEF RefusesToClose, Closing
    <3> QED BY <3>1, ThrowsType DEF Types
  <2>4. CASE Close \/ Destroy \/ AllClosed \/ SyncInput
    BY <2>1, <2>4, TerminateType
       DEF Close, Destroy, AllClosed, DestroyMembers, SyncInput, Types, PlaceTypes, Modes
  <2>5. CASE UNCHANGED <<mode, todo>>
    BY <2>5 DEF Types, PlaceTypes
  <2> QED BY <2>2, <2>3, <2>4, <2>5 DEF Calm, EndedFlush, Clear, InputAdvances, ClientLeaves
<1> QED BY <1>2, <1>3, <1>4, <1>5, <1>6 DEF Types

LEMMA SetBufType ==
  ASSUME Types, NEW s \in Outputs, SetBuf(s)
  PROVE  Types'
<1>1. PutType'
  <2>1. <<>> \in Seq(Nat) /\ Len(<<>>) <= MaxContent
    BY MaxContentFacts
  <2> QED BY <2>1 DEF SetBuf, Types, PutType
<1> QED BY <1>1, Zenon DEF SetBuf, Types, FlagTypes, ClientTypes, InputTypes,
           ApplicationTypes, PlaceTypes, clientVars, inputVars

LEMMA FailsToCloseType ==
  ASSUME Types, NEW s \in Outputs, FailsToClose(s)
  PROVE  Types'
<1>1. endDue' \in [Outputs -> BOOLEAN]
  BY Zenon DEF FailsToClose, Types, FlagTypes
<1>2. PlaceTypes'
  BY TerminateType DEF FailsToClose, Types
<1> QED BY <1>1, <1>2, Zenon DEF FailsToClose, Types, PutType, FlagTypes, ClientTypes,
           InputTypes, ApplicationTypes, clientVars, inputVars

LEMMA InputRefusesType ==
  ASSUME Types, InputRefuses
  PROVE  Types'
<1>1. Append(sent, EndRequest("cant_mpx_conn")) \in Seq(Record)
  <2>1. EndRequest("cant_mpx_conn") \in Record
    BY SMT DEF Record, EndRequest
  <2> QED BY <2>1 DEF Types, ClientTypes
<1>2. ClientTypes'
  BY <1>1 DEF InputRefuses, Types, ClientTypes
<1>3. InputTypes'
  BY DEF InputRefuses, Types, InputTypes
<1> QED BY <1>2, <1>3, Zenon DEF InputRefuses, Types, PutType, FlagTypes, ApplicationTypes,
           PlaceTypes, bufferVars

LEMMA InitTypes == Init => Types
<1> SUFFICES ASSUME Init PROVE Types
  OBVIOUS
<1>1. PutType
  <2>1. <<>> \in Seq(Nat) /\ Len(<<>>) <= MaxContent
    BY MaxContentFacts
  <2> QED BY <2>1 DEF Init, PutType
<1>2. FlagTypes
  BY Zenon DEF Init, FlagTypes
<1>3. ClientTypes
  <2>1. <<>> \in Seq(Nat) /\ <<>> \in Seq(Record)
    OBVIOUS
  <2> QED BY <2>1 DEF Init, ClientTypes
<1>4. InputTypes /\ ApplicationTypes
  BY DEF Init, InputTypes, ApplicationTypes
<1>5. PlaceTypes
  BY DEF Init, PlaceTypes, Modes
<1> QED BY <1>1, <1>2, <1>3, <1>4, <1>5 DEF Types

LEMMA StepTypes == Types /\ [Next]_vars => Types'
<1> SUFFICES ASSUME Types, [Next]_vars PROVE Types'
  OBVIOUS
<1>1. CASE Calm
  BY <1>1, CalmType
<1>2. CASE \E s \in Outputs : \/ PutBytes(s) \/ Overflow(s) \/ Flush(s) \/ EndingFlush(s)
                             \/ SetBuf(s) \/ FailsToClose(s) \/ CloseContent(s)
                             \/ CloseEnd(s)
  BY <1>2, PutBytesType, OverflowType, FlushType, EndingFlushType, SetBufType,
     FailsToCloseType, CloseContentType, CloseEndType
<1>3. CASE InputRefuses
  BY <1>3, InputRefusesType
<1>4. CASE UNCHANGED vars
  BY <1>4, Zenon DEF vars, Types, PutType, FlagTypes, ClientTypes, InputTypes,
     ApplicationTypes, PlaceTypes, bufferVars, clientVars, inputVars
<1> QED BY <1>1, <1>2, <1>3, <1>4 DEF Next, Application, Teardown, Calm

\* The variables keep their types, and nothing is ever written behind the end of a buffer:
\* not by overflow()'s extra byte, nor by the padding, nor by what a failed write leaves
\* (streambuf.cpp, 314-364).
THEOREM TypeCorrect == Spec => []TypeOK
<1>1. Types => TypeOK
  BY TypeParts
<1> QED BY <1>1, InitTypes, StepTypes, PTL DEF Spec

-----------------------------------------------------------------------------
(* What the client receives.                                               *)

\* A record of content, its end records, and the refusal of the request.
ContentArrives(s, content) ==
  /\ (Writable(s) /\ ~eos[s]) \/ EndsStream(s)
  /\ ContentSent(s, content)
  /\ (content = put[s] /\ put[s] # <<>>) \/ content = Append(put[s], written[s] + 1)

EndArrives(s) ==
  /\ EndsStream(s) /\ Arrives(EndRecords(s), s, <<>>)
  /\ eos' = [eos EXCEPT ![s] = TRUE] /\ put[s] = <<>>

RefusalArrives ==
  /\ UNCHANGED received
  /\ sent' = IF conn = "up" THEN Append(sent, EndRequest("cant_mpx_conn")) ELSE sent

LEMMA ContentType ==
  ASSUME Types, NEW s \in Outputs
  PROVE  put[s] \in Seq(Nat) /\ Append(put[s], written[s] + 1) \in Seq(Nat)
<1>1. put[s] \in Seq(Nat) /\ written[s] + 1 \in Nat
  BY DEF Types, PutType, ApplicationTypes
<1> QED BY <1>1

LEMMA Arrivals ==
  ASSUME [Next]_vars
  PROVE  \/ UNCHANGED clientVars
         \/ \E s \in Outputs : \/ ContentArrives(s, put[s])
                               \/ ContentArrives(s, Append(put[s], written[s] + 1))
                               \/ EndArrives(s)
         \/ RefusalArrives
<1>1. CASE Calm
  BY <1>1 DEF Calm, EndedFlush, Clear, AlreadyClosed, RefusesToClose, InputAdvances, SyncInput,
         Close, Destroy, AllClosed, CloseInput, ClientLeaves, clientVars
<1>2. CASE \E s \in Outputs : \/ PutBytes(s) \/ EndingFlush(s) \/ SetBuf(s) \/ FailsToClose(s)
  BY <1>2 DEF PutBytes, EndingFlush, SetBuf, FailsToClose
<1>3. ASSUME NEW s \in Outputs, Overflow(s) \/ Flush(s) \/ CloseContent(s)
      PROVE  \/ UNCHANGED clientVars
             \/ ContentArrives(s, put[s])
             \/ ContentArrives(s, Append(put[s], written[s] + 1))
  BY <1>3 DEF Overflow, Flush, CloseContent, ContentThrows, ContentTerminates, ContentArrives
<1>4. ASSUME NEW s \in Outputs, CloseEnd(s)
      PROVE  UNCHANGED clientVars \/ EndArrives(s)
  BY <1>4 DEF CloseEnd, EndArrives
<1>5. CASE InputRefuses
  BY <1>5 DEF InputRefuses, RefusalArrives
<1>6. CASE UNCHANGED vars
  BY <1>6 DEF vars
<1> QED BY <1>1, <1>2, <1>3, <1>4, <1>5, <1>6 DEF Next, Application, Teardown, Calm

Aligned(r) ==
  r.kind # "end" =>
    /\ (HeaderSize + r.clen + r.plen) % 8 = 0
    /\ HeaderSize + r.clen + r.plen <= BufferSize /\ r.plen < 8

LEMMA AlignedParts ==
  /\ RecordsAligned <=> \A i \in 1..Len(sent) : Aligned(sent[i])
  /\ RecordsAligned' <=> \A i \in 1..Len(sent') : Aligned(sent'[i])
BY DEF RecordsAligned, Aligned

LEMMA ContentIsAligned ==
  ASSUME NEW s \in Outputs, NEW content \in Seq(Nat), PaddingFits(content)
  PROVE  Aligned(ContentRecord(s, content))
<1>1. PICK n \in Nat, p \in 0..7 :
        /\ n = Len(content) /\ p = Padding(Len(content), 8)
        /\ n + p <= MaxContent /\ (n + p) % 8 = 0
  BY FittingContent
<1>2. ContentRecord(s, content) = [kind |-> s, clen |-> n, plen |-> p]
  BY <1>1 DEF ContentRecord
<1>3. (8 + n + p) % 8 = 0
  BY <1>1
<1>4. 8 + n + p <= BufferSize
  BY <1>1, MaxContentFacts DEF HeaderSize
<1> QED BY <1>2, <1>3, <1>4 DEF Aligned, HeaderSize

LEMMA EndsAreAligned ==
  ASSUME NEW s \in Outputs, NEW i \in 1..Len(EndRecords(s))
  PROVE  Aligned(EndRecords(s)[i])
<1>1. Aligned([kind |-> s, clen |-> 0, plen |-> 0])
  <2>1. 8 <= BufferSize
    BY MaxContentFacts DEF HeaderSize
  <2> QED BY <2>1 DEF Aligned, HeaderSize
<1>2. Aligned(EndRequest("request_complete"))
  BY DEF Aligned, EndRequest
<1>3. EndRecords(s)[i] \in {[kind |-> s, clen |-> 0, plen |-> 0], EndRequest("request_complete")}
  BY DEF EndRecords
<1> QED BY <1>1, <1>2, <1>3

\* Only what is appended has to be looked at.
LEMMA AlignedAppended ==
  ASSUME Types, RecordsAligned, NEW records \in Seq(Record), sent' = sent \o records,
         \A i \in 1..Len(records) : Aligned(records[i])
  PROVE  RecordsAligned'
<1>1. sent \in Seq(Record)
  BY DEF Types, ClientTypes
<1>2. ASSUME NEW i \in 1..Len(sent') PROVE Aligned(sent'[i])
  <2>1. /\ Len(sent') = Len(sent) + Len(records) /\ Len(sent) \in Nat /\ Len(records) \in Nat
        /\ sent'[i] = IF i <= Len(sent) THEN sent[i] ELSE records[i - Len(sent)]
    BY <1>1, <1>2, ConcatProperties, LenProperties
  <2> QED BY <2>1, AlignedParts
<1> QED BY <1>2, AlignedParts

LEMMA AlignedOne ==
  ASSUME Types, RecordsAligned, NEW r \in Record, Aligned(r),
         sent' = sent \o <<r>> \/ sent' = Append(sent, r)
  PROVE  RecordsAligned'
<1>1. sent \in Seq(Record) /\ <<r>> \in Seq(Record) /\ Len(<<r>>) = 1 /\ <<r>>[1] = r
  BY DEF Types, ClientTypes
<1>2. sent' = sent \o <<r>>
  BY <1>1, AppendIsConcat
<1>3. \A i \in 1..Len(<<r>>) : Aligned(<<r>>[i])
  BY <1>1
<1> QED BY <1>1, <1>2, <1>3, AlignedAppended

\* Every record of every response is a whole number of 8 bytes, no more than one block of
\* which is padding, and fits the buffer it was made in, whatever has failed before
\* (overflow(), 342-360).
THEOREM RecordsAreAligned == Spec => []RecordsAligned
<1>1. Init => RecordsAligned
  BY DEF Init, RecordsAligned
<1>2. Types /\ RecordsAligned /\ [Next]_vars => RecordsAligned'
  <2> SUFFICES ASSUME Types, RecordsAligned, [Next]_vars PROVE RecordsAligned'
    OBVIOUS
  <2>1. CASE UNCHANGED clientVars
    BY <2>1 DEF clientVars, RecordsAligned
  <2>2. ASSUME NEW s \in Outputs, NEW content \in Seq(Nat), ContentArrives(s, content)
        PROVE  RecordsAligned'
    <3>1. PaddingFits(content) /\ Arrives(<<ContentRecord(s, content)>>, s, content)
      BY <2>2 DEF ContentArrives, ContentSent
    <3>2. ContentRecord(s, content) \in Record /\ Aligned(ContentRecord(s, content))
      BY <3>1, RecordOfContent, ContentIsAligned
    <3>3. CASE conn = "up"
      BY <3>1, <3>2, <3>3, AlignedOne DEF Arrives
    <3>4. CASE conn # "up"
      BY <3>1, <3>4 DEF Arrives, clientVars, RecordsAligned
    <3> QED BY <3>3, <3>4
  <2>3. ASSUME NEW s \in Outputs, EndArrives(s)
        PROVE  RecordsAligned'
    <3>1. CASE conn = "up"
      BY <2>3, <3>1, EndRecordsType, EndsAreAligned, AlignedAppended DEF EndArrives, Arrives
    <3>2. CASE conn # "up"
      BY <2>3, <3>2 DEF EndArrives, Arrives, clientVars, RecordsAligned
    <3> QED BY <3>1, <3>2
  <2>4. CASE RefusalArrives
    <3>1. CASE conn = "up"
      <4> DEFINE r == EndRequest("cant_mpx_conn")
      <4>1. r \in Record /\ Aligned(r)
        BY SMT DEF Record, EndRequest, Aligned
      <4> HIDE DEF r
      <4>2. sent' = Append(sent, r)
        BY <2>4, <3>1 DEF RefusalArrives, r
      <4> QED BY <4>1, <4>2, AlignedOne
    <3>2. CASE conn # "up"
      BY <2>4, <3>2 DEF RefusalArrives, RecordsAligned
    <3> QED BY <3>1, <3>2
  <2> QED BY <2>1, <2>2, <2>3, <2>4, Arrivals, ContentType
<1> QED BY <1>1, <1>2, InitTypes, StepTypes, PTL DEF Spec

-----------------------------------------------------------------------------
(* The order of the bytes.                                                 *)

\* A byte that is no padding is later than all those before it.
Ascending(q) == \A j \in 1..Len(q) : \A i \in 1..(j - 1) : q[j] # 0 => q[i] < q[j]

Below(q, n) == \A i \in 1..Len(q) : q[i] <= n

\* The client has r, p is in the put area, of w bytes the application has written.
Ordered(r, p, w) ==
  /\ Ascending(r) /\ Ascending(p) /\ Below(r, w) /\ Below(p, w)
  /\ \A i \in 1..Len(r) : \A j \in 1..Len(p) : p[j] # 0 => r[i] < p[j]

\* A concatenation, element by element.
LEMMA Split ==
  ASSUME NEW a \in Seq(Nat), NEW b \in Seq(Nat)
  PROVE  \E q \in Seq(Nat), l \in Nat, m \in Nat :
           /\ q = a \o b /\ l = Len(a) /\ m = Len(b) /\ Len(q) = l + m
           /\ \A i \in 1..l : q[i] = a[i] /\ a[i] \in Nat
           /\ \A i \in 1..m : q[l + i] = b[i] /\ b[i] \in Nat
<1>1. a \o b \in Seq(Nat) /\ Len(a) \in Nat /\ Len(b) \in Nat
  BY Concatenated, LenProperties
<1>2. \A i \in 1..Len(a) : (a \o b)[i] = a[i] /\ a[i] \in Nat
  BY <1>1, Concatenated, ElementOfSeq
<1>3. ASSUME NEW i \in 1..Len(b)
      PROVE  (a \o b)[Len(a) + i] = b[i] /\ b[i] \in Nat
  <2>1. Len(a) + i \in 1..Len(a) + Len(b) /\ ~(Len(a) + i <= Len(a)) /\ (Len(a) + i) - Len(a) = i
    BY <1>1
  <2>2. (a \o b)[Len(a) + i] = b[(Len(a) + i) - Len(a)]
    BY <2>1, Concatenated
  <2> QED BY <2>1, <2>2, ElementOfSeq
<1> QED BY <1>1, <1>2, <1>3, Concatenated

\* Padding, and what the application writes next.
LEMMA OrderedMore ==
  ASSUME NEW r \in Seq(Nat), NEW p \in Seq(Nat), NEW w \in Nat, NEW v \in Nat, w <= v,
         Ordered(r, p, w), NEW more \in Seq(Nat), Ascending(more), Below(more, v),
         \A i \in 1..Len(more) : more[i] # 0 => w < more[i]
  PROVE  Ordered(r, p \o more, v)
<1>1. PICK q \in Seq(Nat), l \in Nat, m \in Nat :
        /\ q = p \o more /\ l = Len(p) /\ m = Len(more) /\ Len(q) = l + m
        /\ \A i \in 1..l : q[i] = p[i] /\ p[i] \in Nat
        /\ \A i \in 1..m : q[l + i] = more[i] /\ more[i] \in Nat
  BY Split
<1>2. PICK k \in Nat : k = Len(r) /\ \A i \in 1..k : r[i] \in Nat
  BY LenProperties, ElementOfSeq
<1>3. /\ \A i \in 1..l : p[i] <= w
      /\ \A j \in 1..l : \A i \in 1..(j - 1) : p[j] # 0 => p[i] < p[j]
      /\ \A i \in 1..m : more[i] <= v /\ (more[i] # 0 => w < more[i])
      /\ \A j \in 1..m : \A i \in 1..(j - 1) : more[j] # 0 => more[i] < more[j]
  BY <1>1 DEF Ordered, Below, Ascending
<1>4. /\ \A i \in 1..k : r[i] <= w
      /\ \A i \in 1..k : \A j \in 1..l : p[j] # 0 => r[i] < p[j]
      /\ Ascending(r)
  BY <1>1, <1>2 DEF Ordered, Below
<1>5. \A j \in 1..(l + m) : j \in 1..l \/ \E i \in 1..m : j = l + i
  <2> SUFFICES ASSUME NEW j \in 1..(l + m), j \notin 1..l
               PROVE  \E i \in 1..m : j = l + i
    OBVIOUS
  <2>1. j - l \in 1..m /\ j = l + (j - l)
    OBVIOUS
  <2> QED BY <2>1
<1>6. Below(r, v)
  BY <1>2, <1>4 DEF Below
<1>7. Below(q, v)
  <2>1. ASSUME NEW j \in 1..(l + m) PROVE q[j] <= v
    <3>1. CASE j \in 1..l
      BY <1>1, <1>3, <3>1
    <3>2. CASE \E i \in 1..m : j = l + i
      BY <1>1, <1>3, <3>2
    <3> QED BY <1>5, <3>1, <3>2
  <2> QED BY <1>1, <2>1 DEF Below
<1>8. Ascending(q)
  <2>1. ASSUME NEW j \in 1..(l + m), NEW i \in 1..(j - 1), q[j] # 0
        PROVE  q[i] < q[j]
    <3>1. CASE j \in 1..l
      <4>1. i \in 1..l
        BY <3>1
      <4> QED BY <1>1, <1>3, <2>1, <3>1, <4>1
    <3>2. ASSUME NEW h \in 1..m, j = l + h
          PROVE  q[i] < q[j]
      <4>1. q[j] = more[h] /\ more[h] \in Nat /\ w < more[h]
        BY <1>1, <1>3, <2>1, <3>2
      <4>2. CASE i \in 1..l
        <5>1. q[i] = p[i] /\ p[i] \in Nat /\ p[i] <= w
          BY <1>1, <1>3, <4>2
        <5>2. p[i] < more[h]
          <6>1. PICK x \in Nat, y \in Nat : x = p[i] /\ y = more[h] /\ x <= w /\ w < y
            BY <4>1, <5>1
          <6> QED BY <6>1
        <5> QED BY <4>1, <5>1, <5>2
      <4>3. CASE i \notin 1..l
        <5>1. i - l \in 1..(h - 1) /\ i - l \in 1..m /\ i = l + (i - l)
          BY <3>2, <4>3
        <5>2. q[i] = more[i - l]
          BY <1>1, <5>1
        <5>3. more[i - l] < more[h]
          BY <1>3, <4>1, <5>1
        <5> QED BY <4>1, <5>2, <5>3
      <4> QED BY <4>2, <4>3
    <3> QED BY <1>5, <3>1, <3>2
  <2> QED BY <1>1, <2>1 DEF Ascending
<1>9. ASSUME NEW i \in 1..k, NEW j \in 1..(l + m), q[j] # 0
      PROVE  r[i] < q[j]
  <2>1. CASE j \in 1..l
    BY <1>1, <1>4, <1>9, <2>1
  <2>2. ASSUME NEW h \in 1..m, j = l + h
        PROVE  r[i] < q[j]
    <3>1. q[j] = more[h] /\ more[h] \in Nat /\ w < more[h]
      BY <1>1, <1>3, <1>9, <2>2
    <3>2. r[i] \in Nat /\ r[i] <= w
      BY <1>2, <1>4
    <3>3. PICK x \in Nat, y \in Nat : x = r[i] /\ y = more[h] /\ x <= w /\ w < y
      BY <3>1, <3>2
    <3>4. x < y
      BY <3>3
    <3> QED BY <3>1, <3>3, <3>4
  <2> QED BY <1>5, <2>1, <2>2
<1>10. Ordered(r, q, v)
  BY <1>1, <1>2, <1>4, <1>6, <1>7, <1>8, <1>9 DEF Ordered
<1> QED BY <1>1, <1>10

\* The numbers in more are consecutive.
LEMMA OrderedNumbers ==
  ASSUME NEW r \in Seq(Nat), NEW p \in Seq(Nat), NEW w \in Nat, NEW n \in Nat,
         Ordered(r, p, w)
  PROVE  Ordered(r, p \o Numbers(w, n), w + n)
<1>1. PICK more \in Seq(Nat) :
        /\ more = Numbers(w, n) /\ Len(more) = n /\ \A i \in 1..n : more[i] = w + i
  BY NumbersProperties
<1>2. Ascending(more)
  BY <1>1 DEF Ascending
<1>3. Below(more, w + n)
  BY <1>1 DEF Below
<1>4. \A i \in 1..Len(more) : more[i] # 0 => w < more[i]
  BY <1>1
<1>5. w + n \in Nat /\ w <= w + n
  OBVIOUS
<1>6. PICK v \in Nat : v = w + n /\ w <= v
  BY <1>5
<1>7. Ordered(r, p \o more, v)
  BY <1>2, <1>3, <1>4, <1>6, OrderedMore
<1> QED BY <1>1, <1>6, <1>7

LEMMA OrderedNext ==
  ASSUME NEW r \in Seq(Nat), NEW p \in Seq(Nat), NEW w \in Nat, Ordered(r, p, w)
  PROVE  Ordered(r, Append(p, w + 1), w + 1)
<1>1. PICK more \in Seq(Nat) :
        /\ more = Numbers(w, 1) /\ Len(more) = 1 /\ \A i \in 1..1 : more[i] = w + i
  BY NumbersProperties
<1>2. w + 1 \in Nat /\ <<w + 1>> \in Seq(Nat)
  OBVIOUS
<1>3. more = <<w + 1>>
  <2>1. Len(<<w + 1>>) = 1 /\ \A i \in 1..1 : <<w + 1>>[i] = more[i]
    BY <1>1
  <2> QED BY <1>1, <1>2, <2>1, SeqEqual
<1>4. Append(p, w + 1) = p \o <<w + 1>>
  BY <1>2, AppendIsConcat
<1>5. Ordered(r, p \o Numbers(w, 1), w + 1)
  BY OrderedNumbers
<1> QED BY <1>1, <1>3, <1>4, <1>5

LEMMA OrderedPadding ==
  ASSUME NEW r \in Seq(Nat), NEW p \in Seq(Nat), NEW w \in Nat, NEW n \in Nat,
         Ordered(r, p, w)
  PROVE  Ordered(r, p \o Zeros(n), w)
<1>1. [i \in 1..n |-> 0] \in [1..n -> Nat]
  OBVIOUS
<1>2. PICK more \in Seq(Nat) :
        /\ more = Zeros(n) /\ Len(more) = n /\ \A i \in 1..n : more[i] = 0
  <2>1. Zeros(n) \in Seq(Nat)
    BY <1>1 DEF Zeros
  <2>2. Len(Zeros(n)) = n
    BY DEF Zeros
  <2>3. \A i \in 1..n : Zeros(n)[i] = 0
    BY DEF Zeros
  <2> QED BY <2>1, <2>2, <2>3
<1>3. Ascending(more)
  BY <1>2 DEF Ascending
<1>4. Below(more, w)
  BY <1>2 DEF Below
<1>5. \A i \in 1..Len(more) : more[i] # 0 => w < more[i]
  BY <1>2
<1>6. Ordered(r, p \o more, w)
  BY <1>3, <1>4, <1>5, OrderedMore
<1> QED BY <1>2, <1>6

\* The put area goes to the client, or nowhere.
LEMMA OrderedSent ==
  ASSUME NEW r \in Seq(Nat), NEW p \in Seq(Nat), NEW w \in Nat, Ordered(r, p, w)
  PROVE  Ordered(r \o p, <<>>, w) /\ Ordered(r, <<>>, w)
<1>1. PICK q \in Seq(Nat), l \in Nat, m \in Nat :
        /\ q = r \o p /\ l = Len(r) /\ m = Len(p) /\ Len(q) = l + m
        /\ \A i \in 1..l : q[i] = r[i] /\ r[i] \in Nat
        /\ \A i \in 1..m : q[l + i] = p[i] /\ p[i] \in Nat
  BY Split
<1>2. /\ \A i \in 1..l : r[i] <= w
      /\ \A j \in 1..l : \A i \in 1..(j - 1) : r[j] # 0 => r[i] < r[j]
      /\ \A i \in 1..m : p[i] <= w
      /\ \A j \in 1..m : \A i \in 1..(j - 1) : p[j] # 0 => p[i] < p[j]
      /\ \A i \in 1..l : \A j \in 1..m : p[j] # 0 => r[i] < p[j]
  BY <1>1 DEF Ordered, Below, Ascending
<1>3. \A j \in 1..(l + m) : j \in 1..l \/ \E i \in 1..m : j = l + i
  <2> SUFFICES ASSUME NEW j \in 1..(l + m), j \notin 1..l
               PROVE  \E i \in 1..m : j = l + i
    OBVIOUS
  <2>1. j - l \in 1..m /\ j = l + (j - l)
    OBVIOUS
  <2> QED BY <2>1
<1>4. Below(q, w)
  <2>1. ASSUME NEW j \in 1..(l + m) PROVE q[j] <= w
    BY <1>1, <1>2, <1>3
  <2> QED BY <1>1, <2>1 DEF Below
<1>5. Ascending(q)
  <2>1. ASSUME NEW j \in 1..(l + m), NEW i \in 1..(j - 1), q[j] # 0
        PROVE  q[i] < q[j]
    <3>1. CASE j \in 1..l
      <4>1. i \in 1..l
        BY <3>1
      <4> QED BY <1>1, <1>2, <2>1, <3>1, <4>1
    <3>2. ASSUME NEW h \in 1..m, j = l + h
          PROVE  q[i] < q[j]
      <4>1. q[j] = p[h] /\ p[h] # 0
        BY <1>1, <2>1, <3>2
      <4>2. CASE i \in 1..l
        BY <1>1, <1>2, <4>1, <4>2
      <4>3. CASE i \notin 1..l
        <5>1. i - l \in 1..(h - 1) /\ i - l \in 1..m /\ i = l + (i - l)
          BY <3>2, <4>3
        <5>2. q[i] = p[i - l]
          BY <1>1, <5>1
        <5>3. p[i - l] < p[h]
          BY <1>2, <4>1, <5>1
        <5> QED BY <4>1, <5>2, <5>3
      <4> QED BY <4>2, <4>3
    <3> QED BY <1>3, <3>1, <3>2
  <2> QED BY <1>1, <2>1 DEF Ascending
<1>6. Len(<<>>) = 0 /\ Ascending(<<>>) /\ Below(<<>>, w)
  BY DEF Ascending, Below
<1>7. Ordered(q, <<>>, w)
  BY <1>4, <1>5, <1>6 DEF Ordered
<1>8. Ordered(r, <<>>, w)
  BY <1>6 DEF Ordered
<1> QED BY <1>1, <1>7, <1>8

OrderInv == \A s \in Outputs : Ordered(received[s], put[s], written[s])

LEMMA StreamTypes ==
  ASSUME Types, NEW s \in Outputs
  PROVE  /\ received[s] \in Seq(Nat) /\ put[s] \in Seq(Nat) /\ written[s] \in Nat
         /\ DOMAIN received = Outputs /\ DOMAIN put = Outputs /\ DOMAIN written = Outputs
BY DEF Types, ClientTypes, PutType, ApplicationTypes

\* What overflow() makes of a record's content keeps the order.
LEMMA ContentOrder ==
  ASSUME Types, NEW s \in Outputs, NEW content \in Seq(Nat), NEW w \in Nat,
         Ordered(received[s], content, w),
         ContentSent(s, content) \/ ContentThrows(s, content)
  PROVE  /\ Ordered(received'[s], put'[s], w)
         /\ \A t \in Outputs \ {s} : received'[t] = received[t] /\ put'[t] = put[t]
<1>1. received[s] \in Seq(Nat) /\ DOMAIN received = Outputs /\ DOMAIN put = Outputs
  BY StreamTypes
<1>2. CASE ContentSent(s, content)
  <2>1. put' = [put EXCEPT ![s] = <<>>]
    BY <1>2 DEF ContentSent
  <2>2. \/ received' = [received EXCEPT ![s] = received[s] \o content]
        \/ received' = received
    BY <1>2 DEF ContentSent, Arrives, clientVars
  <2>3. Ordered(received[s] \o content, <<>>, w) /\ Ordered(received[s], <<>>, w)
    BY <1>1, OrderedSent
  <2> QED BY <1>1, <2>1, <2>2, <2>3
<1>3. CASE ContentThrows(s, content)
  <2>1. received' = received
    BY <1>3 DEF ContentThrows, clientVars
  <2>2. put' = [put EXCEPT ![s] = content \o Zeros(Padding(Len(content), 8))]
    BY <1>3 DEF ContentThrows
  <2>3. Padding(Len(content), 8) \in Nat
    BY PaddingBounds, LenProperties
  <2>4. Ordered(received[s], content \o Zeros(Padding(Len(content), 8)), w)
    BY <1>1, <2>3, OrderedPadding
  <2> QED BY <1>1, <2>1, <2>2, <2>4
<1> QED BY <1>2, <1>3

LEMMA OneStream ==
  ASSUME OrderInv, NEW s \in Outputs, Ordered(received'[s], put'[s], written'[s]),
         \A t \in Outputs \ {s} :
           received'[t] = received[t] /\ put'[t] = put[t] /\ written'[t] = written[t]
  PROVE  OrderInv'
<1> SUFFICES ASSUME NEW t \in Outputs PROVE Ordered(received'[t], put'[t], written'[t])
  BY DEF OrderInv
<1>1. CASE t = s
  BY <1>1
<1>2. CASE t # s
  BY <1>2 DEF OrderInv
<1> QED BY <1>1, <1>2

LEMMA NoStream ==
  ASSUME OrderInv, UNCHANGED <<received, put, written>>
  PROVE  OrderInv'
BY DEF OrderInv

LEMMA StepOrder == Types /\ OrderInv /\ [Next]_vars => OrderInv'
<1> SUFFICES ASSUME Types, OrderInv, [Next]_vars PROVE OrderInv'
  OBVIOUS
<1>1. CASE Calm \/ InputRefuses \/ UNCHANGED vars
  BY <1>1, NoStream DEF Calm, EndedFlush, Clear, AlreadyClosed, RefusesToClose, InputAdvances,
         SyncInput, Close, Destroy, AllClosed, CloseInput, ClientLeaves, InputRefuses,
         bufferVars, clientVars, vars
<1>2. ASSUME NEW s \in Outputs, PutBytes(s)
      PROVE  OrderInv'
  <2>1. PICK n \in Nat :
          /\ put' = [put EXCEPT ![s] = put[s] \o Numbers(written[s], n)]
          /\ written' = [written EXCEPT ![s] = written[s] + n]
    <3>1. PICK n \in WriteSizes \cup {Room - Len(put[s])} :
            /\ n \in 1..(Room - Len(put[s]))
            /\ put' = [put EXCEPT ![s] = put[s] \o Numbers(written[s], n)]
            /\ written' = [written EXCEPT ![s] = written[s] + n]
      BY <1>2 DEF PutBytes
    <3>2. n \in Nat
      BY <3>1
    <3> QED BY <3>1, <3>2
  <2>2. Ordered(received[s], put[s] \o Numbers(written[s], n), written[s] + n)
    BY StreamTypes, OrderedNumbers DEF OrderInv
  <2>3. received' = received
    BY <1>2 DEF PutBytes, clientVars
  <2> QED BY <2>1, <2>2, <2>3, StreamTypes, OneStream
<1>3. ASSUME NEW s \in Outputs
      PROVE  /\ Ordered(received[s], Append(put[s], written[s] + 1), written[s] + 1)
             /\ Append(put[s], written[s] + 1) \in Seq(Nat) /\ written[s] + 1 \in Nat
  BY StreamTypes, ContentType, OrderedNext DEF OrderInv
<1>4. ASSUME NEW s \in Outputs, Overflow(s)
      PROVE  OrderInv'
  <2> DEFINE content == Append(put[s], written[s] + 1)
  <2>1. CASE /\ ContentSent(s, content) \/ ContentThrows(s, content)
             /\ written' = [written EXCEPT ![s] = written[s] + 1]
    <3>1. /\ Ordered(received'[s], put'[s], written[s] + 1)
          /\ \A t \in Outputs \ {s} : received'[t] = received[t] /\ put'[t] = put[t]
      BY <1>3, <2>1, ContentOrder
    <3> QED BY <2>1, <3>1, StreamTypes, OneStream
  <2>2. CASE ContentTerminates(content) /\ UNCHANGED written
    BY <2>2, NoStream DEF ContentTerminates, clientVars
  <2> QED BY <1>4, <2>1, <2>2 DEF Overflow
<1>5. ASSUME NEW s \in Outputs, Flush(s) \/ CloseContent(s)
      PROVE  OrderInv'
  <2>1. UNCHANGED written
    BY <1>5 DEF Flush, CloseContent
  <2>2. CASE ContentSent(s, put[s]) \/ ContentThrows(s, put[s])
    <3>1. /\ Ordered(received'[s], put'[s], written[s])
          /\ \A t \in Outputs \ {s} : received'[t] = received[t] /\ put'[t] = put[t]
      BY <2>2, StreamTypes, ContentOrder DEF OrderInv
    <3> QED BY <2>1, <3>1, StreamTypes, OneStream
  <2>3. CASE ContentTerminates(put[s])
    BY <2>1, <2>3, NoStream DEF ContentTerminates, clientVars
  <2> QED BY <1>5, <2>2, <2>3 DEF Flush, CloseContent
<1>6. ASSUME NEW s \in Outputs, EndingFlush(s)
      PROVE  OrderInv'
  <2>1. received' = received
    BY <1>6 DEF EndingFlush, clientVars
  <2>2. CASE /\ put' = [put EXCEPT ![s] = Append(put[s], written[s] + 1)]
             /\ written' = [written EXCEPT ![s] = written[s] + 1]
    BY <1>3, <2>1, <2>2, StreamTypes, OneStream
  <2>3. CASE UNCHANGED <<put, written>>
    BY <2>1, <2>3, NoStream
  <2> QED BY <1>6, <2>2, <2>3 DEF EndingFlush
<1>7. ASSUME NEW s \in Outputs, SetBuf(s)
      PROVE  OrderInv'
  <2>1. Ordered(received[s], <<>>, written[s])
    BY StreamTypes, OrderedSent DEF OrderInv
  <2> QED BY <1>7, <2>1, StreamTypes, OneStream DEF SetBuf, clientVars
<1>8. ASSUME NEW s \in Outputs, FailsToClose(s)
      PROVE  OrderInv'
  BY <1>8, NoStream DEF FailsToClose, clientVars
<1>9. ASSUME NEW s \in Outputs, CloseEnd(s)
      PROVE  OrderInv'
  <2>1. UNCHANGED <<put, written>>
    BY <1>9 DEF CloseEnd
  <2>2. received[s] \o <<>> = received[s]
    BY StreamTypes, ConcatEmptySeq
  <2>3. received \in [Outputs -> Seq(Nat)]
    BY DEF Types, ClientTypes
  <2>4. CASE Arrives(EndRecords(s), s, <<>>)
    <3>1. received' = [received EXCEPT ![s] = received[s]] \/ received' = received
      BY <2>2, <2>4 DEF Arrives, clientVars
    <3>2. received' = received
      BY <2>3, <3>1
    <3> QED BY <2>1, <3>2, NoStream
  <2>5. CASE UNCHANGED clientVars
    BY <2>1, <2>5, NoStream DEF clientVars
  <2> QED BY <1>9, <2>4, <2>5 DEF CloseEnd
<1> QED BY <1>1, <1>2, <1>4, <1>5, <1>6, <1>7, <1>8, <1>9 DEF Next, Application, Teardown, Calm

\* Whatever fails and is tried again, and whatever pubsetbuf() drops, the client has no byte
\* of the application twice or before an earlier one (overflow(), 314-364).
THEOREM BytesAreInOrder == Spec => []InOrderOnce
<1>1. Init => OrderInv
  <2>1. Len(<<>>) = 0
    OBVIOUS
  <2> QED BY <2>1 DEF Init, OrderInv, Ordered, Ascending, Below
<1>2. OrderInv => InOrderOnce
  BY DEF OrderInv, Ordered, Ascending, InOrderOnce
<1> QED BY <1>1, <1>2, InitTypes, StepTypes, StepOrder, PTL DEF Spec

=============================================================================
