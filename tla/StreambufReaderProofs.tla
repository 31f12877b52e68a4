----------------------- MODULE StreambufReaderProofs -----------------------
(***************************************************************************)
(* Theorems about StreambufReader, for every value of its constants.        *)
(***************************************************************************)
EXTENDS StreambufReader, SequenceTheorems, TLAPS

Frame == [pos : Nat, len : 0..HeaderSize, header : Record]

AnswerRecord ==
  [kind : {"end_request", "unknown_type", "get_values_result"}, at : Nat]

\* Where the header of the innermost call lies: behind the headers of the calls
\* it is nested in, and with what has been read of it before gptr().
HeaderInv ==
  /\ hdrPos + hdrLen <= gptr
  /\ pc = "process" => hdrLen = HeaderSize
  /\ pc = "values" => frames # <<>>
  /\ pc \in {"read", "body", "process"} /\ frames # <<>>
       => frames[1].pos + HeaderSize <= hdrPos
  /\ \A i \in 1..Len(frames) : frames[i].len = HeaderSize

\* The inductive invariant, whatever the client sends.
TypeInv == TypeOK /\ HeaderInv /\ RecursionConsumes

-----------------------------------------------------------------------------
LEMMA BytesType ==
  ASSUME NEW r \in Record
  PROVE  Bytes(r) \in Seq(Token) /\ Len(Bytes(r)) = Size(r) /\ Size(r) \in Nat
<1>1. Size(r) \in Nat /\ Size(r) <= HeaderSize + MaxContent + MaxPadding
  BY SizeAssumption DEF Size, Record
<1>2. \A i \in 1..Size(r) : [rec |-> r, off |-> i] \in Token
  BY <1>1, SizeAssumption DEF Token
<1>3. Bytes(r) \in [1..Size(r) -> Token]
  BY <1>2 DEF Bytes
<1> QED BY <1>1, <1>3

LEMMA WriteType ==
  ASSUME TypeOK, NEW r \in Record, Write(r)
  PROVE  /\ wire' \in Seq(Token) /\ Len(wire') = Len(wire) + Size(r)
         /\ \A p \in 1..Len(wire) : wire'[p] = wire[p]
         /\ \A i \in 1..Size(r) : wire'[Len(wire) + i] = [rec |-> r, off |-> i]
<1>1. wire \in Seq(Token) /\ wire' = wire \o Bytes(r)
  BY DEF TypeOK, Write
<1>2. Bytes(r) \in Seq(Token) /\ Len(Bytes(r)) = Size(r) /\ Size(r) \in Nat
  BY BytesType
<1>3. Len(wire) \in Nat
  BY <1>1
<1>4. /\ wire' \in Seq(Token)
      /\ Len(wire') = Len(wire) + Len(Bytes(r))
      /\ \A i \in 1 .. Len(wire) + Len(Bytes(r)) :
            wire'[i] = IF i <= Len(wire) THEN wire[i] ELSE Bytes(r)[i - Len(wire)]
  BY <1>1, <1>2, ConcatProperties
<1>5. \A i \in 1..Size(r) : Bytes(r)[i] = [rec |-> r, off |-> i]
  BY DEF Bytes
<1>6. \A i \in 1..Size(r) : wire'[Len(wire) + i] = [rec |-> r, off |-> i]
  <2>1. TAKE i \in 1..Size(r)
  <2>2. Len(wire) + i \in 1..(Len(wire) + Len(Bytes(r))) /\ ~(Len(wire) + i <= Len(wire))
        /\ Len(wire) + i - Len(wire) = i
    BY <1>2, <1>3
  <2> QED BY <1>4, <1>5, <2>2
<1> QED BY <1>2, <1>3, <1>4, <1>6

LEMMA PadsBeginTypeInv ==
  ASSUME TypeInv, ClientPadsBegin
  PROVE  TypeInv'
<1>1. PICK m \in BeginPaddings \ {0} :
        wire' = [i \in 1..m |-> [rec |-> [kind |-> "begin", clen |-> 0, plen |-> m],
                                 off |-> HeaderSize + i]]
  BY DEF ClientPadsBegin
<1>2. m \in 0..MaxPadding /\ m \in Nat
  BY SizeAssumption
<1>3. \A i \in 1..m :
        [rec |-> [kind |-> "begin", clen |-> 0, plen |-> m], off |-> HeaderSize + i] \in Token
  BY <1>2, SizeAssumption DEF Token, Record, ForeignKinds
<1>4. wire' \in Seq(Token) /\ Len(wire') = m
  <2>1. wire' \in [1..m -> Token]
    BY <1>1, <1>3, Zenon
  <2> QED BY <1>2, <2>1
<1>5. /\ wire = <<>> /\ fetched = 0
      /\ UNCHANGED <<phase, conn, type, eos, discard, gptr, egptr, fetched, unreadContent,
                     unreadPadding, pc, hdrPos, hdrLen, header, frames, stage, ios, delivered,
                     answers>>
  BY DEF ClientPadsBegin, readerVars, recordVars, headerVars, ownerVars, TypeInv, TypeOK
<1>6. delivered' \subseteq (1..Len(wire')) \X Streams
  BY <1>4, <1>5 DEF TypeInv, TypeOK
<1>7. TypeOK'
  BY <1>2, <1>4, <1>5, <1>6 DEF TypeInv, TypeOK
<1> QED BY <1>5, <1>7 DEF TypeInv, HeaderInv, RecursionConsumes

LEMMA ClientTypeInv ==
  ASSUME TypeInv, Client
  PROVE  TypeInv'
<1>1. \/ \E r \in Record : Write(r) /\ phase' \in Streams \cup {"done"}
      \/ ClientDisconnects \/ ClientPadsBegin
  <2>1. CASE ClientSends
    <3>1. phase \in Streams /\ phase' = phase
      BY <2>1 DEF ClientSends, TypeInv, TypeOK
    <3>2. PICK n \in 1..MaxContent, m \in 0..MaxPadding :
            Write([kind |-> phase, clen |-> n, plen |-> m])
      BY <2>1 DEF ClientSends
    <3>3. [kind |-> phase, clen |-> n, plen |-> m] \in Record
      BY <3>1, SizeAssumption DEF Record
    <3> QED BY <3>1, <3>2, <3>3
  <2>2. CASE ClientEndsStream
    <3>1. phase \in Streams /\ phase' = NextStream(phase)
      BY <2>2 DEF ClientEndsStream, TypeInv, TypeOK
    <3>2. PICK m \in EndPaddings : Write([kind |-> phase, clen |-> 0, plen |-> m])
      BY <2>2 DEF ClientEndsStream
    <3>3. [kind |-> phase, clen |-> 0, plen |-> m] \in Record
      BY <3>1, SizeAssumption DEF Record
    <3>4. phase' \in Streams \cup {"done"}
      BY <3>1 DEF NextStream, Streams
    <3> QED BY <3>2, <3>3, <3>4
  <2>3. CASE ClientSendsForeign
    <3>1. PICK k \in Foreign, n \in 0..MaxContent, m \in 0..MaxPadding :
            Write([kind |-> k, clen |-> n, plen |-> m])
      BY <2>3 DEF ClientSendsForeign
    <3>2. [kind |-> k, clen |-> n, plen |-> m] \in Record
      BY ForeignAssumption, SizeAssumption DEF Record
    <3>3. phase' \in Streams \cup {"done"}
      BY <2>3 DEF ClientSendsForeign, TypeInv, TypeOK
    <3> QED BY <3>1, <3>2, <3>3
  <2> QED BY <2>1, <2>2, <2>3 DEF Client
<1>2. CASE ClientDisconnects
  BY <1>2 DEF ClientDisconnects, readerVars, recordVars, headerVars, ownerVars,
              TypeInv, TypeOK, HeaderInv, RecursionConsumes
<1>3. ASSUME NEW r \in Record, Write(r), phase' \in Streams \cup {"done"}
      PROVE  TypeInv'
  <2>1. wire' \in Seq(Token) /\ Len(wire') \in Nat /\ Len(wire) <= Len(wire')
    <3>1. Len(wire) \in Nat /\ Size(r) \in Nat
      BY BytesType DEF TypeInv, TypeOK
    <3> QED BY <1>3, <3>1, WriteType DEF TypeInv
  <2>2. UNCHANGED <<conn, type, eos, discard, gptr, egptr, fetched, unreadContent,
                    unreadPadding, pc, hdrPos, hdrLen, header, frames, stage, ios,
                    delivered, answers>>
    BY <1>3 DEF Write, readerVars, recordVars, headerVars, ownerVars
  <2>3. fetched' \in 0..Len(wire')
    BY <2>1, <2>2 DEF TypeInv, TypeOK
  <2>4. delivered' \subseteq (1..Len(wire')) \X Streams
    <3>1. 1..Len(wire) \subseteq 1..Len(wire')
      BY <2>1 DEF TypeInv, TypeOK
    <3> QED BY <2>2, <3>1 DEF TypeInv, TypeOK
  <2>5. TypeOK'
    BY <1>3, <2>1, <2>2, <2>3, <2>4 DEF TypeInv, TypeOK
  <2> QED BY <2>2, <2>5 DEF TypeInv, HeaderInv, RecursionConsumes
<1> QED BY <1>1, <1>2, <1>3, PadsBeginTypeInv

LEMMA HeaderRecordType ==
  ASSUME TypeInv, Valid
  PROVE  /\ header \in Record
         /\ header.clen \in 0..MaxContent /\ header.plen \in 0..MaxPadding
BY DEF TypeInv, TypeOK, Valid, Record

LEMMA FramesKept ==
  ASSUME TypeOK, RecursionConsumes, frames' = frames, gptr' \in Int, gptr <= gptr'
  PROVE  RecursionConsumes'
<1>1. gptr \in Int /\ HeaderSize \in Int
  BY SizeAssumption DEF TypeOK
<1>2. ASSUME NEW i \in 1..Len(frames)
      PROVE  frames[i].pos + HeaderSize <= gptr'
  <2>1. frames \in Seq(Frame)
    BY DEF TypeOK, Frame
  <2>2. frames[i].pos \in Nat
    <3>1. frames[i] \in Frame
      BY <2>1
    <3> QED BY <3>1 DEF Frame
  <2>3. frames[i].pos + HeaderSize <= gptr
    BY DEF RecursionConsumes
  <2> QED BY <1>1, <2>2, <2>3
<1> QED BY <1>2 DEF RecursionConsumes

InCall == pc \in {"read", "body", "process"}

LEMMA HeaderKept ==
  ASSUME TypeOK, HeaderInv, UNCHANGED <<frames, hdrPos, hdrLen>>,
         gptr' \in Int, gptr <= gptr', InCall' => InCall,
         pc' = "process" => pc = "process", pc' = "values" => frames # <<>>
  PROVE  HeaderInv'
BY SizeAssumption DEF TypeOK, HeaderInv, InCall

LEMMA AnswerType ==
  ASSUME TypeOK, NEW k \in {"end_request", "unknown_type", "get_values_result"},
         NEW at \in Nat, Answer(k, at)
  PROVE  answers' \in Seq(AnswerRecord)
<1>1. [kind |-> k, at |-> at] \in AnswerRecord
  BY DEF AnswerRecord
<1>2. answers \in Seq(AnswerRecord)
  BY DEF TypeOK, AnswerRecord
<1> QED BY <1>1, <1>2 DEF Answer

\* The steps that leave the headers of all calls where they are.
LEMMA HeadersKeptTypeInv ==
  ASSUME TypeInv,
         \/ Consume \/ NestedConsume \/ ConstructorThrows \/ Clear \/ ReadFails
         \/ Content \/ Discard \/ Padding \/ ProcessInvalid
         \/ ProcessDiscarded \/ ProcessUnknown \/ ProcessContent \/ ProcessUnexpected
         \/ Read \/ ParametersRead \/ ProcessEnd
  PROVE  TypeInv'
<1> USE SizeAssumption DEF TypeInv, clientVars, recordVars, headerVars, ownerVars
<1>1. CASE Consume
  <2>1. TypeOK'
    BY <1>1 DEF TypeOK, Consume
  <2>2. /\ UNCHANGED <<frames, hdrPos, hdrLen>> /\ gptr <= gptr' /\ gptr' \in Int
        /\ InCall' => InCall
        /\ pc' = "process" => pc = "process"
        /\ pc' = "values" => frames # <<>>
    BY <1>1 DEF TypeOK, HeaderInv, InCall, Consume
  <2> QED BY <2>1, <2>2, FramesKept, HeaderKept
<1>2. CASE NestedConsume
  <2>1. TypeOK'
    BY <1>2 DEF TypeOK, NestedConsume
  <2>2. /\ UNCHANGED <<frames, hdrPos, hdrLen>> /\ gptr <= gptr' /\ gptr' \in Int
        /\ InCall' => InCall
        /\ pc' = "process" => pc = "process"
        /\ pc' = "values" => frames # <<>>
    BY <1>2 DEF TypeOK, HeaderInv, InCall, NestedConsume
  <2> QED BY <2>1, <2>2, FramesKept, HeaderKept
<1>3. CASE ConstructorThrows
  <2>1. TypeOK'
    BY <1>3 DEF TypeOK, ConstructorThrows
  <2>2. /\ UNCHANGED <<frames, hdrPos, hdrLen>> /\ gptr <= gptr' /\ gptr' \in Int
        /\ InCall' => InCall
        /\ pc' = "process" => pc = "process"
        /\ pc' = "values" => frames # <<>>
    BY <1>3 DEF TypeOK, HeaderInv, InCall, ConstructorThrows
  <2> QED BY <2>1, <2>2, FramesKept, HeaderKept
<1>4. CASE Clear
  <2>1. TypeOK'
    BY <1>4 DEF TypeOK, Clear
  <2>2. /\ UNCHANGED <<frames, hdrPos, hdrLen>> /\ gptr <= gptr' /\ gptr' \in Int
        /\ InCall' => InCall
        /\ pc' = "process" => pc = "process"
        /\ pc' = "values" => frames # <<>>
    BY <1>4 DEF TypeOK, HeaderInv, InCall, Clear
  <2> QED BY <2>1, <2>2, FramesKept, HeaderKept
<1>5. CASE ReadFails
  <2>1. TypeOK'
    BY <1>5 DEF TypeOK, ReadFails, Returns, Nested
  <2>2. /\ UNCHANGED <<frames, hdrPos, hdrLen>> /\ gptr <= gptr' /\ gptr' \in Int
        /\ InCall' => InCall
        /\ pc' = "process" => pc = "process"
        /\ pc' = "values" => frames # <<>>
    BY <1>5 DEF TypeOK, HeaderInv, InCall, ReadFails, Returns, Nested
  <2> QED BY <2>1, <2>2, FramesKept, HeaderKept
<1>6. CASE Content
  <2> DEFINE count == Least(unreadContent, fetched - gptr)
  <2>0. /\ unreadContent \in Nat /\ fetched \in Nat /\ gptr \in Nat /\ gptr <= fetched
        /\ count \in Nat /\ count <= unreadContent /\ count <= fetched - gptr
    BY <1>6 DEF TypeOK, Least
  <2> HIDE DEF count
  <2>1. /\ unreadContent' = unreadContent - count
        /\ gptr' = gptr /\ egptr' = gptr + count
        /\ pc' \in {"caller", "terminated"}
        /\ UNCHANGED <<frames, hdrPos, hdrLen>>
    BY <1>6, <2>0 DEF Content, count, Asserted
  <2>2. unreadContent' \in Nat /\ unreadContent' <= unreadContent /\ gptr' \in Nat /\ gptr <= gptr'
        /\ gptr' <= fetched
    BY <2>0, <2>1
  <2>3. TypeOK'
    BY <1>6, <2>0, <2>1, <2>2 DEF TypeOK, Content
  <2>4. /\ InCall' => InCall
        /\ pc' = "process" => pc = "process"
        /\ pc' = "values" => frames # <<>>
    BY <1>6, <2>1 DEF InCall, Content
  <2> QED BY <2>1, <2>2, <2>3, <2>4, FramesKept, HeaderKept
<1>7. CASE Discard
  <2> DEFINE count == Least(unreadContent, fetched - gptr)
  <2>0. /\ unreadContent \in Nat /\ fetched \in Nat /\ gptr \in Nat /\ gptr <= fetched
        /\ count \in Nat /\ count <= unreadContent /\ count <= fetched - gptr
    BY <1>7 DEF TypeOK, Least
  <2> HIDE DEF count
  <2>1. /\ unreadContent' = unreadContent - count
        /\ gptr' = gptr + count
        /\ pc' \in {"read", "body"} /\ discard' \in BOOLEAN
        /\ UNCHANGED <<frames, hdrPos, hdrLen>>
    BY <1>7, <2>0 DEF Discard, count, Asserted
  <2>2. unreadContent' \in Nat /\ unreadContent' <= unreadContent /\ gptr' \in Nat /\ gptr <= gptr'
        /\ gptr' <= fetched
    BY <2>0, <2>1
  <2>3. TypeOK'
    BY <1>7, <2>0, <2>1, <2>2 DEF TypeOK, Discard
  <2>4. /\ InCall' => InCall
        /\ pc' = "process" => pc = "process"
        /\ pc' = "values" => frames # <<>>
    BY <1>7, <2>1 DEF InCall, Discard
  <2> QED BY <2>1, <2>2, <2>3, <2>4, FramesKept, HeaderKept
<1>8. CASE Padding
  <2> DEFINE count == Least(unreadPadding, fetched - gptr)
  <2>0. /\ unreadPadding \in Nat /\ fetched \in Nat /\ gptr \in Nat /\ gptr <= fetched
        /\ count \in Nat /\ count <= unreadPadding /\ count <= fetched - gptr
    BY <1>8 DEF TypeOK, Least
  <2> HIDE DEF count
  <2>1. /\ unreadPadding' = unreadPadding - count
        /\ gptr' = gptr + count
        /\ pc' \in {"read", "body"}
        /\ UNCHANGED <<frames, hdrPos, hdrLen>>
    BY <1>8, <2>0 DEF Padding, count, Asserted
  <2>2. unreadPadding' \in Nat /\ unreadPadding' <= unreadPadding /\ gptr' \in Nat /\ gptr <= gptr'
        /\ gptr' <= fetched
    BY <2>0, <2>1
  <2>3. TypeOK'
    BY <1>8, <2>0, <2>1, <2>2 DEF TypeOK, Padding
  <2>4. /\ InCall' => InCall
        /\ pc' = "process" => pc = "process"
        /\ pc' = "values" => frames # <<>>
    BY <1>8, <2>1 DEF InCall, Padding
  <2> QED BY <2>1, <2>2, <2>3, <2>4, FramesKept, HeaderKept
<1>9. CASE ProcessInvalid
  <2>1. TypeOK'
    BY <1>9, HeaderRecordType DEF TypeOK, ProcessInvalid, Returns, Nested
  <2>2. /\ UNCHANGED <<frames, hdrPos, hdrLen>> /\ gptr <= gptr' /\ gptr' \in Int
        /\ InCall' => InCall
        /\ pc' = "process" => pc = "process"
        /\ pc' = "values" => frames # <<>>
    BY <1>9 DEF TypeOK, HeaderInv, InCall, ProcessInvalid, Returns, Nested
  <2> QED BY <2>1, <2>2, FramesKept, HeaderKept
<1>10. CASE ProcessDiscarded
  <2>0. answers' \in Seq(AnswerRecord)
    BY <1>10, AnswerType DEF TypeOK, AnswerRecord, ProcessDiscarded
  <2>1. TypeOK'
    BY <1>10, <2>0, HeaderRecordType DEF TypeOK, ProcessDiscarded, Enters, Asserted, Loop, AnswerRecord
  <2>2. /\ UNCHANGED <<frames, hdrPos, hdrLen>> /\ gptr <= gptr' /\ gptr' \in Int
        /\ InCall' => InCall
        /\ pc' = "process" => pc = "process"
        /\ pc' = "values" => frames # <<>>
    BY <1>10 DEF TypeOK, HeaderInv, InCall, ProcessDiscarded, Enters, Asserted, Loop
  <2> QED BY <2>1, <2>2, FramesKept, HeaderKept
<1>11. CASE ProcessUnknown
  <2>0. answers' \in Seq(AnswerRecord)
    BY <1>11, AnswerType DEF TypeOK, AnswerRecord, ProcessUnknown
  <2>1. TypeOK'
    BY <1>11, <2>0, HeaderRecordType DEF TypeOK, ProcessUnknown, Enters, Asserted, Loop, AnswerRecord
  <2>2. /\ UNCHANGED <<frames, hdrPos, hdrLen>> /\ gptr <= gptr' /\ gptr' \in Int
        /\ InCall' => InCall
        /\ pc' = "process" => pc = "process"
        /\ pc' = "values" => frames # <<>>
    BY <1>11 DEF TypeOK, HeaderInv, InCall, ProcessUnknown, Enters, Asserted, Loop
  <2> QED BY <2>1, <2>2, FramesKept, HeaderKept
<1>12. CASE ProcessContent
  <2>1. TypeOK'
    BY <1>12, HeaderRecordType DEF TypeOK, ProcessContent, Enters, Asserted, Loop
  <2>2. /\ UNCHANGED <<frames, hdrPos, hdrLen>> /\ gptr <= gptr' /\ gptr' \in Int
        /\ InCall' => InCall
        /\ pc' = "process" => pc = "process"
        /\ pc' = "values" => frames # <<>>
    BY <1>12 DEF TypeOK, HeaderInv, InCall, ProcessContent, Enters, Asserted, Loop
  <2> QED BY <2>1, <2>2, FramesKept, HeaderKept
<1>13. CASE ProcessUnexpected
  <2>0. answers' \in Seq(AnswerRecord)
    BY <1>13, AnswerType DEF TypeOK, AnswerRecord, ProcessUnexpected
  <2>1. TypeOK'
    BY <1>13, <2>0, HeaderRecordType DEF TypeOK, ProcessUnexpected, Enters, Returns, Nested, AnswerRecord
  <2>2. /\ UNCHANGED <<frames, hdrPos, hdrLen>> /\ gptr <= gptr' /\ gptr' \in Int
        /\ InCall' => InCall
        /\ pc' = "process" => pc = "process"
        /\ pc' = "values" => frames # <<>>
    BY <1>13 DEF TypeOK, HeaderInv, InCall, ProcessUnexpected, Enters, Returns, Nested
  <2> QED BY <2>1, <2>2, FramesKept, HeaderKept
<1>14. CASE Read
  <2>1. TypeOK'
    BY <1>14 DEF TypeOK, Read, Least
  <2>2. /\ UNCHANGED <<frames, hdrPos, hdrLen>> /\ gptr <= gptr' /\ gptr' \in Int
        /\ InCall' => InCall
        /\ pc' = "process" => pc = "process"
        /\ pc' = "values" => frames # <<>>
    BY <1>14 DEF TypeOK, HeaderInv, InCall, Read, Least
  <2> QED BY <2>1, <2>2, FramesKept, HeaderKept
<1>15. CASE ParametersRead
  <2>0. /\ type' \in Streams /\ eos' \in BOOLEAN /\ discard' \in BOOLEAN
        /\ unreadContent' \in 0..MaxContent /\ unreadPadding' \in 0..MaxPadding
        /\ ios' \in {"good", "eof", "bad"}
    <3>1. CASE Role = "authorizer"
      BY <1>15, <3>1 DEF TypeOK, ParametersRead
    <3>2. CASE Role # "authorizer"
      <4>1. /\ type' = "in" /\ eos' = FALSE /\ discard' = FALSE
            /\ unreadContent' = 0 /\ unreadPadding' = 0 /\ ios' = "good"
        BY <1>15, <3>2 DEF ParametersRead, ResetReader
      <4>2. 0 \in 0..MaxContent /\ 0 \in 0..MaxPadding
        OBVIOUS
      <4>3. eos' \in BOOLEAN /\ discard' \in BOOLEAN
        BY <4>1
      <4> QED BY <4>1, <4>2, <4>3 DEF Streams
    <3> QED BY <3>1, <3>2
  <2>1. TypeOK'
    BY <1>15, <2>0 DEF TypeOK, ParametersRead
  <2>2. /\ UNCHANGED <<frames, hdrPos, hdrLen>> /\ gptr <= gptr' /\ gptr' \in Int
        /\ InCall' => InCall
        /\ pc' = "process" => pc = "process"
        /\ pc' = "values" => frames # <<>>
    BY <1>15 DEF TypeOK, HeaderInv, InCall, ParametersRead, ResetReader, Streams
  <2> QED BY <2>1, <2>2, FramesKept, HeaderKept
<1>16. CASE ProcessEnd
  <2>0. /\ type' \in Streams /\ eos' \in BOOLEAN /\ discard' \in BOOLEAN
        /\ unreadContent' \in 0..MaxContent /\ unreadPadding' \in 0..MaxPadding
    <3>1. CASE Role = "filter" /\ type = "in"
      <4>1. /\ type' = "data" /\ eos' = FALSE /\ discard' = FALSE
            /\ unreadContent' = 0 /\ unreadPadding' = 0
        BY <1>16, <3>1 DEF ProcessEnd, ResetReader
      <4>2. 0 \in 0..MaxContent /\ 0 \in 0..MaxPadding
        OBVIOUS
      <4>3. eos' \in BOOLEAN /\ discard' \in BOOLEAN
        BY <4>1
      <4> QED BY <4>1, <4>2, <4>3 DEF Streams
    <3>2. CASE ~(Role = "filter" /\ type = "in")
      BY <1>16, <3>2, HeaderRecordType DEF TypeOK, ProcessEnd
    <3> QED BY <3>1, <3>2
  <2>1. TypeOK'
    BY <1>16, <2>0, HeaderRecordType DEF TypeOK, ProcessEnd, Returns, Nested
  <2>2. /\ UNCHANGED <<frames, hdrPos, hdrLen>> /\ gptr <= gptr' /\ gptr' \in Int
        /\ InCall' => InCall
        /\ pc' = "process" => pc = "process"
        /\ pc' = "values" => frames # <<>>
    BY <1>16 DEF TypeOK, HeaderInv, InCall, ProcessEnd, Returns, Nested, ResetReader, Streams
  <2> QED BY <2>1, <2>2, FramesKept, HeaderKept
<1> QED BY <1>1, <1>2, <1>3, <1>4, <1>5, <1>6, <1>7, <1>8, <1>9, <1>10, <1>11, <1>12, <1>13, <1>14, <1>15, <1>16

-----------------------------------------------------------------------------
LEMMA InnermostFrame ==
  ASSUME TypeInv, frames # <<>>
  PROVE  /\ Len(frames) \in Nat \ {0} /\ frames \in Seq(Frame)
         /\ Head(frames) = frames[1] /\ frames[1] \in Frame
         /\ frames[1].pos \in Nat /\ frames[1].len = HeaderSize
         /\ frames[1].header \in Record
         /\ frames[1].pos + HeaderSize <= gptr
<1>1. frames \in Seq(Frame) /\ Len(frames) \in Nat \ {0}
  <2>1. frames \in Seq(Frame)
    BY DEF TypeInv, TypeOK, Frame
  <2> QED BY <2>1, EmptySeq
<1>2. 1 \in 1..Len(frames)
  BY <1>1
<1>3. frames[1] \in Frame
  BY <1>1, <1>2
<1>4. frames[1].pos \in Nat /\ frames[1].header \in Record
  BY <1>3 DEF Frame
<1>5. frames[1].len = HeaderSize /\ frames[1].pos + HeaderSize <= gptr
  BY <1>2 DEF TypeInv, HeaderInv, RecursionConsumes
<1> QED BY <1>1, <1>3, <1>4, <1>5

LEMMA UnderflowTypeInv ==
  ASSUME TypeInv, Underflow
  PROVE  TypeInv'
<1> USE SizeAssumption DEF TypeInv, clientVars, recordVars, headerVars, ownerVars
<1>0. /\ pc' \in {"caller", "read", "body", "values"} /\ ios' \in {"good", "eof", "bad"}
      /\ hdrPos' \in 0..fetched /\ hdrLen' \in 0..HeaderSize
      /\ header' \in Record \cup {Invalid}
  <2>1. CASE eos
    BY <2>1 DEF TypeOK, Underflow, Returns, Nested
  <2>2. CASE ~eos
    BY <2>2 DEF TypeOK, Underflow, Loop
  <2> QED BY <2>1, <2>2 DEF TypeOK
<1>1. TypeOK'
  <2>1. UNCHANGED <<wire, phase, conn, type, eos, discard, gptr, egptr, fetched,
                    unreadContent, unreadPadding, frames, stage, delivered, answers>>
    BY DEF Underflow
  <2> QED BY <1>0, <2>1 DEF TypeOK
<1>2. UNCHANGED <<frames, gptr>> /\ gptr \in Nat /\ HeaderSize \in Nat
  BY DEF Underflow, TypeOK
<1>3. RecursionConsumes'
  BY <1>2 DEF RecursionConsumes
<1>4. HeaderInv'
  <2>1. CASE eos
    <3>1. UNCHANGED <<hdrPos, hdrLen>> /\ pc' \in {"caller", "values"}
          /\ (pc' = "values" => frames # <<>>)
      BY <2>1 DEF Underflow, Returns, Nested
    <3> QED BY <1>2, <3>1 DEF HeaderInv
  <2>2. CASE ~eos
    <3>1. hdrPos' = gptr /\ hdrLen' = 0 /\ pc' \in {"read", "body"}
      BY <2>2 DEF Underflow, Loop
    <3>2. frames # <<>> => frames[1].pos + HeaderSize <= gptr
      BY InnermostFrame
    <3> QED BY <1>2, <3>1, <3>2 DEF HeaderInv
  <2> QED BY <2>1, <2>2
<1> QED BY <1>1, <1>3, <1>4

LEMMA HeaderTypeInv ==
  ASSUME TypeInv, Header
  PROVE  TypeInv'
<1> USE SizeAssumption DEF TypeInv, clientVars, recordVars, headerVars, ownerVars
<1> DEFINE count == Least(HeaderSize - hdrLen, fetched - gptr)
<1>1. /\ count \in Nat /\ count <= HeaderSize - hdrLen /\ count <= fetched - gptr
  BY DEF TypeOK, Least
<1>2. /\ hdrPos' = IF hdrLen = 0 THEN gptr ELSE hdrPos
      /\ hdrLen' = hdrLen + count /\ gptr' = gptr + count
      /\ pc' = IF hdrLen + count < HeaderSize THEN "read" ELSE "process"
      /\ pc = "body" /\ UNCHANGED frames
  BY DEF Header
<1> HIDE DEF count
<1>3. gptr' \in 0..fetched /\ hdrPos' \in 0..fetched /\ hdrLen' \in 0..HeaderSize
  BY <1>1, <1>2 DEF TypeOK
<1>4. header' \in Record \cup {Invalid}
  <2>1. header' \in {header} \cup Readings(hdrPos' + 1)
    BY DEF Header
  <2>2. CASE header' \in Record \cup {header, Invalid}
    BY <2>2 DEF TypeOK
  <2>3. CASE header' = wire[hdrPos' + 1].rec /\ hdrPos' + 1 \in 1..Len(wire)
    <3>1. wire[hdrPos' + 1] \in Token
      BY <2>3 DEF TypeOK
    <3> QED BY <2>3, <3>1 DEF Token
  <2>4. header' # header => hdrPos' + 1 \in 1..Len(wire)
    <3>1. header' # header => hdrLen' >= HeaderSize
      BY <1>1, <1>2 DEF Header, TypeOK
    <3> QED BY <1>1, <1>2, <3>1 DEF TypeOK, HeaderInv
  <2> QED BY <2>1, <2>2, <2>3, <2>4 DEF Readings
<1>5. TypeOK'
  BY <1>2, <1>3, <1>4 DEF TypeOK, Header
<1>6. RecursionConsumes'
  BY <1>1, <1>2, FramesKept DEF TypeOK
<1>7. HeaderInv'
  <2>1. hdrPos' + hdrLen' <= gptr' /\ (pc' = "process" => hdrLen' = HeaderSize)
    BY <1>1, <1>2 DEF TypeOK, HeaderInv
  <2>2. pc' # "values" /\ \A i \in 1..Len(frames') : frames'[i].len = HeaderSize
    BY <1>2 DEF HeaderInv
  <2>3. frames # <<>> => frames[1].pos + HeaderSize <= hdrPos'
    BY <1>2, InnermostFrame DEF HeaderInv
  <2> QED BY <1>2, <2>1, <2>2, <2>3 DEF HeaderInv
<1> QED BY <1>5, <1>6, <1>7

LEMMA GetValuesTypeInv ==
  ASSUME TypeInv, ProcessGetValues
  PROVE  TypeInv'
<1> USE SizeAssumption DEF TypeInv, clientVars, recordVars, headerVars, ownerVars
<1> DEFINE new == [pos |-> hdrPos, len |-> hdrLen, header |-> header]
<1>1. /\ new \in Frame /\ new.pos = hdrPos /\ new.len = HeaderSize
      /\ hdrPos \in Nat /\ hdrPos + HeaderSize <= gptr
  BY HeaderRecordType DEF ProcessGetValues, TypeOK, HeaderInv, Frame
<1>2. frames \in Seq(Frame)
  BY DEF TypeOK, Frame
<1>3. /\ frames' = <<new>> \o frames /\ UNCHANGED <<gptr, hdrPos, hdrLen>>
      /\ pc = "process" /\ pc' = "caller"
  BY DEF ProcessGetValues
<1> HIDE DEF new
<1>4. /\ frames' \in Seq(Frame) /\ Len(frames') = Len(frames) + 1
      /\ frames'[1] = new
      /\ \A i \in 2..Len(frames') : i - 1 \in 1..Len(frames) /\ frames'[i] = frames[i - 1]
  BY <1>1, <1>2, <1>3
<1>5. TypeOK'
  BY <1>3, <1>4, HeaderRecordType DEF TypeOK, ProcessGetValues, Enters, Frame
<1>6. HeaderInv'
  <2>1. \A i \in 1..Len(frames') : frames'[i].len = HeaderSize
    <3>1. TAKE i \in 1..Len(frames')
    <3>2. CASE i = 1
      BY <1>1, <1>4, <3>2
    <3>3. CASE i # 1
      <4>1. i \in 2..Len(frames')
        BY <1>4, <3>3
      <4>2. i - 1 \in 1..Len(frames) /\ frames'[i] = frames[i - 1]
        BY <1>4, <4>1
      <4> QED BY <4>2 DEF HeaderInv
    <3> QED BY <3>2, <3>3
  <2> QED BY <1>3, <2>1 DEF HeaderInv
<1>7. RecursionConsumes'
  <2>1. ASSUME NEW k \in 1..Len(frames)
        PROVE  frames[k].pos \in Nat /\ frames[k].pos + HeaderSize <= hdrPos
    <3>1. frames[k] \in Frame
      BY <1>2
    <3>2. frames[k].pos \in Nat
      BY <3>1 DEF Frame
    <3>3. frames # <<>> /\ Len(frames) \in Nat
      BY <1>2
    <3>4. frames[1].pos + HeaderSize <= hdrPos /\ frames[1].pos \in Nat
      BY <1>3, <3>3, InnermostFrame DEF HeaderInv
    <3>5. k # 1 => frames[k].pos + HeaderSize <= frames[1].pos
      <4>1. k # 1 => 1 \in 1..(k - 1)
        BY <3>3
      <4> QED BY <4>1 DEF RecursionConsumes
    <3> QED BY <1>1, <3>2, <3>4, <3>5
  <2>2. ASSUME NEW i \in 1..Len(frames')
        PROVE  /\ frames'[i].pos + HeaderSize <= gptr'
               /\ \A j \in 1..(i - 1) :
                    frames'[i].pos + HeaderSize <= frames'[j].pos
    <3>1. CASE i = 1
      BY <1>1, <1>3, <1>4, <3>1
    <3>2. CASE i # 1
      <4>1. i \in 2..Len(frames') /\ i - 1 \in 1..Len(frames)
            /\ frames'[i] = frames[i - 1] /\ Len(frames) \in Nat
        BY <1>2, <1>4, <3>2
      <4>2. frames[i - 1].pos + HeaderSize <= hdrPos /\ frames[i - 1].pos \in Nat
        BY <2>1, <4>1
      <4>3. ASSUME NEW j \in 1..(i - 1)
            PROVE  frames'[i].pos + HeaderSize <= frames'[j].pos
        <5>1. CASE j = 1
          BY <1>1, <1>4, <4>1, <4>2, <5>1
        <5>2. CASE j # 1
          <6>1. j \in 2..Len(frames') /\ j - 1 \in 1..((i - 1) - 1)
            BY <4>1, <5>2
          <6>2. frames'[j] = frames[j - 1]
            BY <1>4, <6>1
          <6> QED BY <4>1, <6>1, <6>2 DEF RecursionConsumes
        <5> QED BY <5>1, <5>2
      <4>4. gptr \in Nat /\ HeaderSize \in Nat
        BY DEF TypeOK
      <4> QED BY <1>1, <1>3, <4>1, <4>2, <4>3, <4>4
    <3> QED BY <3>1, <3>2
  <2> QED BY <2>2 DEF RecursionConsumes
<1> QED BY <1>5, <1>6, <1>7

\* A call is left: the header of the call it was made from is the current one.
LEMMA LeavesFrameInv ==
  ASSUME TypeInv, pc = "values", LeavesFrame, UNCHANGED <<gptr, fetched>>,
         pc' # "process", pc' = "values" => Len(frames) > 1
  PROVE  /\ frames' \in Seq(Frame)
         /\ hdrPos' \in 0..fetched /\ hdrLen' \in 0..HeaderSize
         /\ header' \in Record /\ header' = frames[1].header
         /\ HeaderInv' /\ RecursionConsumes'
<1> USE SizeAssumption DEF TypeInv
<1>1. frames # <<>>
  BY DEF HeaderInv
<1>2. /\ Len(frames) \in Nat \ {0} /\ frames \in Seq(Frame)
      /\ frames' = Tail(frames) /\ hdrPos' = frames[1].pos /\ hdrLen' = HeaderSize
      /\ header' = frames[1].header /\ header' \in Record
      /\ frames[1].pos \in Nat /\ frames[1].pos + HeaderSize <= gptr
      /\ gptr \in Nat /\ fetched \in Nat /\ gptr <= fetched /\ HeaderSize \in Nat
  BY <1>1, InnermostFrame DEF LeavesFrame, TypeOK
<1>3. /\ frames' \in Seq(Frame) /\ Len(frames') = Len(frames) - 1
      /\ \A i \in 1..Len(frames') : i + 1 \in 1..Len(frames) /\ frames'[i] = frames[i + 1]
  BY <1>1, <1>2, HeadTailProperties
<1>4. ASSUME NEW i \in 1..Len(frames')
      PROVE  /\ frames'[i].len = HeaderSize
             /\ frames'[i].pos + HeaderSize <= gptr'
             /\ frames'[i].pos + HeaderSize <= hdrPos'
             /\ \A j \in 1..(i - 1) : frames'[i].pos + HeaderSize <= frames'[j].pos
  <2>1. i + 1 \in 1..Len(frames) /\ frames'[i] = frames[i + 1] /\ i \in Nat
    BY <1>2, <1>3
  <2>2. frames[i + 1].len = HeaderSize /\ frames[i + 1].pos + HeaderSize <= gptr
    BY <2>1 DEF HeaderInv, RecursionConsumes
  <2>3. ASSUME NEW j \in 1..i
        PROVE  frames[i + 1].pos + HeaderSize <= frames[j].pos
    <3>1. j \in 1..((i + 1) - 1)
      BY <2>1
    <3> QED BY <2>1, <3>1 DEF RecursionConsumes
  <2>4. \A j \in 1..(i - 1) : j + 1 \in 1..i /\ frames'[j] = frames[j + 1]
    BY <1>2, <1>3, <2>1
  <2>5. 1 \in 1..i
    BY <2>1
  <2> QED BY <1>2, <2>1, <2>2, <2>3, <2>4, <2>5
<1>5. RecursionConsumes'
  BY <1>4 DEF RecursionConsumes
<1>6. HeaderInv'
  <2>1. pc' = "values" => frames' # <<>>
    <3>1. pc' = "values" => Len(frames') # 0
      BY <1>2, <1>3
    <3> QED BY <3>1
  <2>2. frames' # <<>> => 1 \in 1..Len(frames')
    BY <1>3, EmptySeq
  <2>3. hdrPos' + hdrLen' <= gptr'
    BY <1>2
  <2> QED BY <1>4, <2>1, <2>2, <2>3 DEF HeaderInv
<1> QED BY <1>2, <1>3, <1>5, <1>6

LEMMA ValuesTypeInv ==
  ASSUME TypeInv, ValuesTruncated \/ ValuesUnread \/ ValuesAnswered
  PROVE  TypeInv'
<1> USE SizeAssumption DEF TypeInv, clientVars, recordVars, headerVars, ownerVars
<1>1. pc = "values" /\ LeavesFrame /\ UNCHANGED <<gptr, fetched, wire>>
  BY DEF ValuesTruncated, ValuesUnread, ValuesAnswered, ThrowsFromFrame
<1>2. frames # <<>> /\ Head(frames).pos \in Nat /\ Len(frames) \in Nat
  <2>1. frames # <<>>
    BY <1>1 DEF HeaderInv
  <2> QED BY <2>1, InnermostFrame
<1>3. /\ pc' \in {"caller", "values", "read", "body", "terminated"}
      /\ pc' = "values" => Len(frames) > 1
  BY DEF ValuesTruncated, ValuesUnread, ValuesAnswered, ThrowsFromFrame, Loop
<1>4. /\ frames' \in Seq(Frame)
      /\ hdrPos' \in 0..fetched /\ hdrLen' \in 0..HeaderSize /\ header' \in Record
      /\ HeaderInv' /\ RecursionConsumes'
  BY <1>1, <1>3, LeavesFrameInv
<1>5. answers' \in Seq(AnswerRecord)
  <2>1. CASE ValuesTruncated
    BY <2>1 DEF ValuesTruncated, TypeOK, AnswerRecord
  <2>2. CASE ValuesUnread
    BY <1>2, <2>2, AnswerType DEF ValuesUnread
  <2>3. CASE ValuesAnswered
    BY <1>2, <2>3, AnswerType DEF ValuesAnswered
  <2> QED BY <2>1, <2>2, <2>3
<1>6. ios' \in {"good", "eof", "bad"}
  BY DEF ValuesTruncated, ValuesUnread, ValuesAnswered, ThrowsFromFrame, TypeOK
<1>7. UNCHANGED <<wire, phase, conn, type, eos, discard, gptr, egptr, fetched,
                  unreadContent, unreadPadding, stage, delivered>>
  BY DEF ValuesTruncated, ValuesUnread, ValuesAnswered
<1>8. TypeOK'
  BY <1>1, <1>3, <1>4, <1>5, <1>6, <1>7 DEF TypeOK, Frame, AnswerRecord
<1> QED BY <1>4, <1>8

LEMMA OverflowTypeInv ==
  ASSUME TypeInv, ValuesOverflow
  PROVE  TypeInv'
<1> USE SizeAssumption DEF TypeInv, clientVars, recordVars, headerVars, ownerVars
<1>1. pc' = "terminated"
      /\ UNCHANGED <<wire, phase, conn, type, eos, discard, gptr, egptr, fetched,
                     unreadContent, unreadPadding, hdrPos, hdrLen, header, frames, stage, ios,
                     delivered, answers>>
  BY DEF ValuesOverflow
<1>2. TypeOK'
  BY <1>1 DEF TypeOK
<1>3. HeaderInv' /\ RecursionConsumes'
  BY <1>1 DEF HeaderInv, InCall, RecursionConsumes
<1> QED BY <1>2, <1>3

LEMMA AnswerFailsTypeInv ==
  ASSUME TypeInv, AnswerFails
  PROVE  TypeInv'
<1> USE SizeAssumption DEF TypeInv, clientVars, recordVars, headerVars, ownerVars
<1>1. UNCHANGED <<wire, phase, conn, type, eos, discard, gptr, fetched, stage,
                  delivered, answers>>
  BY DEF AnswerFails
<1>2. CASE pc = "process" /\ Valid /\ Enters /\ Returns("bad") /\ UNCHANGED <<headerVars, frames>>
  <2>1. TypeOK'
    BY <1>1, <1>2, HeaderRecordType DEF TypeOK, Enters, Returns, Nested
  <2>2. /\ UNCHANGED <<frames, hdrPos, hdrLen>> /\ gptr <= gptr' /\ gptr' \in Int
        /\ InCall' => InCall
        /\ pc' = "process" => pc = "process"
        /\ pc' = "values" => frames # <<>>
    BY <1>1, <1>2 DEF TypeOK, InCall, Returns, Nested
  <2> QED BY <2>1, <2>2, FramesKept, HeaderKept
<1>3. CASE pc = "values" /\ ThrowsFromFrame /\ UNCHANGED <<egptr, recordVars>>
  <2>1. pc' \in {"caller", "values"} /\ (pc' = "values" => Len(frames) > 1)
    BY <1>3 DEF ThrowsFromFrame
  <2>2. /\ frames' \in Seq(Frame)
        /\ hdrPos' \in 0..fetched /\ hdrLen' \in 0..HeaderSize /\ header' \in Record
        /\ HeaderInv' /\ RecursionConsumes'
    BY <1>1, <1>3, <2>1, LeavesFrameInv DEF ThrowsFromFrame
  <2>3. TypeOK'
    BY <1>1, <1>3, <2>1, <2>2 DEF TypeOK, Frame, ThrowsFromFrame
  <2> QED BY <2>2, <2>3
<1> QED BY <1>2, <1>3 DEF AnswerFails

-----------------------------------------------------------------------------
LEMMA InitTypeInv == Init => TypeInv
<1> SUFFICES ASSUME Init PROVE TypeInv
  OBVIOUS
<1>1. wire = <<>> /\ frames = <<>> /\ answers = <<>> /\ delivered = {}
  BY DEF Init
<1>2. /\ wire \in Seq(Token) /\ frames \in Seq(Frame) /\ answers \in Seq(AnswerRecord)
      /\ Len(wire) = 0 /\ Len(frames) = 0
  BY <1>1
<1>3. TypeOK
  <2>1. 0 \in 0..fetched /\ 0 \in 0..Len(wire) /\ 0 \in 0..MaxContent
        /\ 0 \in 0..MaxPadding /\ 0 \in 0..HeaderSize
    BY <1>2, SizeAssumption DEF Init
  <2>2. /\ phase \in Streams \cup {"done"} /\ type \in Streams
        /\ eos \in BOOLEAN /\ discard \in BOOLEAN
    BY DEF Init, Streams
  <2>3. delivered \subseteq (1..Len(wire)) \X Streams
    BY <1>1
  <2> QED BY <1>2, <2>1, <2>2, <2>3 DEF Init, TypeOK, Frame, AnswerRecord
<1>4. HeaderInv /\ RecursionConsumes
  BY <1>2 DEF Init, HeaderInv, RecursionConsumes
<1> QED BY <1>3, <1>4 DEF TypeInv

LEMMA StepTypeInv == TypeInv /\ [Next]_vars => TypeInv'
<1> SUFFICES ASSUME TypeInv, [Next]_vars PROVE TypeInv'
  OBVIOUS
<1>1. CASE Client
  BY <1>1, ClientTypeInv
<1>2. CASE Reader
  BY <1>2, HeadersKeptTypeInv, UnderflowTypeInv, HeaderTypeInv, GetValuesTypeInv,
     ValuesTypeInv, OverflowTypeInv, AnswerFailsTypeInv DEF Reader
<1>3. CASE Application
  BY <1>3, HeadersKeptTypeInv, UnderflowTypeInv DEF Application
<1>4. CASE UNCHANGED vars
  BY <1>4 DEF vars, clientVars, recordVars, headerVars, ownerVars, TypeInv, TypeOK,
              HeaderInv, RecursionConsumes
<1> QED BY <1>1, <1>2, <1>3, <1>4 DEF Next

\* Whatever the client sends, every variable keeps its type and no position of
\* the stream buffer lies beyond the bytes fetched (underflow(), 204-312).
THEOREM TypeCorrect == Spec => []TypeOK
<1>1. TypeInv => TypeOK
  BY DEF TypeInv
<1> QED BY <1>1, InitTypeInv, StepTypeInv, PTL DEF Spec

\* The recursion of underflow() through Names_values (561-565) goes forward on
\* the connection: its depth is bounded by the headers the client has sent.
THEOREM RecursionIsBounded == Spec => []RecursionConsumes
<1>1. TypeInv => RecursionConsumes
  BY DEF TypeInv
<1> QED BY <1>1, InitTypeInv, StepTypeInv, PTL DEF Spec

-----------------------------------------------------------------------------
\* Nothing that has been handed over lies beyond gptr().
DeliveredBehind == \A d \in delivered : d[1] <= gptr

\* gptr() never goes back, and what a step hands over lies between its old and
\* its new place.
LEMMA StepForward ==
  ASSUME TypeInv, [Next]_vars
  PROVE  /\ gptr \in Int /\ gptr' \in Int /\ gptr <= gptr'
         /\ \A d \in delivered' : d \notin delivered => gptr < d[1] /\ d[1] <= gptr'
<1>1. gptr \in Int /\ egptr \in Int /\ fetched \in Int /\ gptr <= fetched
  BY DEF TypeInv, TypeOK
<1>2. CASE Consume
  <2>1. PICK n \in 1..(egptr - gptr) :
          /\ gptr' = gptr + n
          /\ delivered' = delivered \cup {<<p, type>> : p \in gptr + 1 .. gptr + n}
    BY <1>2 DEF Consume
  <2>2. \A d \in delivered' : d \notin delivered =>
          \E p \in gptr + 1 .. gptr + n : d = <<p, type>>
    BY <2>1
  <2> QED BY <1>1, <2>1, <2>2
<1>3. CASE Read
  BY <1>1, <1>3 DEF Read
<1>4. CASE NestedConsume
  BY <1>1, <1>4 DEF NestedConsume
<1>5. CASE Header \/ Discard \/ Padding
  <2>1. gptr' \in Int /\ gptr <= gptr'
    <3>1. /\ fetched - gptr \in Nat /\ HeaderSize - hdrLen \in Nat
          /\ unreadContent \in Nat /\ unreadPadding \in Nat
      BY SizeAssumption DEF TypeInv, TypeOK
    <3>2. CASE Header
      BY <1>1, <3>1, <3>2 DEF Header, Least
    <3>3. CASE Discard
      BY <1>1, <3>1, <3>3 DEF Discard, Least
    <3>4. CASE Padding
      BY <1>1, <3>1, <3>4 DEF Padding, Least
    <3> QED BY <1>5, <3>2, <3>3, <3>4
  <2>2. delivered' = delivered
    BY <1>5 DEF Header, Discard, Padding
  <2> QED BY <1>1, <2>1, <2>2
<1>6. CASE UNCHANGED <<gptr, delivered>>
  BY <1>1, <1>6
<1>7. CASE Client
  <2>1. UNCHANGED readerVars
    BY <1>7 DEF Client, ClientPadsBegin, ClientSends, ClientEndsStream, ClientSendsForeign,
                ClientDisconnects, Write
  <2> QED BY <1>1, <2>1 DEF readerVars
<1>8. CASE (Reader \/ Application) /\ ~Consume /\ ~Read /\ ~NestedConsume
           /\ ~(Header \/ Discard \/ Padding)
  <2>1. UNCHANGED <<gptr, delivered>>
    BY <1>8 DEF Reader, Application, Underflow, ReadFails, Content, ProcessInvalid,
       ProcessDiscarded, ProcessUnknown, ProcessGetValues, ProcessContent, ProcessEnd,
       ProcessUnexpected, ValuesTruncated, ValuesUnread, ValuesAnswered, ValuesOverflow,
       AnswerFails, ParametersRead, ConstructorThrows, Clear
  <2> QED BY <1>6, <2>1
<1>9. CASE UNCHANGED vars
  BY <1>6, <1>9 DEF vars
<1> QED BY <1>2, <1>3, <1>4, <1>5, <1>7, <1>8, <1>9 DEF Next

\* Every byte reaches the caller once, behind all those it has before, also when
\* reads fail and the client sends what it likes (underflow(), 204-312).
THEOREM DeliveryIsInOrder == Spec => InOrderOnce
<1>1. Init => TypeInv /\ DeliveredBehind
  BY InitTypeInv DEF Init, DeliveredBehind
<1>2. TypeInv /\ DeliveredBehind /\ [Next]_vars => (TypeInv /\ DeliveredBehind)'
  <2> SUFFICES ASSUME TypeInv, DeliveredBehind, [Next]_vars
               PROVE  TypeInv' /\ DeliveredBehind'
    OBVIOUS
  <2>1. ASSUME NEW d \in delivered' PROVE d[1] <= gptr'
    <3>1. CASE d \in delivered
      <4>1. d[1] <= gptr /\ d[1] \in Int
        BY <3>1 DEF DeliveredBehind, TypeInv, TypeOK
      <4> QED BY <4>1, StepForward
    <3> QED BY <3>1, StepForward
  <2> QED BY <2>1, StepTypeInv DEF DeliveredBehind
<1>3. TypeInv /\ DeliveredBehind /\ [Next]_vars
      => [Consume => \A d \in delivered : d[1] <= gptr]_vars
  BY DEF DeliveredBehind
<1> QED BY <1>1, <1>2, <1>3, PTL DEF Spec, InOrderOnce

-----------------------------------------------------------------------------
(* What is handed over belongs to the stream. *)
LEMMA TokenType ==
  ASSUME TypeOK, NEW p \in 1..Len(wire)
  PROVE  /\ wire[p] \in Token /\ wire[p].rec \in Record /\ wire[p].off \in Nat \ {0}
         /\ wire[p].rec.clen \in Nat /\ wire[p].rec.plen \in Nat
         /\ wire[p].rec.clen <= MaxContent /\ wire[p].rec.plen <= MaxPadding
         /\ Size(wire[p].rec) \in Nat \ {0}
         /\ Size(wire[p].rec) = HeaderSize + wire[p].rec.clen + wire[p].rec.plen
         /\ HeaderSize <= Size(wire[p].rec)
<1>1. wire[p] \in Token
  BY DEF TypeOK
<1>2. wire[p].rec \in Record /\ wire[p].off \in Nat \ {0}
  BY <1>1, SizeAssumption DEF Token
<1> QED BY <1>1, <1>2, SizeAssumption DEF Record, Size

\* A record begins behind the first h bytes.
StartsRecord(h) == h + 1 \in 1..Len(wire) /\ wire[h + 1].off = 1

\* A record that has begun is there as a whole, byte by byte, and behind it the next begins.
WholeRecords ==
  \A h \in 0..(Len(wire) - 1) : wire[h + 1].off = 1 =>
    /\ h + Size(wire[h + 1].rec) <= Len(wire)
    /\ \A i \in 1..Size(wire[h + 1].rec) : wire[h + i] = [rec |-> wire[h + 1].rec, off |-> i]
    /\ h + Size(wire[h + 1].rec) = Len(wire) \/ StartsRecord(h + Size(wire[h + 1].rec))

\* What comes behind the first n bytes: nothing yet, a record, or padding that nobody skips.
Boundary(n) == n = Len(wire) \/ StartsRecord(n) \/ IsLeft(n + 1)

\* Such padding is among the first n bytes: the reader may have taken it for a header.
Astray(n) == \E p \in 1..n : IsLeft(p)

\* Byte p is what the application may be handed.
Deliverable(p) == wire[p].rec.kind \in {type, "unknown"} /\ IsContent(wire[p])

\* What unread_content_length_ counts from byte n on is the rest of such a content.
Announced(n) ==
  unreadContent > 0 =>
    \E h \in 0..n : /\ StartsRecord(h)
                    /\ wire[h + 1].rec.kind \in {type, "unknown"}
                    /\ unreadContent <= wire[h + 1].rec.clen
                    /\ n = h + HeaderSize + wire[h + 1].rec.clen - unreadContent

\* The header that `continue` leaves in place (294, 304, 308): its record is none whose content
\* the application may read, and what it announces is discarded.
Repeated ==
  /\ hdrLen = HeaderSize
  /\ \/ header.kind \in {"begin", "other", "get_values"}
     \/ header.kind = "unknown" /\ header.clen = 0
  /\ unreadContent > 0 => discard

\* The header, if any, is of the record that is being read, right before gptr, and what is
\* unread leads to where the next one begins.
Fresh ==
  /\ ~discard /\ ~eos /\ Announced(gptr)
  /\ unreadContent = 0 /\ hdrLen > 0 =>
       unreadPadding = 0 /\ gptr = hdrPos + hdrLen /\ StartsRecord(hdrPos)
  /\ unreadContent > 0 \/ hdrLen = 0 => Boundary(gptr + unreadContent + unreadPadding)
  /\ IF pc = "process" THEN unreadContent = 0 /\ header = wire[hdrPos + 1].rec
     ELSE unreadContent = 0 => hdrLen < HeaderSize

\* What the get area holds when the application has control.
Offered ==
  /\ ~discard /\ gptr <= egptr /\ (ios = "eof" => gptr = egptr)
  /\ Announced(egptr) /\ \A p \in gptr + 1 .. egptr : Deliverable(p)
  /\ Boundary(egptr + unreadContent + unreadPadding)
  /\ ios = "eof" \/ eos => Boundary(egptr)

\* Where a call of the application, which has not failed, stands.
AtTop ==
  ~Nested /\ ios # "bad" /\ ~Astray(gptr) =>
    /\ pc = "read" => gptr = fetched
    /\ pc = "caller" => Offered
    /\ pc \in {"read", "body", "process"} => Repeated \/ Fresh

\* The headers that wait on the stack of the recursion are those of get-values records.
Suspended == \A i \in 1..Len(frames) : frames[i].header.kind = "get_values"

\* Nothing reads behind an error.
InService == pc \in {"read", "body", "process", "values"} \/ Nested => ios = "good"

OwnInv == WholeRecords /\ AtTop /\ InService /\ Suspended /\ OnlyOwnRequest

-----------------------------------------------------------------------------
\* What the reader may have gone astray on stays behind it.
LEMMA AstrayStays ==
  ASSUME TypeInv, [Next]_vars, Len(wire') \in Nat, Len(wire) <= Len(wire'),
         \A p \in 1..Len(wire) : wire'[p] = wire[p], Astray(gptr)
  PROVE  Astray(gptr)'
<1>1. PICK p \in 1..gptr : IsLeft(p)
  BY DEF Astray
<1>2. p \in 1..gptr' /\ p \in 1..Len(wire') /\ wire'[p] = wire[p]
  BY <1>1, StepForward DEF IsLeft, TypeInv, TypeOK
<1>3. IsLeft(p)'
  BY <1>1, <1>2 DEF IsLeft, IsPadding
<1> QED BY <1>2, <1>3 DEF Astray

\* The steps of the reader and of the application.
LEMMA AstrayKept ==
  ASSUME TypeInv, [Next]_vars, UNCHANGED wire, ~Astray(gptr)'
  PROVE  ~Astray(gptr)
BY AstrayStays DEF TypeInv, TypeOK

\* Where the reader has not gone astray, the next byte is the first of a record.
LEMMA NextRecord ==
  ASSUME TypeInv, NEW n \in Nat, n < fetched, gptr' \in Nat, n < gptr', Boundary(n),
         ~Astray(gptr)', wire' = wire
  PROVE  StartsRecord(n)
<1>1. n < Len(wire)
  BY DEF TypeInv, TypeOK
<1>2. CASE IsLeft(n + 1)
  <2>1. n + 1 \in 1..gptr' /\ IsLeft(n + 1)'
    BY <1>2 DEF IsLeft
  <2> QED BY <2>1 DEF Astray
<1> QED BY <1>1, <1>2 DEF Boundary

\* Behind a record, and behind the header of one that ends a stream.
LEMMA BoundaryBehind ==
  ASSUME TypeInv, WholeRecords, NEW h \in Nat, StartsRecord(h)
  PROVE  /\ Boundary(h + Size(wire[h + 1].rec))
         /\ (wire[h + 1].rec.kind \in Streams /\ wire[h + 1].rec.clen = 0)
              => Boundary(h + HeaderSize)
<1> DEFINE r == wire[h + 1].rec
<1>1. /\ h + 1 \in 1..Len(wire) /\ wire[h + 1].off = 1 /\ Len(wire) \in Nat
      /\ HeaderSize \in Nat
  BY SizeAssumption DEF StartsRecord, TypeInv, TypeOK
<1>2. r.clen \in Nat /\ r.plen \in Nat /\ Size(r) = HeaderSize + r.clen + r.plen
  BY <1>1, TokenType DEF TypeInv
<1>3. /\ h + Size(r) <= Len(wire)
      /\ \A k \in 1..Size(r) : wire[h + k] = [rec |-> r, off |-> k]
      /\ h + Size(r) = Len(wire) \/ StartsRecord(h + Size(r))
  <2>1. h \in 0 .. Len(wire) - 1
    BY <1>1
  <2> QED BY <1>1, <2>1 DEF WholeRecords
<1> HIDE DEF r
<1>4. ASSUME r.kind \in Streams, r.clen = 0 PROVE Boundary(h + HeaderSize)
  <2>1. CASE r.plen = 0
    <3>1. h + HeaderSize = h + Size(r)
      BY <1>1, <1>2, <1>4, <2>1
    <3> QED BY <1>3, <3>1 DEF Boundary
  <2>2. CASE r.plen # 0
    <3>1. HeaderSize + 1 \in 1..Size(r) /\ h + (HeaderSize + 1) \in 1..Len(wire)
      BY <1>1, <1>2, <1>3, <1>4, <2>2
    <3>2. wire[h + (HeaderSize + 1)] = [rec |-> r, off |-> HeaderSize + 1]
      BY <1>3, <3>1
    <3>3. IsLeft(h + (HeaderSize + 1))
      BY <1>1, <1>4, <3>1, <3>2 DEF IsLeft, IsPadding
    <3>4. h + (HeaderSize + 1) = (h + HeaderSize) + 1
      BY <1>1
    <3> QED BY <3>3, <3>4 DEF Boundary
  <2> QED BY <2>1, <2>2
<1> QED BY <1>3, <1>4 DEF Boundary, r

LEMMA ContentAt ==
  ASSUME TypeInv, WholeRecords, NEW h \in Nat, StartsRecord(h),
         NEW p \in h + HeaderSize + 1 .. h + HeaderSize + wire[h + 1].rec.clen
  PROVE  p \in 1..Len(wire) /\ wire[p].rec = wire[h + 1].rec /\ IsContent(wire[p])
<1> DEFINE r == wire[h + 1].rec
           i == p - h
<1>1. /\ h + 1 \in 1..Len(wire) /\ wire[h + 1].off = 1 /\ Len(wire) \in Nat
      /\ r.clen \in Nat /\ r.plen \in Nat /\ Size(r) = HeaderSize + r.clen + r.plen
      /\ HeaderSize \in Nat
  <2>1. h + 1 \in 1..Len(wire) /\ wire[h + 1].off = 1 /\ Len(wire) \in Nat
    BY DEF StartsRecord, TypeInv, TypeOK
  <2>2. r.clen \in Nat /\ r.plen \in Nat /\ Size(r) = HeaderSize + r.clen + r.plen
    BY <2>1, TokenType DEF TypeInv
  <2> QED BY <2>1, <2>2, SizeAssumption
<1>2. h \in 0 .. Len(wire) - 1
  BY <1>1
<1>3. h + Size(r) <= Len(wire) /\ \A k \in 1..Size(r) : wire[h + k] = [rec |-> r, off |-> k]
  BY <1>1, <1>2 DEF WholeRecords
<1>4. p \in Int /\ h + HeaderSize + 1 <= p /\ p <= h + HeaderSize + r.clen
  BY <1>1
<1> HIDE DEF r
<1>5. i \in 1..Size(r) /\ h + i = p /\ HeaderSize < i /\ i <= HeaderSize + r.clen
  BY <1>1, <1>4
<1>6. wire[p] = [rec |-> r, off |-> i]
  <2> HIDE DEF i
  <2> QED BY <1>3, <1>5
<1>7. p \in 1..Len(wire)
  BY <1>1, <1>3, <1>4
<1> QED BY <1>5, <1>6, <1>7 DEF IsContent, r

\* The content that is announced is what the next bytes are.
LEMMA AnnouncedContent ==
  ASSUME TypeInv, WholeRecords, NEW n \in Nat, Announced(n),
         NEW count \in 0..unreadContent, NEW p \in n + 1 .. n + count
  PROVE  Deliverable(p)
<1>1. unreadContent \in Nat /\ HeaderSize \in Nat
  BY SizeAssumption DEF TypeInv, TypeOK
<1>2. unreadContent > 0
  BY <1>1
<1>3. PICK h \in 0..n : /\ StartsRecord(h)
                        /\ wire[h + 1].rec.kind \in {type, "unknown"}
                        /\ unreadContent <= wire[h + 1].rec.clen
                        /\ n = h + HeaderSize + wire[h + 1].rec.clen - unreadContent
  BY <1>2 DEF Announced
<1>4. wire[h + 1].rec.clen \in Nat
  BY <1>3, TokenType DEF StartsRecord, TypeInv
<1>5. p \in h + HeaderSize + 1 .. h + HeaderSize + wire[h + 1].rec.clen
  <2> DEFINE c == wire[h + 1].rec.clen
  <2>1. c \in Nat /\ unreadContent <= c /\ n = h + HeaderSize + c - unreadContent
    BY <1>3, <1>4
  <2> HIDE DEF c
  <2>2. p \in h + HeaderSize + 1 .. h + HeaderSize + c
    BY <1>1, <2>1
  <2> QED BY <2>2 DEF c
<1> QED BY <1>3, <1>5, ContentAt DEF Deliverable

\* The rest of what has been announced is.
LEMMA AnnouncedRest ==
  ASSUME TypeInv, NEW n \in Nat, Announced(n), NEW count \in 0..unreadContent,
         UNCHANGED <<wire, type>>, unreadContent' = unreadContent - count
  PROVE  Announced(n + count)'
<1>1. unreadContent \in Nat /\ HeaderSize \in Nat
  BY SizeAssumption DEF TypeInv, TypeOK
<1> SUFFICES ASSUME unreadContent' > 0
             PROVE  \E h \in 0 .. n + count :
                      /\ StartsRecord(h)
                      /\ wire[h + 1].rec.kind \in {type, "unknown"}
                      /\ unreadContent' <= wire[h + 1].rec.clen
                      /\ n + count = h + HeaderSize + wire[h + 1].rec.clen - unreadContent'
  BY DEF Announced, StartsRecord
<1>2. PICK h \in 0..n : /\ StartsRecord(h)
                        /\ wire[h + 1].rec.kind \in {type, "unknown"}
                        /\ unreadContent <= wire[h + 1].rec.clen
                        /\ n = h + HeaderSize + wire[h + 1].rec.clen - unreadContent
  BY <1>1 DEF Announced
<1>3. wire[h + 1].rec.clen \in Nat
  BY <1>2, TokenType DEF StartsRecord, TypeInv
<1> QED BY <1>1, <1>2, <1>3

LEMMA OwnCounters ==
  ASSUME TypeInv
  PROVE  /\ gptr \in Nat /\ egptr \in Nat /\ fetched \in Nat /\ gptr <= fetched /\ egptr <= fetched
         /\ unreadContent \in Nat /\ unreadPadding \in Nat /\ hdrPos \in Nat /\ hdrLen \in Nat
         /\ hdrLen <= HeaderSize /\ HeaderSize \in Nat \ {0} /\ Len(wire) \in Nat
         /\ fetched <= Len(wire)
BY SizeAssumption DEF TypeInv, TypeOK

LEMMA OwnNumbers ==
  ASSUME TypeInv
  PROVE  /\ gptr \in Nat /\ egptr \in Nat /\ fetched \in Nat /\ gptr <= fetched /\ egptr <= fetched
         /\ unreadContent \in Nat /\ unreadPadding \in Nat /\ hdrPos \in Nat /\ hdrLen \in Nat
         /\ hdrLen <= HeaderSize /\ HeaderSize \in Nat \ {0} /\ Len(wire) \in Nat
         /\ fetched <= Len(wire)
         /\ Least(unreadContent, fetched - gptr) \in 0..unreadContent
         /\ Least(unreadContent, fetched - gptr) <= fetched - gptr
         /\ (Least(unreadContent, fetched - gptr) < unreadContent =>
               Least(unreadContent, fetched - gptr) = fetched - gptr)
         /\ Least(unreadPadding, fetched - gptr) \in 0..unreadPadding
         /\ (Least(unreadPadding, fetched - gptr) < unreadPadding =>
               Least(unreadPadding, fetched - gptr) = fetched - gptr)
         /\ Least(HeaderSize - hdrLen, fetched - gptr) \in 0 .. HeaderSize - hdrLen
         /\ (hdrLen + Least(HeaderSize - hdrLen, fetched - gptr) < HeaderSize =>
               Least(HeaderSize - hdrLen, fetched - gptr) = fetched - gptr)
<1>1. /\ gptr \in Nat /\ egptr \in Nat /\ fetched \in Nat /\ gptr <= fetched /\ egptr <= fetched
      /\ unreadContent \in Nat /\ unreadPadding \in Nat /\ hdrPos \in Nat /\ hdrLen \in Nat
      /\ hdrLen <= HeaderSize /\ HeaderSize \in Nat \ {0} /\ Len(wire) \in Nat
      /\ fetched <= Len(wire)
  BY OwnCounters
<1>2. fetched - gptr \in Nat /\ HeaderSize - hdrLen \in Nat
  BY <1>1
<1>3. \A a, b \in Nat : /\ Least(a, b) \in 0..a /\ Least(a, b) <= b
                        /\ Least(a, b) < a => Least(a, b) = b
  BY DEF Least
<1>4. \A a \in Nat : /\ Least(a, fetched - gptr) \in 0..a
                     /\ Least(a, fetched - gptr) <= fetched - gptr
                     /\ Least(a, fetched - gptr) < a => Least(a, fetched - gptr) = fetched - gptr
  BY <1>2, <1>3
<1>5. /\ Least(HeaderSize - hdrLen, fetched - gptr) \in 0 .. HeaderSize - hdrLen
      /\ hdrLen + Least(HeaderSize - hdrLen, fetched - gptr) < HeaderSize =>
           Least(HeaderSize - hdrLen, fetched - gptr) = fetched - gptr
  <2>1. PICK a \in Nat : a = HeaderSize - hdrLen
    BY <1>2
  <2>2. /\ Least(a, fetched - gptr) \in 0..a
        /\ Least(a, fetched - gptr) < a => Least(a, fetched - gptr) = fetched - gptr
    BY <1>4
  <2> QED BY <1>1, <2>1, <2>2
<1>6. /\ Least(unreadContent, fetched - gptr) \in 0..unreadContent
      /\ Least(unreadContent, fetched - gptr) <= fetched - gptr
      /\ Least(unreadContent, fetched - gptr) < unreadContent =>
           Least(unreadContent, fetched - gptr) = fetched - gptr
  BY <1>1, <1>4
<1>7. /\ Least(unreadPadding, fetched - gptr) \in 0..unreadPadding
      /\ Least(unreadPadding, fetched - gptr) < unreadPadding =>
           Least(unreadPadding, fetched - gptr) = fetched - gptr
  BY <1>1, <1>4
<1> QED BY <1>1, <1>5, <1>6, <1>7

\* What a call that the application has made may not do.
LEMMA ContentOwn ==
  ASSUME TypeInv, OwnInv, [Next]_vars, Content
  PROVE  OwnInv'
<1>1. PICK n \in Nat, count \in 0..unreadContent, m \in Nat :
        /\ n = gptr /\ m = n + count
        /\ unreadContent' = unreadContent - count /\ egptr' = m
  <2>1. /\ Least(unreadContent, fetched - gptr) \in 0..unreadContent
        /\ unreadContent \in Nat /\ gptr \in Nat
    BY OwnNumbers
  <2>2. /\ unreadContent' = unreadContent - Least(unreadContent, fetched - gptr)
        /\ egptr' = gptr + Least(unreadContent, fetched - gptr)
    BY DEF Content
  <2>3. gptr + Least(unreadContent, fetched - gptr) \in Nat
    BY <2>1
  <2> QED BY <2>1, <2>2, <2>3
<1>2. /\ pc = "body" /\ unreadContent > 0 /\ ~discard /\ unreadContent \in Nat
      /\ pc' \in {"caller", "terminated"}
      /\ UNCHANGED <<wire, type, eos, discard, gptr, fetched, unreadPadding, frames, ios, delivered>>
  BY OwnCounters DEF Content, Asserted, clientVars, ownerVars
<1>3. AtTop'
  <2> SUFFICES ASSUME ~Nested, pc' = "caller", ~Astray(gptr)' PROVE Offered'
    BY <1>2 DEF AtTop, Nested
  <2>1. Fresh /\ ios = "good"
    BY <1>2, AstrayKept DEF OwnInv, InService, AtTop, Repeated
  <2>2. Announced(n)
    BY <1>1, <2>1 DEF Fresh
  <2>3. Announced(n + count)'
    BY <1>1, <1>2, <2>2, AnnouncedRest
  <2>4. Announced(m)'
    BY <1>1, <2>3, Zenon
  <2>5. \A p \in n + 1 .. n + count : Deliverable(p)
    BY <1>1, <2>2, AnnouncedContent DEF OwnInv
  <2>6. \A p \in n + 1 .. m : Deliverable(p)'
    BY <1>1, <1>2, <2>5 DEF Deliverable
  <2>7. egptr' = m /\ gptr' = n /\ n <= m
    BY <1>1, <1>2
  <2>8. Boundary(egptr + unreadContent + unreadPadding)'
    <3>1. (egptr + unreadContent + unreadPadding)' = gptr + unreadContent + unreadPadding
      BY <1>1, <1>2, OwnCounters
    <3>2. Boundary(gptr + unreadContent + unreadPadding)
      BY <1>2, <2>1 DEF Fresh
    <3> QED BY <1>2, <3>1, <3>2 DEF Boundary, StartsRecord, IsLeft
  <2>9. ~eos' /\ ios' = "good"
    BY <1>2, <2>1 DEF Fresh
  <2> QED BY <1>2, <2>1, <2>4, <2>6, <2>7, <2>8, <2>9 DEF Offered
<1> QED BY <1>2, <1>3 DEF OwnInv, WholeRecords, InService, Suspended, Nested, StartsRecord,
                          OnlyOwnRequest, IsOwnContent, IsLeft

\* Steps that hand nothing over, and after which no call goes on: the application's istream is bad.
LEMMA ThrownOwn ==
  ASSUME TypeInv, OwnInv, UNCHANGED <<wire, delivered>>,
         \/ Nested' /\ ios' = "good" /\ frames' = frames
         \/ pc' = "caller" /\ ios' = "bad" /\ frames' = <<>>
  PROVE  OwnInv'
<1>1. AtTop' /\ InService'
  BY DEF AtTop, InService, Nested
<1>2. Suspended'
  <2>1. CASE frames' = frames
    BY <2>1 DEF OwnInv, Suspended
  <2>2. CASE frames' = <<>>
    <3>1. Len(frames') = 0
      BY <2>2
    <3> QED BY <3>1 DEF Suspended
  <2> QED BY <2>1, <2>2
<1> QED BY <1>1, <1>2 DEF OwnInv, WholeRecords, StartsRecord, OnlyOwnRequest, IsOwnContent, IsLeft

\* A call of the application goes on.
LEMMA GoesOnOwn ==
  ASSUME TypeInv, OwnInv, UNCHANGED <<wire, delivered, frames, ios>>, ~Nested, ios = "good",
         pc' \in {"read", "body", "process", "terminated"},
         pc' = "read" /\ ~Astray(gptr)' => gptr' = fetched',
         pc' # "terminated" /\ ~Astray(gptr)' => Repeated' \/ Fresh'
  PROVE  OwnInv'
<1>1. AtTop' /\ InService'
  BY DEF AtTop, InService, Nested
<1> QED BY <1>1 DEF OwnInv, WholeRecords, Suspended, StartsRecord, OnlyOwnRequest, IsOwnContent, IsLeft

LEMMA LoopReads ==
  ASSUME NEW next, next = Loop(gptr)
  PROVE  next \in {"read", "body"} /\ (next = "read" => gptr = fetched)
BY DEF Loop

\* A header that has been read is that of the next record.
LEMMA ProcessOwn ==
  ASSUME TypeInv, OwnInv, [Next]_vars,
         \/ ProcessInvalid \/ ProcessDiscarded \/ ProcessUnknown \/ ProcessContent
         \/ ProcessEnd \/ ProcessUnexpected
  PROVE  OwnInv'
<1>1. /\ pc = "process" /\ ios = "good" /\ hdrLen = HeaderSize
      /\ UNCHANGED <<wire, delivered, frames, gptr, fetched, hdrPos, hdrLen, header>>
  BY DEF ProcessInvalid, ProcessDiscarded, ProcessUnknown, ProcessContent,
     ProcessEnd, ProcessUnexpected, clientVars, headerVars, OwnInv, InService, TypeInv, HeaderInv
<1>2. CASE Nested
  <2>1. ios' = ios
    BY <1>2 DEF ProcessInvalid, ProcessDiscarded, ProcessUnknown, ProcessContent,
       ProcessEnd, ProcessUnexpected, ownerVars, Returns
  <2> QED BY <1>1, <1>2, <2>1, ThrownOwn DEF Nested
<1>3. CASE ~Nested
  <2>1. ~Astray(gptr)' => Repeated \/ Fresh
    BY <1>1, <1>3, AstrayKept DEF OwnInv, AtTop
  <2>2. Fresh => /\ gptr = hdrPos + HeaderSize /\ unreadContent = 0 /\ StartsRecord(hdrPos)
                 /\ header = wire[hdrPos + 1].rec /\ ~eos
    BY <1>1, SizeAssumption DEF Fresh
  <2>3. CASE ProcessInvalid \/ ProcessUnexpected
    BY <1>1, <1>3, <2>3, ThrownOwn DEF ProcessInvalid, ProcessUnexpected, Returns, Nested
  <2>4. CASE ProcessDiscarded
    <3>1. /\ header'.kind \in {"begin", "other"} /\ discard' = TRUE /\ ios' = ios
          /\ pc' \in {"terminated", Loop(gptr)}
      BY <1>1, <2>4 DEF ProcessDiscarded, Asserted, ownerVars
    <3>2. Repeated'
      BY <1>1, <3>1 DEF Repeated
    <3> QED BY <1>1, <1>3, <3>1, <3>2, LoopReads, GoesOnOwn
  <2>5. CASE ProcessUnknown \/ ProcessContent
    <3>1. /\ Valid /\ header.kind \in {type, "unknown"} /\ UNCHANGED <<type, eos, discard>>
          /\ unreadContent' = header.clen /\ unreadPadding' = header.plen /\ ios' = ios
          /\ pc' \in {"terminated", Loop(gptr)}
          /\ header.clen = 0 => header.kind = "unknown"
      BY <1>1, <2>5 DEF ProcessUnknown, ProcessContent, Asserted, Enters, ownerVars
    <3>2. CASE header.clen = 0
      <4>1. Repeated'
        BY <1>1, <3>1, <3>2 DEF Repeated
      <4> QED BY <1>1, <1>3, <3>1, <4>1, LoopReads, GoesOnOwn
    <3>3. CASE header.clen # 0
      <4>1. ASSUME ~Astray(gptr)' PROVE Fresh'
        <5>1. Fresh
          BY <2>1, <3>1, <3>3, <4>1 DEF Repeated, TypeInv, TypeOK, Streams
        <5>2. /\ gptr' = hdrPos + HeaderSize /\ hdrPos \in Nat /\ hdrPos \in 0..gptr'
              /\ header.clen \in Nat /\ header.plen \in Nat /\ HeaderSize \in Nat
              /\ StartsRecord(hdrPos) /\ header = wire[hdrPos + 1].rec
          BY <1>1, <2>2, <3>1, <5>1, HeaderRecordType, OwnCounters
        <5>3. Announced(gptr)'
          <6>1. gptr' = hdrPos + HeaderSize + header.clen - unreadContent'
            BY <3>1, <5>2
          <6> QED BY <1>1, <3>1, <5>2, <6>1 DEF Announced, StartsRecord
        <5>4. Boundary(gptr + unreadContent + unreadPadding)'
          <6>1. (gptr + unreadContent + unreadPadding)' = hdrPos + Size(header)
            BY <3>1, <5>2 DEF Size
          <6>2. Boundary(hdrPos + Size(header))
            BY <5>2, BoundaryBehind DEF OwnInv
          <6> QED BY <1>1, <6>1, <6>2 DEF Boundary, StartsRecord, IsLeft
        <5> QED BY <1>1, <3>1, <3>3, <5>1, <5>3, <5>4, <5>2 DEF Fresh, Loop
      <4> QED BY <1>1, <1>3, <3>1, <4>1, LoopReads, GoesOnOwn
    <3> QED BY <3>2, <3>3
  <2>6. CASE ProcessEnd
    <3>1. pc' = "caller" /\ egptr' = gptr' /\ gptr \in Nat /\ ios' = "eof"
      BY <1>1, <1>3, <2>6, OwnCounters DEF ProcessEnd, Returns
    <3>2. ASSUME ~Astray(gptr)' PROVE Offered'
      <4>1. Fresh
        BY <2>1, <2>6, <3>2 DEF ProcessEnd, Repeated, TypeInv, TypeOK, Streams
      <4>2. ~discard' /\ unreadContent' = 0 /\ unreadPadding' \in {0, header.plen}
        BY <2>6, <4>1 DEF ProcessEnd, ResetReader, Fresh
      <4>3. /\ StartsRecord(hdrPos) /\ header = wire[hdrPos + 1].rec /\ hdrPos \in Nat
            /\ header.kind \in Streams /\ header.clen = 0 /\ header.plen \in Nat
            /\ gptr = hdrPos + HeaderSize
        BY <2>2, <2>6, <4>1, HeaderRecordType, OwnCounters DEF ProcessEnd, TypeInv, TypeOK
      <4>4. Boundary(hdrPos + Size(header)) /\ Boundary(hdrPos + HeaderSize)
        BY <4>3, BoundaryBehind DEF OwnInv
      <4>5. Boundary(egptr)'
        BY <1>1, <3>1, <4>3, <4>4 DEF Boundary, StartsRecord, IsLeft
      <4>6. Boundary(egptr + unreadContent + unreadPadding)'
        <5>1. (egptr + unreadContent + unreadPadding)' \in {egptr', hdrPos + Size(header)}
          BY <1>1, <3>1, <4>2, <4>3, OwnCounters DEF Size
        <5> QED BY <1>1, <4>4, <4>5, <5>1 DEF Boundary, StartsRecord, IsLeft
      <4> QED BY <1>1, <3>1, <4>2, <4>5, <4>6 DEF Offered, Announced
    <3>3. AtTop' /\ InService'
      BY <1>1, <1>3, <3>1, <3>2 DEF AtTop, InService, Nested
    <3> QED BY <1>1, <3>3 DEF OwnInv, WholeRecords, Suspended, StartsRecord, OnlyOwnRequest,
                              IsOwnContent, IsLeft
  <2> QED BY <2>3, <2>4, <2>5, <2>6
<1> QED BY <1>2, <1>3

LEMMA TakenOwn ==
  ASSUME TypeInv, OwnInv, [Next]_vars, Read \/ Discard \/ Padding \/ Header
  PROVE  OwnInv'
<1>1. /\ pc \in {"read", "body"} /\ ios = "good"
      /\ UNCHANGED <<wire, type, eos, frames, ios, delivered>>
  BY DEF Read, Discard, Padding, Header, OwnInv, InService, clientVars, ownerVars
<1>2. CASE Nested
  BY <1>1, <1>2, ThrownOwn DEF Nested
<1>3. CASE ~Nested
  <2>1. ~Astray(gptr)' => (pc = "read" => gptr = fetched) /\ (Repeated \/ Fresh)
    BY <1>1, <1>3, AstrayKept DEF OwnInv, AtTop
  <2>2. CASE Read
    <3>1. /\ pc = "read" /\ pc' = "body" /\ gptr' = fetched
          /\ UNCHANGED <<discard, unreadContent, unreadPadding, hdrPos, hdrLen, header>>
      BY <2>2 DEF Read, recordVars, headerVars
    <3>2. (Repeated => Repeated') /\ (Fresh /\ gptr = fetched => Fresh')
      BY <1>1, <3>1 DEF Repeated, Fresh, Announced, StartsRecord, Boundary, IsLeft
    <3> QED BY <1>1, <1>3, <2>1, <3>1, <3>2, GoesOnOwn
  <2>3. CASE Discard
    <3>1. PICK count \in 0..unreadContent :
            /\ unreadContent' = unreadContent - count /\ gptr' = gptr + count
            /\ discard' = (count < unreadContent)
            /\ pc' = IF count < unreadContent THEN "read" ELSE "body"
            /\ count < unreadContent => count = fetched - gptr
      BY <2>3, OwnNumbers DEF Discard
    <3>2. UNCHANGED <<fetched, hdrPos, hdrLen, header>> /\ unreadContent > 0 /\ discard
      BY <2>3 DEF Discard, headerVars
    <3>3. pc' \in {"read", "body"} /\ (pc' = "read" => gptr' = fetched')
      BY <3>1, <3>2, OwnCounters
    <3>4. ASSUME ~Astray(gptr)' PROVE Repeated'
      <4>1. Repeated
        BY <2>1, <3>2, <3>4 DEF Fresh
      <4>2. unreadContent' > 0 => count < unreadContent
        BY <3>1, OwnCounters
      <4>3. count < unreadContent => discard'
        BY <3>1, Zenon
      <4> QED BY <3>2, <4>1, <4>2, <4>3 DEF Repeated
    <3> QED BY <1>1, <1>3, <3>3, <3>4, GoesOnOwn
  <2>4. CASE Padding
    <3>1. PICK count \in 0..unreadPadding :
            /\ unreadPadding' = unreadPadding - count /\ gptr' = gptr + count
            /\ pc' = IF count < unreadPadding THEN "read" ELSE "body"
            /\ count < unreadPadding => count = fetched - gptr
      BY <2>4, OwnNumbers DEF Padding
    <3>2. /\ UNCHANGED <<discard, unreadContent, fetched, hdrPos, hdrLen, header>>
          /\ unreadContent = 0 /\ unreadPadding > 0
      BY <2>4 DEF Padding, headerVars
    <3>3. pc' \in {"read", "body"} /\ (pc' = "read" => gptr' = fetched')
      BY <3>1, <3>2, OwnCounters
    <3>4. Repeated => Repeated'
      BY <3>2 DEF Repeated
    <3>5. Fresh => Fresh'
      <4>1. (gptr + unreadContent + unreadPadding)' = gptr + unreadContent + unreadPadding
        BY <3>1, <3>2, OwnCounters
      <4>2. Boundary(gptr + unreadContent + unreadPadding)
              => Boundary(gptr + unreadContent + unreadPadding)'
        BY <1>1, <4>1 DEF Boundary, StartsRecord, IsLeft
      <4>3. pc = "body" /\ unreadContent' = 0
        BY <2>4, <3>2 DEF Padding
      <4> QED BY <1>1, <3>2, <3>3, <4>2, <4>3, OwnCounters DEF Fresh, Announced
    <3> QED BY <1>1, <1>3, <2>1, <3>3, <3>4, <3>5, GoesOnOwn
  <2>5. CASE Header
    <3>1. PICK count \in 0 .. HeaderSize - hdrLen :
            /\ hdrPos' = IF hdrLen = 0 THEN gptr ELSE hdrPos
            /\ hdrLen' = hdrLen + count /\ gptr' = gptr + count
            /\ pc' = IF hdrLen + count < HeaderSize THEN "read" ELSE "process"
            /\ hdrLen + count < HeaderSize => count = fetched - gptr
      BY <2>5, OwnNumbers DEF Header
    <3>2. /\ UNCHANGED <<discard, unreadContent, unreadPadding, fetched>>
          /\ unreadContent = 0 /\ unreadPadding = 0
      BY <2>5 DEF Header, recordVars
    <3>3. pc' \in {"read", "process"} /\ (pc' = "read" => gptr' = fetched')
      BY <3>1, <3>2, OwnCounters
    <3>4. Repeated => Repeated'
      <4>1. HeaderSize \in Nat \ {0}
        BY OwnCounters
      <4>2. hdrLen = HeaderSize => hdrLen' = HeaderSize /\ header' = header
        BY <2>5, <4>1 DEF Header, Least, TypeInv, TypeOK
      <4> QED BY <3>2, <4>2 DEF Repeated
    <3>5. ASSUME Fresh, ~Astray(gptr)' PROVE Fresh'
      <4>1. gptr' = hdrPos' + hdrLen' /\ gptr' \in Nat /\ hdrLen < HeaderSize
        <5>1. /\ hdrLen < HeaderSize /\ (hdrLen > 0 => gptr = hdrPos + hdrLen)
          BY <2>5, <3>2, <3>5 DEF Fresh, Header
        <5>2. hdrLen = 0 \/ hdrLen > 0
          BY OwnCounters
        <5>3. gptr' \in Nat
          BY <3>1, OwnCounters
        <5>4. CASE hdrLen = 0
          BY <3>1, <5>4, OwnCounters
        <5>5. CASE hdrLen > 0
          <6>1. gptr = hdrPos + hdrLen /\ hdrPos' = hdrPos
            BY <3>1, <5>1, <5>5
          <6>2. hdrPos \in Nat /\ hdrLen \in Nat /\ count \in Nat
            BY OwnCounters
          <6> QED BY <3>1, <5>1, <5>3, <6>1, <6>2
        <5> QED BY <5>1, <5>2, <5>3, <5>4, <5>5
      <4>2. ASSUME hdrLen' > 0 PROVE StartsRecord(hdrPos')
        <5>1. CASE hdrLen > 0
          BY <3>1, <3>2, <3>5, <5>1 DEF Fresh
        <5>2. CASE ~(hdrLen > 0)
          <6>1. hdrLen = 0 /\ hdrPos' = gptr /\ gptr < gptr' /\ gptr \in Nat
            BY <3>1, <4>1, <4>2, <5>2, OwnCounters
          <6>2. gptr' <= fetched
            BY <3>2, StepTypeInv DEF TypeInv, TypeOK
          <6>3. Boundary(gptr)
            BY <3>2, <3>5, <6>1, OwnCounters DEF Fresh
          <6>4. gptr < fetched /\ wire' = wire
            BY <1>1, <4>1, <6>1, <6>2, OwnCounters
          <6>5. StartsRecord(gptr)
            BY <3>5, <4>1, <6>1, <6>3, <6>4, NextRecord
          <6> QED BY <6>1, <6>5
        <5> QED BY <5>1, <5>2
      <4>3. hdrLen' = 0 => Boundary(gptr + unreadContent + unreadPadding)'
        <5>1. hdrLen' = 0 => hdrLen = 0 /\ gptr' = gptr
          BY <3>1, OwnCounters
        <5> QED BY <1>1, <3>2, <3>5, <5>1 DEF Fresh, Boundary, StartsRecord, IsLeft
      <4>4. pc' = "process" => header' = wire[hdrPos' + 1].rec
        <5>1. pc' = "process" => hdrLen' > 0 /\ Least(HeaderSize - hdrLen, fetched - gptr) # 0
          BY <2>5, <3>1, <4>1, OwnCounters DEF Header
        <5>2. pc' = "process" => wire[hdrPos' + 1].off = 1
          BY <4>2, <5>1 DEF StartsRecord
        <5>3. pc' = "process" => header' \in Readings(hdrPos' + 1)
          BY <2>5, <5>1 DEF Header
        <5> QED BY <5>2, <5>3 DEF Readings
      <4>5. pc' # "process" => hdrLen' < HeaderSize
        BY <3>1, OwnCounters
      <4>6. StartsRecord(hdrPos') => StartsRecord(hdrPos)'
        BY <1>1 DEF StartsRecord
      <4> QED BY <1>1, <3>2, <3>5, <4>1, <4>2, <4>3, <4>4, <4>5, <4>6, OwnCounters
              DEF Fresh, Announced
    <3> QED BY <1>1, <1>3, <2>1, <3>3, <3>4, <3>5, GoesOnOwn
  <2> QED BY <2>2, <2>3, <2>4, <2>5
<1> QED BY <1>2, <1>3

LEMMA ConsumeOwn ==
  ASSUME TypeInv, OwnInv, [Next]_vars, Consume
  PROVE  OwnInv'
<1>1. PICK n \in 1..(egptr - gptr) :
        /\ gptr' = gptr + n
        /\ delivered' = delivered \cup {<<p, type>> : p \in gptr + 1 .. gptr + n}
  BY DEF Consume
<1>2. /\ pc = "caller" /\ ~Nested /\ ios = "good"
      /\ UNCHANGED <<wire, type, eos, discard, egptr, unreadContent, unreadPadding, pc, frames,
                     ios>>
  BY DEF Consume, clientVars, recordVars, ownerVars
<1>3. Offered \/ Astray(gptr)
  BY <1>2 DEF OwnInv, AtTop
<1>4. gptr \in Nat /\ egptr \in Nat /\ gptr + n <= egptr /\ gptr <= gptr + n
  <2>1. gptr \in Nat /\ egptr \in Nat
    BY OwnCounters
  <2> HIDE <1>1
  <2> QED BY <2>1
<1>5. OnlyOwnRequest'
  <2>1. ASSUME NEW p \in gptr + 1 .. gptr + n
        PROVE  \/ IsOwnContent(p, type) \/ wire[p].rec.kind \in {"unknown", "get_values"}
               \/ \E q \in 1..(p - 1) : IsLeft(q)
    <3>1. p \in gptr + 1 .. egptr /\ gptr <= p - 1
      BY <1>4
    <3>2. CASE Offered
      BY <3>1, <3>2 DEF Offered, Deliverable, IsOwnContent
    <3>3. CASE Astray(gptr)
      BY <1>4, <3>1, <3>3 DEF Astray
    <3> QED BY <1>3, <3>2, <3>3
  <2>2. ASSUME NEW d \in delivered'
        PROVE  \/ IsOwnContent(d[1], d[2]) \/ wire[d[1]].rec.kind \in {"unknown", "get_values"}
               \/ \E q \in 1..(d[1] - 1) : IsLeft(q)
    <3>1. CASE d \in delivered
      BY <3>1 DEF OwnInv, OnlyOwnRequest
    <3>2. CASE d \notin delivered
      <4>1. PICK p \in gptr + 1 .. gptr + n : d = <<p, type>>
        BY <1>1, <3>2
      <4>2. d[1] = p /\ d[2] = type
        BY <4>1
      <4> QED BY <2>1, <4>2
    <3> QED BY <3>1, <3>2
  <2> QED BY <1>2, <2>2 DEF OnlyOwnRequest, IsOwnContent, IsLeft
<1>6. ASSUME ~Astray(gptr)' PROVE Offered'
  <2>1. Offered
    BY <1>2, <1>3, <1>6, AstrayKept
  <2>2. gptr' <= egptr' /\ \A p \in gptr' + 1 .. egptr' : p \in gptr + 1 .. egptr
    BY <1>1, <1>2, <1>4
  <2>3. Announced(egptr)' /\ \A p \in gptr' + 1 .. egptr' : Deliverable(p)'
    BY <1>2, <2>1, <2>2 DEF Offered, Announced, StartsRecord, Deliverable
  <2> QED BY <1>2, <2>1, <2>2, <2>3 DEF Offered, Boundary, StartsRecord, IsLeft
<1>7. AtTop' /\ InService'
  BY <1>2, <1>6 DEF AtTop, InService, Nested
<1> QED BY <1>2, <1>5, <1>7 DEF OwnInv, WholeRecords, Suspended, StartsRecord

LEMMA CallerOwn ==
  ASSUME TypeInv, OwnInv, [Next]_vars, ~RetryAfterError,
         Underflow \/ ParametersRead \/ ConstructorThrows \/ Clear
  PROVE  OwnInv'
<1>1. pc = "caller" /\ UNCHANGED <<wire, gptr, egptr, fetched, frames, delivered>>
  BY DEF Underflow, ParametersRead, ConstructorThrows, Clear, clientVars
<1>2. WholeRecords' /\ Suspended' /\ OnlyOwnRequest'
  BY <1>1 DEF OwnInv, WholeRecords, Suspended, StartsRecord, OnlyOwnRequest, IsOwnContent, IsLeft
<1>9. Astray(gptr)' <=> Astray(gptr)
  BY <1>1 DEF Astray, IsLeft
<1>10. \A n : Boundary(n)' <=> Boundary(n)
  BY <1>1 DEF Boundary, StartsRecord, IsLeft
<1>3. CASE Nested
  <2>1. Underflow /\ ios' = ios
    BY <1>3 DEF Underflow, ParametersRead, ConstructorThrows, Clear, Returns
  <2> QED BY <1>1, <1>2, <1>3, <2>1 DEF OwnInv, AtTop, InService, Nested
<1>4. CASE ~Nested
  <2>1. ios # "bad" /\ ~Astray(gptr) => Offered
    BY <1>1, <1>4 DEF OwnInv, AtTop
  <2>6. ASSUME pc' = "caller", ~Astray(gptr)' => Offered' PROVE OwnInv'
    BY <1>1, <1>2, <1>4, <2>6 DEF OwnInv, AtTop, InService, Nested
  <2>2. CASE Underflow
    <3>1. ios = "good" /\ (~Astray(gptr) => Offered /\ gptr = egptr)
      BY <1>4, <2>1, <2>2, OwnCounters DEF Underflow, Offered
    <3>2. CASE eos
      <4>1. /\ pc' = "caller" /\ ios' = "eof"
            /\ UNCHANGED <<type, eos, discard, unreadContent, unreadPadding>>
        BY <1>4, <2>2, <3>2 DEF Underflow, Returns, recordVars
      <4>2. ~Astray(gptr) => Offered'
        BY <1>1, <1>10, <3>1, <3>2, <4>1 DEF Offered, Announced, StartsRecord, Deliverable
      <4> QED BY <1>9, <2>6, <4>1, <4>2
    <3>3. CASE ~eos
      <4>1. /\ pc' = Loop(gptr) /\ hdrLen' = 0 /\ ios' = ios
            /\ UNCHANGED <<type, eos, discard, unreadContent, unreadPadding>>
        BY <2>2, <3>3 DEF Underflow, recordVars
      <4>2. ASSUME ~Astray(gptr) PROVE Fresh'
        <5>1. Offered /\ gptr = egptr
          BY <3>1, <4>2
        <5>2. Boundary(gptr + unreadContent + unreadPadding)'
          BY <1>1, <1>10, <4>1, <5>1 DEF Offered
        <5>3. 0 < HeaderSize /\ pc' # "process"
          BY <4>1, OwnCounters, LoopReads
        <5> QED BY <1>1, <3>3, <4>1, <5>1, <5>2, <5>3 DEF Fresh, Offered, Announced, StartsRecord
      <4> QED BY <1>1, <1>4, <1>9, <3>1, <4>1, <4>2, LoopReads, GoesOnOwn
    <3> QED BY <3>2, <3>3
  <2>3. CASE ParametersRead
    <3>1. ~Astray(gptr) => Offered /\ gptr = egptr /\ gptr \in Nat /\ Boundary(egptr)
      BY <2>1, <2>3, OwnCounters DEF ParametersRead, Offered
    <3>2. pc' = "caller" /\ ios' \in {"good", "eof"}
      BY <1>1, <2>3 DEF ParametersRead
    <3>3. \/ UNCHANGED <<type, eos, discard, unreadContent, unreadPadding, ios>>
          \/ /\ discard' = FALSE /\ eos' = FALSE /\ ios' = "good"
             /\ unreadContent' = 0 /\ unreadPadding' = 0
      BY <2>3 DEF ParametersRead, ResetReader, recordVars
    <3>4. ~Astray(gptr) => Offered'
      BY <1>1, <1>10, <3>1, <3>2, <3>3 DEF Offered, Announced, StartsRecord, Deliverable
    <3> QED BY <1>9, <2>6, <3>2, <3>4
  <2>4. CASE ConstructorThrows
    BY <1>1, <1>2, <1>4, <2>4 DEF ConstructorThrows, OwnInv, AtTop, InService, Nested
  <2>5. CASE Clear
    <3>1. ~Astray(gptr) => Offered /\ gptr = egptr
      BY <2>1, <2>5 DEF Clear, Offered
    <3>2. /\ pc' = "caller" /\ ios' = "good"
          /\ UNCHANGED <<type, eos, discard, unreadContent, unreadPadding>>
      BY <1>1, <2>5 DEF Clear, recordVars
    <3>3. ~Astray(gptr) => Offered'
      BY <1>1, <1>10, <3>1, <3>2 DEF Offered, Announced, StartsRecord, Deliverable
    <3> QED BY <1>9, <2>6, <3>2, <3>3
  <2> QED BY <2>2, <2>3, <2>4, <2>5
<1> QED BY <1>3, <1>4

LEMMA ReadFailsOwn ==
  ASSUME TypeInv, OwnInv, ReadFails \/ NestedConsume
  PROVE  OwnInv'
<1>1. UNCHANGED <<wire, frames, delivered>> /\ (ReadFails => ios = "good")
  BY DEF ReadFails, NestedConsume, OwnInv, InService, clientVars
<1>2. CASE Nested
  <2>1. ios = "good" /\ ios' = ios
    BY <1>2 DEF ReadFails, NestedConsume, Returns, OwnInv, InService, ownerVars
  <2> QED BY <1>1, <1>2, <2>1, ThrownOwn DEF Nested
<1>3. CASE ~Nested
  BY <1>1, <1>3, ThrownOwn DEF ReadFails, NestedConsume, Returns, Nested
<1> QED BY <1>2, <1>3

LEMMA GetValuesOwn ==
  ASSUME TypeInv, OwnInv, ProcessGetValues
  PROVE  OwnInv'
<1>1. /\ pc = "process" /\ ios = "good" /\ ios' = ios
      /\ UNCHANGED <<wire, delivered>>
      /\ header.kind = "get_values" /\ header \in Record
      /\ hdrPos \in Nat /\ hdrLen \in 0..HeaderSize
      /\ frames \in Seq(Frame)
      /\ frames' = <<[pos |-> hdrPos, len |-> hdrLen, header |-> header]>> \o frames
  BY HeaderRecordType DEF ProcessGetValues, OwnInv, InService, clientVars, ownerVars, TypeInv,
     TypeOK, Frame
<1>2. PICK f \in Frame : f = [pos |-> hdrPos, len |-> hdrLen, header |-> header]
  BY <1>1 DEF Frame
<1>3. /\ Len(frames') = 1 + Len(frames) /\ Len(frames) \in Nat
      /\ \A i \in 1..Len(frames') : frames'[i] = IF i = 1 THEN f ELSE frames[i - 1]
  <2>1. <<f>> \in Seq(Frame) /\ Len(<<f>>) = 1 /\ <<f>>[1] = f
    OBVIOUS
  <2> QED BY <1>1, <1>2, <2>1, ConcatProperties
<1>4. Nested' /\ ios' = "good"
  <2>1. frames' # <<>>
    BY <1>3
  <2> QED BY <1>1, <2>1 DEF Nested
<1>5. Suspended'
  <2>1. ASSUME NEW i \in 1..Len(frames')
        PROVE  frames'[i].header.kind = "get_values"
    <3>1. CASE i = 1
      BY <1>1, <1>2, <1>3, <3>1
    <3>2. CASE i # 1
      <4>1. i - 1 \in 1..Len(frames) /\ frames'[i] = frames[i - 1]
        BY <1>3, <3>2
      <4> QED BY <4>1 DEF OwnInv, Suspended
    <3> QED BY <3>1, <3>2
  <2> QED BY <2>1 DEF Suspended
<1>6. AtTop' /\ InService'
  BY <1>4 DEF AtTop, InService
<1> QED BY <1>1, <1>5, <1>6 DEF OwnInv, WholeRecords, StartsRecord, OnlyOwnRequest, IsOwnContent, IsLeft

\* A call nested in a get-values record is left.
LEMMA ValuesOwn ==
  ASSUME TypeInv, OwnInv,
         \/ ValuesTruncated \/ ValuesUnread \/ ValuesAnswered \/ ValuesOverflow \/ AnswerFails
  PROVE  OwnInv'
<1>1. ios = "good" /\ UNCHANGED <<wire, delivered, type, discard, gptr, fetched>>
  BY DEF ValuesTruncated, ValuesUnread, ValuesAnswered, ValuesOverflow, AnswerFails, OwnInv,
         InService, clientVars
<1>2. CASE ValuesOverflow
  <2>1. pc' = "terminated" /\ UNCHANGED <<ios, frames>>
    BY <1>2 DEF ValuesOverflow, ownerVars
  <2>2. AtTop' /\ InService'
    BY <1>1, <2>1 DEF AtTop, InService
  <2> QED BY <1>1, <2>1, <2>2 DEF OwnInv, WholeRecords, Suspended, StartsRecord, OnlyOwnRequest,
                                  IsOwnContent, IsLeft
<1>3. CASE pc = "process" /\ Returns("bad") /\ UNCHANGED frames
  BY <1>1, <1>3, ThrownOwn DEF Returns, Nested
<1>4. CASE LeavesFrame /\ pc = "values" /\ (ValuesAnswered \/ ThrowsFromFrame)
  <2>1. frames # <<>>
    BY <1>4 DEF TypeInv, HeaderInv
  <2>2. /\ Len(frames) \in Nat \ {0} /\ frames \in Seq(Frame)
        /\ frames' = Tail(frames) /\ hdrLen' = HeaderSize /\ header' = frames[1].header
    BY <1>4, <2>1, InnermostFrame DEF LeavesFrame
  <2>3. /\ Len(frames') = Len(frames) - 1
        /\ \A i \in 1..Len(frames') : i + 1 \in 1..Len(frames) /\ frames'[i] = frames[i + 1]
    BY <2>1, <2>2
  <2>4. Suspended'
    BY <2>3 DEF OwnInv, Suspended
  <2>5. Nested' <=> Len(frames) > 1
    BY <2>2, <2>3 DEF Nested
  <2>6. CASE ThrowsFromFrame
    <3>1. IF Len(frames) > 1 THEN Nested' /\ ios' = "good"
          ELSE ~Nested' /\ pc' = "caller" /\ ios' = "bad"
      BY <1>1, <2>5, <2>6 DEF ThrowsFromFrame
    <3>2. AtTop' /\ InService'
      BY <3>1 DEF AtTop, InService
    <3> QED BY <1>1, <2>4, <3>2 DEF OwnInv, WholeRecords, StartsRecord, OnlyOwnRequest, IsOwnContent, IsLeft
  <2>7. CASE ValuesAnswered
    <3>1. /\ unreadContent = 0 /\ unreadContent' = 0 /\ ios' = "good"
          /\ pc' \in {"terminated", Loop(gptr)}
      BY <1>1, <2>7 DEF ValuesAnswered, recordVars, ownerVars
    <3>2. Repeated'
      <4>1. 1 \in 1..Len(frames)
        BY <2>2
      <4>2. frames[1].header.kind = "get_values"
        BY <4>1 DEF OwnInv, Suspended
      <4> QED BY <2>2, <3>1, <4>2 DEF Repeated
    <3>3. AtTop' /\ InService'
      BY <1>1, <3>1, <3>2, LoopReads DEF AtTop, InService
    <3> QED BY <1>1, <2>4, <3>3 DEF OwnInv, WholeRecords, StartsRecord, OnlyOwnRequest, IsOwnContent, IsLeft
  <2> QED BY <1>4, <2>6, <2>7
<1> QED BY <1>2, <1>3, <1>4 DEF ValuesTruncated, ValuesUnread, ValuesAnswered, AnswerFails,
                                ThrowsFromFrame, headerVars

\* What the client adds changes nothing that has been written.
LEMMA WrittenOwn ==
  ASSUME TypeInv, OwnInv, UNCHANGED readerVars, WholeRecords',
         [Next]_vars, Len(wire') \in Nat, Len(wire) <= Len(wire'),
         \A p \in 1..Len(wire) : wire'[p] = wire[p],
         \A n \in {Len(wire)} : Len(wire) < Len(wire') => (StartsRecord(n) \/ IsLeft(n + 1))'
  PROVE  OwnInv'
<1>1. /\ UNCHANGED <<type, eos, discard, gptr, egptr, fetched, unreadContent, unreadPadding, pc,
                     hdrPos, hdrLen, header, frames, ios, delivered>>
  BY DEF readerVars, recordVars, headerVars, ownerVars
<1>2. Len(wire) \in Nat /\ \A p \in 1..Len(wire) : p \in 1..Len(wire')
  BY OwnCounters
<1>3. \A h \in Nat : StartsRecord(h) =>
        /\ h + 1 \in 1..Len(wire') /\ wire'[h + 1] = wire[h + 1] /\ wire'[h + 1].off = 1
  BY <1>2 DEF StartsRecord
<1>4. \A p \in 1..egptr : wire'[p] = wire[p]
  BY <1>2, OwnCounters
<1>5. Suspended'
  BY <1>1 DEF OwnInv, Suspended
<1>6. \A p : IsLeft(p) => IsLeft(p)'
  BY <1>2 DEF IsLeft, IsPadding
<1>7. \A n \in Nat : Boundary(n) => Boundary(n)'
  <2> SUFFICES ASSUME NEW n \in Nat, Boundary(n) PROVE Boundary(n)'
    OBVIOUS
  <2>1. CASE n = Len(wire)
    BY <1>2, <2>1 DEF Boundary, StartsRecord, IsLeft
  <2> QED BY <1>3, <1>6, <2>1 DEF Boundary, StartsRecord
<1>8. ~Astray(gptr)' => ~Astray(gptr)
  BY AstrayStays
<1>9. OnlyOwnRequest'
  <2>1. \A d \in delivered : d[1] \in 1..Len(wire)
    BY DEF TypeInv, TypeOK
  <2>2. \A d \in delivered : wire'[d[1]] = wire[d[1]]
    BY <2>1
  <2> QED BY <1>1, <1>6, <2>2 DEF OwnInv, OnlyOwnRequest, IsOwnContent
<1>10. \A n \in Nat : Announced(n) =>
        (unreadContent > 0 =>
           \E h \in 0..n : /\ h + 1 \in 1..Len(wire') /\ wire'[h + 1].off = 1
                           /\ wire'[h + 1].rec.kind \in {type, "unknown"}
                           /\ unreadContent <= wire'[h + 1].rec.clen
                           /\ n = h + HeaderSize + wire'[h + 1].rec.clen - unreadContent)
  <2> SUFFICES ASSUME NEW n \in Nat, Announced(n), unreadContent > 0
               PROVE  \E h \in 0..n :
                        /\ h + 1 \in 1..Len(wire') /\ wire'[h + 1].off = 1
                        /\ wire'[h + 1].rec.kind \in {type, "unknown"}
                        /\ unreadContent <= wire'[h + 1].rec.clen
                        /\ n = h + HeaderSize + wire'[h + 1].rec.clen - unreadContent
    OBVIOUS
  <2>1. PICK h \in 0..n : /\ StartsRecord(h)
                          /\ wire[h + 1].rec.kind \in {type, "unknown"}
                          /\ unreadContent <= wire[h + 1].rec.clen
                          /\ n = h + HeaderSize + wire[h + 1].rec.clen - unreadContent
    BY DEF Announced
  <2>2. wire'[h + 1] = wire[h + 1] /\ h + 1 \in 1..Len(wire') /\ wire'[h + 1].off = 1
    BY <1>3, <2>1
  <2> QED BY <2>1, <2>2
<1>11. Offered => Offered'
  <2>1. Announced(egptr) => Announced(egptr)'
    BY <1>1, <1>10, OwnCounters DEF Announced, StartsRecord
  <2>2. \A p \in gptr + 1 .. egptr : p \in 1..egptr
    BY OwnCounters
  <2>3. (\A p \in gptr + 1 .. egptr : Deliverable(p)) =>
          (\A p \in gptr + 1 .. egptr : Deliverable(p)')
    BY <1>1, <1>4, <2>2 DEF Deliverable
  <2>4. egptr + unreadContent + unreadPadding \in Nat
    BY OwnCounters
  <2> QED BY <1>1, <1>7, <2>1, <2>3, <2>4, OwnCounters DEF Offered
<1>12. Fresh => Fresh'
  <2>1. Announced(gptr) => Announced(gptr)'
    BY <1>1, <1>10, OwnCounters DEF Announced, StartsRecord
  <2>2. StartsRecord(hdrPos) =>
          StartsRecord(hdrPos)' /\ wire'[hdrPos + 1] = wire[hdrPos + 1]
    BY <1>1, <1>3, OwnCounters DEF StartsRecord
  <2>3. gptr + unreadContent + unreadPadding \in Nat
    BY OwnCounters
  <2>4. pc = "process" => hdrLen > 0
    BY SizeAssumption DEF TypeInv, HeaderInv
  <2> QED BY <1>1, <1>7, <2>1, <2>2, <2>3, <2>4 DEF Fresh
<1>13. Repeated => Repeated'
  BY <1>1 DEF Repeated
<1>14. AtTop' /\ InService'
  BY <1>1, <1>11, <1>12, <1>13, <1>8 DEF OwnInv, AtTop, InService, Nested
<1> QED BY <1>5, <1>9, <1>14 DEF OwnInv

LEMMA WholeGrows ==
  ASSUME TypeInv, WholeRecords, NEW r \in Record, Write(r)
  PROVE  WholeRecords' /\ \A n \in {Len(wire)} : StartsRecord(n)'
<1>1. /\ Len(wire') = Len(wire) + Size(r) /\ Len(wire) \in Nat /\ Size(r) \in Nat
      /\ \A p \in 1..Len(wire) : wire'[p] = wire[p]
      /\ \A i \in 1..Size(r) : wire'[Len(wire) + i] = [rec |-> r, off |-> i]
  BY WriteType, BytesType DEF TypeInv, TypeOK
<1>2. Size(r) >= 1
  BY SizeAssumption DEF Size, Record
<1>3. \A h \in Nat : StartsRecord(h) => h + 1 \in 1..Len(wire') /\ wire'[h + 1].off = 1
  BY <1>1 DEF StartsRecord
<1>4. Len(wire) + 1 \in 1..Len(wire') /\ wire'[Len(wire) + 1].off = 1
  <2>1. 1 \in 1..Size(r)
    BY <1>1, <1>2
  <2>2. Len(wire) + 1 \in 1..Len(wire')
    BY <1>1, <1>2
  <2>3. wire'[Len(wire) + 1] = [rec |-> r, off |-> 1]
    BY <1>1, <2>1
  <2> QED BY <2>2, <2>3
<1> SUFFICES ASSUME NEW h \in 0 .. Len(wire') - 1, wire'[h + 1].off = 1
             PROVE  /\ h + Size(wire'[h + 1].rec) <= Len(wire')
                    /\ \A i \in 1..Size(wire'[h + 1].rec) :
                         wire'[h + i] = [rec |-> wire'[h + 1].rec, off |-> i]
                    /\ \/ h + Size(wire'[h + 1].rec) = Len(wire')
                       \/ /\ h + Size(wire'[h + 1].rec) + 1 \in 1..Len(wire')
                          /\ wire'[h + Size(wire'[h + 1].rec) + 1].off = 1
  BY <1>4 DEF WholeRecords, StartsRecord
<1>5. CASE h < Len(wire)
  <2> DEFINE n == Size(wire[h + 1].rec)
  <2>1. h \in 0 .. Len(wire) - 1 /\ h + 1 \in 1..Len(wire)
    BY <1>1, <1>5
  <2>2. wire'[h + 1] = wire[h + 1] /\ n \in Nat
    BY <1>1, <2>1, TokenType DEF TypeInv
  <2>3. /\ h + n <= Len(wire) /\ \A i \in 1..n : wire[h + i] = [rec |-> wire[h + 1].rec, off |-> i]
        /\ h + n = Len(wire) \/ StartsRecord(h + n)
    BY <2>1, <2>2 DEF WholeRecords
  <2> HIDE DEF n
  <2>4. \A i \in 1..n : h + i \in 1..Len(wire)
    BY <1>1, <2>1, <2>2, <2>3
  <2>5. h + n <= Len(wire') /\ h + n \in Nat
    BY <1>1, <2>1, <2>2, <2>3
  <2>6. \A i \in 1..n : wire'[h + i] = [rec |-> wire[h + 1].rec, off |-> i]
    BY <1>1, <2>3, <2>4
  <2>7. h + n + 1 \in 1..Len(wire') /\ wire'[h + n + 1].off = 1
    BY <1>3, <1>4, <2>3, <2>5
  <2> QED BY <2>2, <2>5, <2>6, <2>7 DEF n
<1>6. CASE ~(h < Len(wire))
  <2> DEFINE n == Size(r)
             L == Len(wire)
             k == h + 1 - L
  <2>1. L \in Nat /\ n \in Nat /\ h \in Nat /\ h + 1 \in Int /\ k \in 1..n /\ L + k = h + 1
    BY <1>1, <1>6
  <2> HIDE DEF n, L
  <2>2. wire'[h + 1] = [rec |-> r, off |-> k]
    <3> HIDE DEF k
    <3> QED BY <1>1, <2>1 DEF n, L
  <2>3. h = L /\ wire'[h + 1].rec = r
    BY <2>1, <2>2
  <2> QED BY <1>1, <2>3 DEF L
<1> QED BY <1>5, <1>6

LEMMA ClientOwn ==
  ASSUME TypeInv, TypeInv', OwnInv, [Next]_vars, Client
  PROVE  OwnInv'
<1>1. UNCHANGED readerVars /\ Len(wire') \in Nat
  <2>1. UNCHANGED readerVars
    BY DEF Client, ClientPadsBegin, ClientSends, ClientEndsStream, ClientSendsForeign,
           ClientDisconnects, Write
  <2>2. wire' \in Seq(Token)
    BY DEF TypeInv, TypeOK
  <2> QED BY <2>1, <2>2
<1>2. ASSUME NEW r \in Record, Write(r)
      PROVE  OwnInv'
  <2>1. WholeRecords' /\ \A n \in {Len(wire)} : StartsRecord(n)'
    BY <1>2, WholeGrows DEF OwnInv
  <2>2. Len(wire) <= Len(wire') /\ \A p \in 1..Len(wire) : wire'[p] = wire[p]
    <3>1. /\ Len(wire') = Len(wire) + Size(r)
          /\ \A p \in 1..Len(wire) : wire'[p] = wire[p]
      BY <1>2, WriteType DEF TypeInv
    <3>2. Size(r) \in Nat /\ Len(wire) \in Nat
      BY BytesType, OwnCounters
    <3> QED BY <3>1, <3>2
  <2> QED BY <1>1, <2>1, <2>2, WrittenOwn
<1>3. CASE ClientDisconnects
  <2>1. wire' = wire
    BY <1>3 DEF ClientDisconnects
  <2>2. WholeRecords'
    BY <2>1 DEF OwnInv, WholeRecords, StartsRecord
  <2>3. Len(wire') = Len(wire) /\ Len(wire) \in Nat
    BY <2>1, OwnCounters
  <2> QED BY <1>1, <2>1, <2>2, <2>3, WrittenOwn
<1>4. CASE ClientPadsBegin
  <2>1. PICK m \in BeginPaddings \ {0} :
          wire' = [i \in 1..m |-> [rec |-> [kind |-> "begin", clen |-> 0, plen |-> m],
                                   off |-> HeaderSize + i]]
    BY <1>4 DEF ClientPadsBegin
  <2>2. m \in Nat
    BY SizeAssumption
  <2>3. Len(wire) = 0
    BY <1>4 DEF ClientPadsBegin
  <2>4. Len(wire') = m
    BY <2>1, <2>2
  <2>5. \A h \in 0 .. m - 1 : wire'[h + 1].off # 1
    <3>1. \A i \in 1..m : wire'[i].off = HeaderSize + i
      BY <2>1
    <3>2. \A h \in 0 .. m - 1 : h + 1 \in 1..m /\ HeaderSize + (h + 1) # 1
      BY <2>2, SizeAssumption
    <3> QED BY <3>1, <3>2
  <2>6. WholeRecords'
    BY <2>4, <2>5 DEF WholeRecords
  <2>7. IsLeft(1)'
    <3>1. wire'[1] = [rec |-> [kind |-> "begin", clen |-> 0, plen |-> m], off |-> HeaderSize + 1]
      BY <2>1, <2>2
    <3> QED BY <2>2, <2>4, <3>1, SizeAssumption DEF IsLeft, IsPadding
  <2> QED BY <1>1, <2>2, <2>3, <2>4, <2>6, <2>7, WrittenOwn
<1>5. CASE ClientSends \/ ClientEndsStream \/ ClientSendsForeign
  <2>1. \E r \in Record : Write(r)
    <3>1. CASE ClientSends
      <4>1. PICK n \in 1..MaxContent, m \in 0..MaxPadding :
              phase # "done" /\ Write([kind |-> phase, clen |-> n, plen |-> m])
        BY <3>1 DEF ClientSends
      <4>2. [kind |-> phase, clen |-> n, plen |-> m] \in Record
        BY <4>1, SizeAssumption DEF Record, TypeInv, TypeOK
      <4> QED BY <4>1, <4>2
    <3>2. CASE ClientEndsStream
      <4>1. PICK m \in EndPaddings : phase # "done" /\ Write([kind |-> phase, clen |-> 0, plen |-> m])
        BY <3>2 DEF ClientEndsStream
      <4>2. [kind |-> phase, clen |-> 0, plen |-> m] \in Record
        BY <4>1, SizeAssumption DEF Record, TypeInv, TypeOK
      <4> QED BY <4>1, <4>2
    <3>3. CASE ClientSendsForeign
      <4>1. PICK k \in Foreign, n \in 0..MaxContent, m \in 0..MaxPadding :
              Write([kind |-> k, clen |-> n, plen |-> m])
        BY <3>3 DEF ClientSendsForeign
      <4>2. [kind |-> k, clen |-> n, plen |-> m] \in Record
        BY ForeignAssumption, SizeAssumption DEF Record
      <4> QED BY <4>1, <4>2
    <3> QED BY <1>5, <3>1, <3>2, <3>3
  <2> QED BY <1>2, <2>1
<1> QED BY <1>3, <1>4, <1>5 DEF Client

LEMMA InitOwn == Init => OwnInv
<1> SUFFICES ASSUME Init PROVE OwnInv
  OBVIOUS
<1>1. Len(wire) = 0 /\ Len(frames) = 0
  BY DEF Init
<1>2. WholeRecords /\ Suspended /\ OnlyOwnRequest
  BY <1>1 DEF Init, WholeRecords, Suspended, OnlyOwnRequest
<1>3. Offered
  BY <1>1 DEF Init, Offered, Announced, Boundary
<1> QED BY <1>2, <1>3 DEF Init, OwnInv, AtTop, InService, Nested

LEMMA StepOwn == ~RetryAfterError /\ TypeInv /\ OwnInv /\ [Next]_vars => OwnInv'
<1> SUFFICES ASSUME ~RetryAfterError, TypeInv, OwnInv, [Next]_vars PROVE OwnInv'
  OBVIOUS
<1>1. CASE Client
  BY <1>1, StepTypeInv, ClientOwn
<1>2. CASE Reader
  BY <1>2, ContentOwn, ProcessOwn, TakenOwn, CallerOwn, ReadFailsOwn, GetValuesOwn, ValuesOwn
     DEF Reader
<1>3. CASE Application
  BY <1>3, ConsumeOwn, CallerOwn DEF Application
<1>4. CASE UNCHANGED vars
  BY <1>4 DEF vars, clientVars, recordVars, headerVars, ownerVars, OwnInv, WholeRecords, AtTop,
     InService, Suspended, OnlyOwnRequest, IsOwnContent, IsLeft, Nested, Offered, Repeated, Fresh,
     Announced, StartsRecord, Deliverable, Boundary, Astray, IsLeft
<1> QED BY <1>1, <1>2, <1>3, <1>4 DEF Next

\* Whatever records the client mixes into its request, what an application that does not go on
\* after an error is handed is content of the stream it reads, or of an unknown management
\* record (process_header(), 501-637), up to the first padding that accept() or reset_reader()
\* leaves unskipped: a header that is processed again, and a recursion that fails, hand over
\* nothing, whatever the bytes say that they make the reader take for headers.
THEOREM DeliveredIsOwn == ASSUME ~RetryAfterError PROVE Spec => []OnlyOwnRequest
<1>1. OwnInv => OnlyOwnRequest
  BY DEF OwnInv
<1>2. TypeInv /\ OwnInv /\ [Next]_vars => OwnInv'
  BY StepOwn
<1> QED BY <1>1, <1>2, InitTypeInv, StepTypeInv, InitOwn, PTL DEF Spec

=============================================================================
