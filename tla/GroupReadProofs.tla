--------------------------- MODULE GroupReadProofs ---------------------------
(***************************************************************************)
(* Read positions never get lost or go back, message numbers are unique,   *)
(* and the unread count hides no message: proofs about GroupUnread for any *)
(* number of requests and messages.                                        *)
(***************************************************************************)
EXTENDS GroupUnread, FiniteSetTheorems, TLAPS
-----------------------------------------------------------------------------
(* Types *)

\* A request is a record; what an update of one of its fields yields.
LEMMA CallFields ==
    ASSUME NEW r \in Call
    PROVE  /\ r.kind \in Kind /\ r.pc \in Phase
           /\ r.msg \in 0..Len(number) /\ r.start \in 0..Len(number)
           /\ r.seq \in Nat /\ r.read \in Nat
BY DEF Call

LEMMA CallUpdates ==
    ASSUME NEW r \in Call
    PROVE  /\ \A p \in Phase : [r EXCEPT !.pc = p] \in Call
           /\ \A k \in 0..Len(number) : [r EXCEPT !.msg = k] \in Call
           /\ \A n \in Nat : [r EXCEPT !.seq = n] \in Call
           /\ \A n \in Nat : [r EXCEPT !.read = n] \in Call
BY DEF Call

\* A request begins well-typed, and moves on to a phase there is.
LEMMA CallPhases ==
    ASSUME number \in Seq(Nat)
    PROVE  /\ Idle \in Call
           /\ \A kind \in Kind : AfterSeq[kind] \in Phase /\ FirstStep(kind) \in Phase
BY DEF Idle, Call, Kind, Phase, AfterSeq, FirstStep

LEMMA CallBegins ==
    ASSUME number \in Seq(Nat), NEW kind \in Kind, NEW k \in 0..Len(number)
    PROVE  [Idle EXCEPT !.kind = kind, !.pc = FirstStep(kind),
                        !.msg = k, !.start = Len(number)] \in Call
<1>1. FirstStep(kind) \in Phase /\ Len(number) \in 0..Len(number)
  BY CallPhases
<1>2. ASSUME NEW r \in Call
      PROVE  /\ [r EXCEPT !.kind = kind] \in Call
             /\ [r EXCEPT !.start = Len(number)] \in Call
  BY <1>1 DEF Call
<1> QED
  BY <1>1, <1>2, CallPhases, CallUpdates

\* One request changing leaves the others well-typed.
LEMMA OneCall ==
    ASSUME TypeOK, NEW c \in Client, NEW r \in Call,
           Continue(c, r), UNCHANGED number
    PROVE  call' \in [Client -> Call']
BY DEF TypeOK, Call, Continue

\* The type invariant under each kind of step: the messages ...
LEMMA TypeMessages ==
    ASSUME TypeOK,
           Send \/ ExpireLast \/ \E k \in Message : Persist(k) \/ DeleteRow(k)
    PROVE  TypeOK'
<1> USE DEF TypeOK, Message, messageVars, hotVars, readVars
<1>1. CASE Send
  <2>1. /\ number' \in Seq(Nat) /\ Len(number') = Len(number) + 1
        /\ Home \in Shard
    BY <1>1, GroupAssumption DEF Send, GroupAssumption
  <2>2. seq' \in [Shard -> Nat] /\ last' \in [Shard -> 0..Len(number')]
    BY <1>1, <2>1 DEF Send
  <2>3. call' \in [Client -> Call']
    BY <1>1, <2>1 DEF Send, Call
  <2> QED
    BY <1>1, <2>1, <2>2, <2>3 DEF Send
<1>2. CASE ExpireLast
  <2>1. 0 \in 0..Len(number)
    OBVIOUS
  <2>2. last' \in [Shard -> 0..Len(number)]
    BY <1>2, <2>1 DEF ExpireLast
  <2> QED
    BY <1>2, <2>2 DEF ExpireLast, Call
<1>3. CASE \E k \in Message : Persist(k)
  BY <1>3 DEF Persist, Call
<1>4. CASE \E k \in Message : DeleteRow(k)
  BY <1>4 DEF DeleteRow, Call
<1> QED
  BY <1>1, <1>2, <1>3, <1>4

\* ... the requests ...
LEMMA TypeRequests ==
    ASSUME TypeOK, NEW c \in Client, Begin(c) \/ Step(c) \/ Abandon(c)
    PROVE  TypeOK'
<1> USE DEF messageVars, hotVars, readVars, Goto, End, At
<1>1. /\ Home \in Shard /\ First \in Shard /\ ShardOf(c) \in Shard
      /\ number \in Seq(Nat)
  BY GroupAssumption DEF GroupAssumption, ShardOf, TypeOK
<1>2. call[c] \in Call
  BY DEF TypeOK
<1>3. Idle \in Call /\ AfterSeq[call[c].kind] \in Phase
  BY <1>1, <1>2, CallFields, CallPhases
<1>4. \A p \in Phase : [call[c] EXCEPT !.pc = p] \in Call
  BY <1>2, CallUpdates
<1>6. ASSUME call' \in [Client -> Call'], UNCHANGED <<messageVars, hotVars, readVars>>
      PROVE  TypeOK'
  BY <1>6 DEF TypeOK, Message
<1>7. CASE Begin(c)
  <2>0. \A kind \in Kind :
            (IF kind = "recall" THEN Message ELSE {0}) \subseteq 0..Len(number)
    BY <1>1 DEF Message
  <2>1. PICK kind \in Kind, k \in 0..Len(number) :
            Continue(c, [Idle EXCEPT !.kind = kind, !.pc = FirstStep(kind),
                                     !.msg = k, !.start = Len(number)])
    BY <1>7, <2>0 DEF Begin
  <2>2. call' \in [Client -> Call']
    <3>1. UNCHANGED number
      BY <1>7 DEF Begin
    <3> QED
      BY <1>1, <2>1, <3>1, CallBegins, OneCall
  <2> QED
    BY <1>6, <1>7, <2>2 DEF Begin
<1>8. CASE Abandon(c) \/ Show(c)
  BY <1>3, <1>6, <1>8, OneCall DEF Abandon, Show
<1>9. CASE CompareLast(c)
  <2>1. "storelast" \in Phase
    BY DEF Phase
  <2> QED
    BY <1>3, <1>4, <1>6, <1>9, <2>1, OneCall DEF CompareLast
<1>10. CASE StoreLast(c)
  <2>1. last' \in [Shard -> 0..Len(number)]
    BY <1>1, <1>2, <1>10, CallFields DEF StoreLast, TypeOK
  <2>2. call' \in [Client -> Call']
    BY <1>3, <1>10, OneCall DEF StoreLast
  <2> QED
    BY <1>10, <2>1, <2>2 DEF StoreLast, TypeOK, Message
<1>11. CASE GetLast(c)
  <2>1. "seq" \in Phase /\ "dblast" \in Phase /\ last[First] \in 0..Len(number)
    BY <1>1 DEF Phase, TypeOK
  <2>2. [call[c] EXCEPT !.msg = last[First], !.pc = "seq"] \in Call
    BY <1>2, <2>1, CallUpdates
  <2> QED
    BY <1>4, <1>6, <1>11, <2>1, <2>2, OneCall DEF GetLast
<1>12. CASE DbLast(c)
  <2>1. "seq" \in Phase /\ Live \subseteq 0..Len(number)
    BY <1>1 DEF Phase, TypeOK, Live, Message
  <2>2. \A k \in Live : [call[c] EXCEPT !.msg = k, !.pc = "seq"] \in Call
    BY <1>2, <2>1, CallUpdates
  <2> QED
    BY <1>4, <1>6, <1>12, <2>1, <2>2, OneCall DEF DbLast
<1>13. CASE GetSeq(c)
  <2>1. "dbseq" \in Phase /\ seq[ShardOf(c)] \in Nat
    BY <1>1 DEF Phase, TypeOK
  <2>2. [call[c] EXCEPT !.seq = seq[ShardOf(c)], !.pc = AfterSeq[call[c].kind]] \in Call
    BY <1>2, <1>3, <2>1, CallUpdates
  <2> QED
    BY <1>4, <1>6, <1>13, <2>1, <2>2, OneCall DEF GetSeq
<1>14. CASE DbSeq(c)
  <2>1. PICK n \in {number[k] : k \in Live} \cup {0} :
            Continue(c, [call[c] EXCEPT !.seq = n,
                                !.pc = IF n > 0 THEN "setseq"
                                       ELSE AfterSeq[call[c].kind]])
    BY <1>14 DEF DbSeq
  <2>2. n \in Nat
    BY <2>1 DEF Live, TypeOK, Message
  <2>3. (IF n > 0 THEN "setseq" ELSE AfterSeq[call[c].kind]) \in Phase
    BY <1>3 DEF Phase
  <2>4. [call[c] EXCEPT !.seq = n, !.pc = IF n > 0 THEN "setseq"
                          ELSE AfterSeq[call[c].kind]] \in Call
    BY <1>2, <2>2, <2>3, CallUpdates
  <2> QED
    BY <1>6, <1>14, <2>1, <2>4, OneCall DEF DbSeq
<1>15. CASE SetSeq(c)
  <2>1. seq' \in [Shard -> Nat]
    BY <1>1, <1>2, <1>15, CallFields DEF SetSeq, TypeOK
  <2>2. call' \in [Client -> Call']
    BY <1>3, <1>4, <1>15, OneCall DEF SetSeq
  <2> QED
    BY <1>15, <2>1, <2>2 DEF SetSeq, TypeOK, Message
<1>16. CASE QueueEvent(c) \/ UpsertRow(c)
  <2>1. call' \in [Client -> Call']
    <3>1. "store" \in Phase
      BY DEF Phase
    <3> QED
      BY <1>4, <1>16, <3>1, OneCall DEF QueueEvent, UpsertRow
  <2>2. reads' \subseteq Nat /\ cursorRow' \in Nat
    BY <1>2, <1>16, CallFields DEF QueueEvent, UpsertRow, Greatest, TypeOK
  <2> QED
    BY <1>16, <2>1, <2>2 DEF QueueEvent, UpsertRow, TypeOK, Message
<1>17. CASE StoreRead(c)
  <2>1. readSeq' \in [Shard -> Nat \cup {Missing}] /\ answered' \in Nat
    BY <1>1, <1>2, <1>17, CallFields DEF StoreRead, Greatest, TypeOK
  <2>2. call' \in [Client -> Call']
    BY <1>3, <1>17, OneCall DEF StoreRead
  <2> QED
    BY <1>17, <2>1, <2>2 DEF StoreRead, TypeOK, Message
<1>18. CASE GetRead(c)
  <2>1. "show" \in Phase /\ "dbread" \in Phase
    BY DEF Phase
  <2>2. readSeq[First] # Missing => readSeq[First] \in Nat
    BY <1>1 DEF TypeOK
  <2>3. readSeq[First] # Missing =>
            [call[c] EXCEPT !.read = readSeq[First], !.pc = "show"] \in Call
    BY <1>2, <2>1, <2>2, CallUpdates
  <2> QED
    BY <1>4, <1>6, <1>18, <2>1, <2>3, OneCall DEF GetRead
<1>19. CASE DbRead(c)
  <2>1. /\ (IF cursorRow > 0 THEN "fillread" ELSE "show") \in Phase
        /\ cursorRow \in Nat
    BY DEF Phase, TypeOK
  <2>2. [call[c] EXCEPT !.read = cursorRow,
                        !.pc = IF cursorRow > 0 THEN "fillread" ELSE "show"] \in Call
    BY <1>2, <2>1, CallUpdates
  <2> QED
    BY <1>6, <1>19, <2>2, OneCall DEF DbRead
<1>20. CASE FillRead(c)
  <2>1. readSeq' \in [Shard -> Nat \cup {Missing}]
    BY <1>1, <1>2, <1>20, CallFields DEF FillRead, TypeOK
  <2>2. call' \in [Client -> Call']
    <3>1. "show" \in Phase
      BY DEF Phase
    <3> QED
      BY <1>4, <1>20, <3>1, OneCall DEF FillRead
  <2> QED
    BY <1>20, <2>1, <2>2 DEF FillRead, TypeOK, Message
<1> QED
  BY <1>7, <1>8, <1>9, <1>10, <1>11, <1>12, <1>13, <1>14, <1>15, <1>16, <1>17,
     <1>18, <1>19, <1>20 DEF Step

\* ... and the writer.
LEMMA TypeFlush ==
    ASSUME TypeOK, NEW S \in SUBSET reads, FlushReads(S)
    PROVE  TypeOK'
BY DEF TypeOK, FlushReads, IsGreatest, Greatest, messageVars, hotVars, Message, Call

LEMMA TypeInit == Init => TypeOK
<1> SUFFICES ASSUME Init PROVE TypeOK
  OBVIOUS
<1> USE GroupAssumption DEF GroupAssumption, Init
<1>1. number \in Seq(Nat) /\ Len(number) = Initial
  OBVIOUS
<1>2. Idle \in Call
  BY <1>1, CallPhases
<1> QED
  BY <1>1, <1>2 DEF TypeOK, Message, Missing

LEMMA TypeStep == TypeOK /\ [Next]_vars => TypeOK'
<1> SUFFICES ASSUME TypeOK, [Next]_vars PROVE TypeOK'
  OBVIOUS
<1>1. CASE Next
  BY <1>1, TypeMessages, TypeRequests, TypeFlush DEF Next
<1>2. CASE UNCHANGED vars
  BY <1>2 DEF TypeOK, vars, messageVars, hotVars, readVars, Message, Call
<1> QED
  BY <1>1, <1>2

\* In every behaviour every variable has its type.
THEOREM TypeCorrect == Spec => []TypeOK
BY TypeInit, TypeStep, PTL DEF Spec
-----------------------------------------------------------------------------
(* Read positions *)

\* A position somebody asked to mark, or a lower one: a queued event or the
\* row has it.
BackedBy(n, queued, stored) == \E m \in queued \cup {stored} : n =< m
Backed(n) == BackedBy(n, reads, cursorRow)

\* Besides the hot positions, those a request is about to store or to show.
ReadInv ==
    /\ HotReadIsBacked
    /\ \A c \in Client : /\ Backed(call[c].read)
                         /\ call[c].pc = "store" => Backed(call[c].seq)

\* What a request is about when it begins is a message, or none.
LEMMA Subject ==
    ASSUME TypeOK, NEW kind
    PROVE  (IF kind = "recall" THEN Message ELSE {0}) \subseteq 0..Len(number)
BY DEF TypeOK, Message

\* What a request's record is after a step of it.
LEMMA Continued ==
    ASSUME TypeOK, NEW c \in Client, NEW r, Continue(c, r)
    PROVE  /\ call'[c] = r
           /\ \A d \in Client : d # c => call'[d] = call[d]
BY DEF TypeOK, Continue

\* What is backed stays so when positions are only added or raised.
LEMMA BackedGrows ==
    ASSUME TypeOK, NEW n \in Int, Backed(n),
           reads \subseteq reads', cursorRow' \in Nat, cursorRow =< cursorRow'
    PROVE  BackedBy(n, reads', cursorRow')
BY DEF TypeOK, Backed, BackedBy

\* A step of a request that touches no position and does not come to store one
\* keeps ReadInv, if what it is about to show is backed.
LEMMA ReadUntouched ==
    ASSUME TypeOK, ReadInv, NEW c \in Client, NEW r, Continue(c, r),
           Backed(r.read), r.pc # "store",
           UNCHANGED <<readSeq, reads, cursorRow>>
    PROVE  ReadInv'
<1>1. \A d \in Client : /\ Backed(call'[d].read)
                        /\ call'[d].pc = "store" => Backed(call'[d].seq)
  BY Continued DEF ReadInv
<1> QED
  BY <1>1 DEF ReadInv, HotReadIsBacked, Backed

LEMMA ReadRequests ==
    ASSUME TypeOK, ReadInv, NEW c \in Client, Begin(c) \/ Step(c) \/ Abandon(c)
    PROVE  ReadInv'
<1> USE DEF hotVars, readVars, Goto, End, At
<1>1. /\ Home \in Shard /\ First \in Shard
      /\ call[c] \in Call /\ cursorRow \in Nat /\ number \in Seq(Nat)
  BY GroupAssumption DEF GroupAssumption, TypeOK
<1>2. Backed(call[c].read) /\ Backed(0)
  <2>1. 0 =< cursorRow
    BY <1>1
  <2> QED
    BY <2>1 DEF ReadInv, Backed, BackedBy
<1>3. CASE Begin(c)
  <2>1. PICK kind \in Kind, k \in 0..Len(number) :
            Continue(c, [Idle EXCEPT !.kind = kind, !.pc = FirstStep(kind),
                                     !.msg = k, !.start = Len(number)])
    BY <1>3, Subject DEF Begin
  <2> DEFINE r == [Idle EXCEPT !.kind = kind, !.pc = FirstStep(kind),
                               !.msg = k, !.start = Len(number)]
  <2>2. r.read = 0 /\ r.pc # "store"
    BY DEF Idle, FirstStep
  <2>3. UNCHANGED <<readSeq, reads, cursorRow>>
    BY <1>3 DEF Begin
  <2> HIDE DEF r
  <2>4. Continue(c, r)
    BY <2>1 DEF r
  <2> QED
    BY <1>2, <2>2, <2>3, <2>4, ReadUntouched
<1>4. Idle.read = 0 /\ Idle.pc = "idle"
  BY DEF Idle
<1>5. ASSUME NEW pc \in Phase
      PROVE  /\ [call[c] EXCEPT !.pc = pc].pc = pc
             /\ [call[c] EXCEPT !.pc = pc].read = call[c].read
             /\ [call[c] EXCEPT !.pc = pc].seq = call[c].seq
  BY <1>1 DEF Call
<1>6. AfterSeq[call[c].kind] \in Phase \ {"store"}
  BY <1>1, CallFields DEF AfterSeq, Kind, Phase
<1>7. CASE Abandon(c) \/ Show(c)
  BY <1>2, <1>4, <1>7, ReadUntouched DEF Abandon, Show
<1>8. CASE CompareLast(c) \/ StoreLast(c)
  <2>1. "storelast" \in Phase
    BY DEF Phase
  <2> QED
    BY <1>2, <1>4, <1>5, <1>8, <2>1, ReadUntouched DEF CompareLast, StoreLast
<1>9. CASE GetLast(c)
  <2>1. [call[c] EXCEPT !.msg = last[First], !.pc = "seq"].pc = "seq"
        /\ [call[c] EXCEPT !.msg = last[First], !.pc = "seq"].read = call[c].read
    BY <1>1 DEF Call
  <2>2. "dblast" \in Phase
    BY DEF Phase
  <2> QED
    BY <1>2, <1>5, <1>9, <2>1, <2>2, ReadUntouched DEF GetLast
<1>10. CASE DbLast(c)
  <2>1. \A k : /\ [call[c] EXCEPT !.msg = k, !.pc = "seq"].pc = "seq"
               /\ [call[c] EXCEPT !.msg = k, !.pc = "seq"].read = call[c].read
    BY <1>1 DEF Call
  <2>2. "seq" \in Phase
    BY DEF Phase
  <2> QED
    BY <1>2, <1>5, <1>10, <2>1, <2>2, ReadUntouched DEF DbLast
<1>11. \A n, pc : /\ [call[c] EXCEPT !.seq = n, !.pc = pc].pc = pc
                  /\ [call[c] EXCEPT !.seq = n, !.pc = pc].read = call[c].read
  BY <1>1 DEF Call
<1>12. CASE GetSeq(c)
  <2>1. "dbseq" \in Phase
    BY DEF Phase
  <2>2. AfterSeq[call[c].kind] # "store"
    BY <1>6
  <2>3. LET r == [call[c] EXCEPT !.seq = seq[ShardOf(c)],
                                 !.pc = AfterSeq[call[c].kind]]
        IN  r.pc # "store" /\ r.read = call[c].read
    BY <1>11, <2>2
  <2> QED
    BY <1>2, <1>5, <1>12, <2>1, <2>3, ReadUntouched DEF GetSeq
<1>13. CASE DbSeq(c)
  <2>1. PICK n :
            Continue(c, [call[c] EXCEPT !.seq = n,
                                !.pc = IF n > 0 THEN "setseq"
                                       ELSE AfterSeq[call[c].kind]])
    BY <1>13 DEF DbSeq
  <2>2. (IF n > 0 THEN "setseq" ELSE AfterSeq[call[c].kind]) # "store"
    BY <1>6
  <2> DEFINE pc == IF n > 0 THEN "setseq" ELSE AfterSeq[call[c].kind]
             r  == [call[c] EXCEPT !.seq = n, !.pc = pc]
  <2>3. r.pc # "store" /\ r.read = call[c].read
    BY <1>11, <2>2
  <2>4. Continue(c, r) /\ UNCHANGED <<readSeq, reads, cursorRow>>
    BY <1>13, <2>1 DEF DbSeq
  <2> HIDE DEF r, pc
  <2> QED
    BY <1>2, <2>3, <2>4, ReadUntouched
<1>14. CASE SetSeq(c)
  BY <1>2, <1>5, <1>6, <1>14, ReadUntouched DEF SetSeq
<1>15. CASE QueueEvent(c) \/ UpsertRow(c)
  <2>1. /\ reads \subseteq reads' /\ cursorRow' \in Nat /\ cursorRow =< cursorRow'
        /\ readSeq' = readSeq /\ Continue(c, [call[c] EXCEPT !.pc = "store"])
    BY <1>1, <1>15, CallFields DEF QueueEvent, UpsertRow, Greatest
  <2>2. BackedBy(call[c].seq, reads', cursorRow')
    <3>1. call[c].seq \in Nat
      BY <1>1, CallFields
    <3>2. CASE QueueEvent(c)
      BY <3>1, <3>2 DEF QueueEvent, BackedBy
    <3>3. CASE UpsertRow(c)
      <4>1. call[c].seq =< cursorRow'
        BY <1>1, <3>1, <3>3 DEF UpsertRow, Greatest
      <4> QED
        BY <4>1 DEF BackedBy
    <3> QED
      BY <1>15, <3>2, <3>3
  <2>3. /\ call'[c].read = call[c].read /\ call'[c].seq = call[c].seq
        /\ \A d \in Client : d # c => call'[d] = call[d]
    <3>1. "store" \in Phase
      BY DEF Phase
    <3>2. call'[c] = [call[c] EXCEPT !.pc = "store"]
      BY <2>1, Continued
    <3> QED
      BY <1>5, <2>1, <3>1, <3>2, Continued
  <2>4. ASSUME NEW d \in Client
        PROVE  /\ BackedBy(call'[d].read, reads', cursorRow')
               /\ call'[d].pc = "store" => BackedBy(call'[d].seq, reads', cursorRow')
    <3>1. call[d].read \in Int /\ call[d].seq \in Int
      <4>1. call[d] \in Call
        BY DEF TypeOK
      <4> QED
        BY <4>1, CallFields
    <3>2. Backed(call[d].read) /\ (call[d].pc = "store" => Backed(call[d].seq))
      BY DEF ReadInv
    <3>3. /\ BackedBy(call[d].read, reads', cursorRow')
          /\ call[d].pc = "store" => BackedBy(call[d].seq, reads', cursorRow')
      BY <2>1, <3>1, <3>2, BackedGrows
    <3> QED
      BY <2>2, <2>3, <3>3
  <2>5. HotReadIsBacked'
    <3>1. ASSUME NEW s \in Shard, readSeq[s] # Missing
          PROVE  BackedBy(readSeq[s], reads', cursorRow')
      <4>1. readSeq[s] \in Int /\ Backed(readSeq[s])
        BY <3>1 DEF TypeOK, ReadInv, HotReadIsBacked, Backed, BackedBy
      <4> QED
        BY <2>1, <4>1, BackedGrows
    <3> QED
      BY <2>1, <3>1 DEF HotReadIsBacked, BackedBy
  <2> QED
    BY <2>4, <2>5 DEF ReadInv, Backed
<1>16. CASE StoreRead(c)
  <2>1. HotReadIsBacked'
    BY <1>1, <1>16 DEF StoreRead, ReadInv, HotReadIsBacked, Backed, BackedBy, TypeOK
  <2>2. \A d \in Client : /\ Backed(call'[d].read)
                          /\ call'[d].pc = "store" => Backed(call'[d].seq)
    BY <1>2, <1>4, <1>16, Continued DEF StoreRead, ReadInv
  <2> QED
    BY <1>16, <2>1, <2>2 DEF StoreRead, ReadInv, Backed
<1>17. \A n, pc : /\ [call[c] EXCEPT !.read = n, !.pc = pc].pc = pc
                  /\ [call[c] EXCEPT !.read = n, !.pc = pc].read = n
  BY <1>1 DEF Call
<1>18. CASE GetRead(c)
  <2>1. "dbread" \in Phase
    BY DEF Phase
  <2>2. readSeq[First] # Missing => Backed(readSeq[First])
    BY <1>1 DEF ReadInv, HotReadIsBacked, Backed, BackedBy
  <2>3. /\ [call[c] EXCEPT !.read = readSeq[First], !.pc = "show"].pc # "store"
        /\ [call[c] EXCEPT !.read = readSeq[First], !.pc = "show"].read = readSeq[First]
    BY <1>17
  <2> QED
    BY <1>2, <1>5, <1>18, <2>1, <2>2, <2>3, ReadUntouched DEF GetRead
<1>19. CASE DbRead(c)
  <2>1. Backed(cursorRow)
    BY <1>1 DEF Backed, BackedBy
  <2> DEFINE pc == IF cursorRow > 0 THEN "fillread" ELSE "show"
             r  == [call[c] EXCEPT !.read = cursorRow, !.pc = pc]
  <2>2. r.pc # "store" /\ r.read = cursorRow
    BY <1>17
  <2>3. Continue(c, r) /\ UNCHANGED <<readSeq, reads, cursorRow>>
    BY <1>19 DEF DbRead
  <2> HIDE DEF r, pc
  <2> QED
    BY <2>1, <2>2, <2>3, ReadUntouched
<1>20. CASE FillRead(c)
  <2>1. HotReadIsBacked'
    BY <1>1, <1>2, <1>20 DEF FillRead, ReadInv, HotReadIsBacked, Backed, BackedBy, TypeOK
  <2>2. \A d \in Client : /\ Backed(call'[d].read)
                          /\ call'[d].pc = "store" => Backed(call'[d].seq)
    <3>1. "show" \in Phase
      BY DEF Phase
    <3>2. call'[c] = [call[c] EXCEPT !.pc = "show"]
      BY <1>20, Continued DEF FillRead
    <3>3. /\ call'[c].read = call[c].read /\ call'[c].pc = "show"
          /\ \A d \in Client : d # c => call'[d] = call[d]
      BY <1>5, <1>20, <3>1, <3>2, Continued DEF FillRead
    <3> QED
      BY <1>2, <3>2, <3>3 DEF ReadInv
  <2> QED
    BY <1>20, <2>1, <2>2 DEF FillRead, ReadInv, Backed
<1> QED
  BY <1>3, <1>7, <1>8, <1>9, <1>10, <1>12, <1>13, <1>14, <1>15, <1>16, <1>18,
     <1>19, <1>20 DEF Step

\* The writer takes a position from the queue only after the row has it.
LEMMA ReadFlush ==
    ASSUME TypeOK, ReadInv, NEW S \in SUBSET reads, FlushReads(S)
    PROVE  ReadInv'
<1>1. PICK n \in S : IsGreatest(n, S) /\ cursorRow' = Greatest(cursorRow, n)
  BY DEF FlushReads
<1>2. /\ n \in Nat /\ cursorRow \in Nat /\ reads \subseteq Nat
      /\ \A m \in S : m =< n
  BY <1>1 DEF TypeOK, IsGreatest
<1>3. ASSUME NEW k \in Int, Backed(k) PROVE BackedBy(k, reads', cursorRow')
  <2>1. PICK m \in reads \cup {cursorRow} : k =< m
    BY <1>3 DEF Backed, BackedBy
  <2>2. CASE m \in reads'
    BY <2>1, <2>2 DEF BackedBy
  <2>3. CASE m \notin reads'
    <3>1. m =< cursorRow'
      BY <1>1, <1>2, <2>1, <2>3 DEF FlushReads, Greatest
    <3>2. cursorRow' \in Int /\ m \in Int
      BY <1>1, <1>2, <2>1 DEF Greatest
    <3>3. k =< cursorRow'
      BY <2>1, <3>1, <3>2
    <3> QED
      BY <3>3 DEF BackedBy
  <2> QED
    BY <2>2, <2>3
<1>4. call' = call /\ readSeq' = readSeq
  BY DEF FlushReads, hotVars
<1>5. HotReadIsBacked'
  <2>1. ASSUME NEW s \in Shard, readSeq[s] # Missing
        PROVE  BackedBy(readSeq[s], reads', cursorRow')
    <3>1. readSeq[s] \in Int /\ Backed(readSeq[s])
      BY <2>1 DEF TypeOK, ReadInv, HotReadIsBacked, Backed, BackedBy
    <3> QED
      BY <1>3, <3>1
  <2> QED
    BY <1>4, <2>1 DEF HotReadIsBacked, BackedBy
<1>6. ASSUME NEW d \in Client
      PROVE  /\ BackedBy(call[d].read, reads', cursorRow')
             /\ call[d].pc = "store" => BackedBy(call[d].seq, reads', cursorRow')
  <2>1. call[d] \in Call
    BY DEF TypeOK
  <2>2. call[d].read \in Int /\ call[d].seq \in Int
    BY <2>1, CallFields
  <2>3. Backed(call[d].read) /\ (call[d].pc = "store" => Backed(call[d].seq))
    BY DEF ReadInv
  <2> QED
    BY <1>3, <2>2, <2>3
<1> QED
  BY <1>4, <1>5, <1>6 DEF ReadInv, Backed

LEMMA ReadStep == TypeOK /\ ReadInv /\ [Next]_vars => ReadInv'
<1> SUFFICES ASSUME TypeOK, ReadInv, [Next]_vars PROVE ReadInv'
  OBVIOUS
<1>1. CASE UNCHANGED <<readSeq, reads, cursorRow, call>>
  BY <1>1 DEF ReadInv, HotReadIsBacked, Backed
<1>2. CASE Send \/ ExpireLast \/ \E k \in Message : Persist(k) \/ DeleteRow(k)
  BY <1>1, <1>2 DEF Send, ExpireLast, Persist, DeleteRow, hotVars, readVars
<1>3. CASE UNCHANGED vars
  BY <1>1, <1>3 DEF vars, hotVars, readVars
<1> QED
  BY <1>2, <1>3, ReadRequests, ReadFlush DEF Next

LEMMA ReadInit == Init => ReadInv
BY GroupAssumption
   DEF Init, ReadInv, HotReadIsBacked, Backed, BackedBy, Idle, Missing,
       GroupAssumption

\* Every hot read position is backed by a queued event or by the row.
THEOREM ReadsAreBacked == Spec => []HotReadIsBacked
<1>1. Init => ReadInv
  BY ReadInit
<1>2. ReadInv => HotReadIsBacked
  BY DEF ReadInv
<1> QED
  BY <1>1, <1>2, TypeCorrect, ReadStep, PTL DEF Spec

\* No step takes the cursor row back.
THEOREM CursorMonotone == Spec => CursorNeverRegresses
<1>1. TypeOK /\ [Next]_vars => [cursorRow =< cursorRow']_cursorRow
  <2> SUFFICES ASSUME TypeOK, Next, cursorRow' # cursorRow
               PROVE  cursorRow =< cursorRow'
    BY DEF vars, readVars
  <2> USE DEF readVars
  <2>1. cursorRow \in Nat /\ reads \subseteq Nat
    BY DEF TypeOK
  <2>2. ~(Send \/ ExpireLast \/ \E k \in Message : Persist(k) \/ DeleteRow(k))
    BY DEF Send, ExpireLast, Persist, DeleteRow
  <2>3. CASE \E S \in SUBSET reads : FlushReads(S)
    BY <2>1, <2>3 DEF FlushReads, Greatest
  <2>4. ASSUME NEW c \in Client, Begin(c) \/ Step(c) \/ Abandon(c)
        PROVE  cursorRow =< cursorRow'
    <3>1. UpsertRow(c)
      BY <2>4 DEF Begin, Abandon, Step, CompareLast, StoreLast, GetLast, DbLast,
                  GetSeq, DbSeq, SetSeq, QueueEvent, StoreRead, GetRead, DbRead,
                  FillRead, Show
    <3>2. call[c].seq \in Nat
      BY CallFields DEF TypeOK
    <3> QED
      BY <2>1, <3>1, <3>2 DEF UpsertRow, Greatest
  <2> QED
    BY <2>2, <2>3, <2>4 DEF Next
<1> QED
  BY <1>1, TypeCorrect, PTL DEF Spec, CursorNeverRegresses

-----------------------------------------------------------------------------
(* Message numbers, in a group that has one when the behaviour begins *)

\* The sequence key of the group counts the messages and is never refilled.
SeqInv ==
    /\ Len(number) > 0
    /\ seq[Home] = Len(number)
    /\ \A k \in Message : number[k] = k
    /\ \A c \in Client :
            call[c].pc \in {"dbseq", "setseq"} => ShardOf(c) # Home

\* A request that is not about to refill the key of the group keeps SeqInv.
LEMMA SeqUntouched ==
    ASSUME TypeOK, SeqInv, NEW c \in Client, NEW r, Continue(c, r),
           r.pc \in {"dbseq", "setseq"} => r.kind = "list" /\ First # Home,
           UNCHANGED number, seq'[Home] = seq[Home]
    PROVE  SeqInv'
<1>1. ASSUME NEW d \in Client, call'[d].pc \in {"dbseq", "setseq"}
      PROVE  (IF call'[d].kind = "list" THEN First ELSE Home) # Home
  BY <1>1, Continued DEF SeqInv, ShardOf
<1> QED
  BY <1>1 DEF SeqInv, Message, ShardOf

LEMMA SeqRequests ==
    ASSUME TypeOK, SeqInv, NEW c \in Client, Begin(c) \/ Step(c) \/ Abandon(c)
    PROVE  SeqInv'
<1> USE DEF messageVars, hotVars, readVars, Goto, End, At
<1>1. /\ Home \in Shard /\ ShardOf(c) \in Shard /\ number \in Seq(Nat)
      /\ call[c] \in Call
  BY GroupAssumption DEF GroupAssumption, ShardOf, TypeOK
<1>2. Idle.pc = "idle"
  BY DEF Idle
<1>3. \A pc : /\ [call[c] EXCEPT !.pc = pc].pc = pc
              /\ [call[c] EXCEPT !.pc = pc].kind = call[c].kind
  BY <1>1 DEF Call
<1>4. AfterSeq[call[c].kind] \notin {"dbseq", "setseq"}
  BY <1>1, CallFields DEF AfterSeq, Kind
<1>5. CASE Begin(c)
  <2>1. PICK kind \in Kind, k \in 0..Len(number) :
            Continue(c, [Idle EXCEPT !.kind = kind, !.pc = FirstStep(kind),
                                     !.msg = k, !.start = Len(number)])
    BY <1>5, Subject DEF Begin
  <2> DEFINE r == [Idle EXCEPT !.kind = kind, !.pc = FirstStep(kind),
                               !.msg = k, !.start = Len(number)]
  <2>2. r.pc \notin {"dbseq", "setseq"}
    BY DEF Idle, FirstStep
  <2>3. Continue(c, r) /\ UNCHANGED <<number, seq>>
    BY <1>5, <2>1 DEF Begin
  <2> HIDE DEF r
  <2> QED
    BY <2>2, <2>3, SeqUntouched
<1>6. CASE Abandon(c) \/ Show(c) \/ CompareLast(c) \/ StoreLast(c) \/ StoreRead(c)
  BY <1>2, <1>3, <1>6, SeqUntouched
     DEF Abandon, Show, CompareLast, StoreLast, StoreRead
<1>7. CASE GetLast(c)
  <2>1. [call[c] EXCEPT !.msg = last[First], !.pc = "seq"].pc = "seq"
    BY <1>1 DEF Call
  <2> QED
    BY ZenonT(30), <1>3, <1>7, <2>1, SeqUntouched DEF GetLast
<1>8. CASE DbLast(c)
  <2>1. \A k : [call[c] EXCEPT !.msg = k, !.pc = "seq"].pc = "seq"
    BY <1>1 DEF Call
  <2> QED
    BY <1>3, <1>8, <2>1, SeqUntouched DEF DbLast
<1>9. \A n, pc : /\ [call[c] EXCEPT !.seq = n, !.pc = pc].pc = pc
                 /\ [call[c] EXCEPT !.seq = n, !.pc = pc].kind = call[c].kind
  BY <1>1 DEF Call
<1>10. CASE GetSeq(c)
  <2>1. CASE seq[ShardOf(c)] # 0
    <3> DEFINE r == [call[c] EXCEPT !.seq = seq[ShardOf(c)],
                                    !.pc = AfterSeq[call[c].kind]]
    <3>1. r.pc \notin {"dbseq", "setseq"}
      BY <1>4, <1>9
    <3>2. Continue(c, r) /\ UNCHANGED <<number, seq>>
      BY <1>10, <2>1 DEF GetSeq
    <3> HIDE DEF r
    <3> QED
      BY <3>1, <3>2, SeqUntouched
  <2>2. CASE seq[ShardOf(c)] = 0
    <3>1. ShardOf(c) # Home
      BY <2>2 DEF SeqInv
    <3>2. call[c].kind = "list" /\ First # Home
      BY <3>1 DEF ShardOf
    <3> QED
      BY <1>3, <1>10, <2>2, <3>2, SeqUntouched DEF GetSeq
  <2> QED
    BY <2>1, <2>2
<1>11. call[c].pc \in {"dbseq", "setseq"} => call[c].kind = "list" /\ First # Home
  BY DEF SeqInv, ShardOf
<1>12. CASE DbSeq(c)
  <2>1. PICK n :
            Continue(c, [call[c] EXCEPT !.seq = n,
                                !.pc = IF n > 0 THEN "setseq"
                                       ELSE AfterSeq[call[c].kind]])
    BY <1>12 DEF DbSeq
  <2> DEFINE pc == IF n > 0 THEN "setseq" ELSE AfterSeq[call[c].kind]
             r  == [call[c] EXCEPT !.seq = n, !.pc = pc]
  <2>2. r.kind = "list" /\ First # Home
    BY <1>9, <1>11, <1>12 DEF DbSeq
  <2>3. Continue(c, r) /\ UNCHANGED <<number, seq>>
    BY <1>12, <2>1 DEF DbSeq
  <2> HIDE DEF r, pc
  <2> QED
    BY <2>2, <2>3, SeqUntouched
<1>13. CASE SetSeq(c)
  <2>1. ShardOf(c) # Home
    BY <1>13 DEF SetSeq, SeqInv
  <2>2. seq'[Home] = seq[Home]
    BY <1>1, <1>13, <2>1 DEF SetSeq, TypeOK
  <2> QED
    BY <1>3, <1>4, <1>13, <2>2, SeqUntouched DEF SetSeq
<1>14. CASE QueueEvent(c) \/ UpsertRow(c)
  BY <1>3, <1>14, SeqUntouched DEF QueueEvent, UpsertRow
<1>15. \A n, pc : [call[c] EXCEPT !.read = n, !.pc = pc].pc = pc
  BY <1>1 DEF Call
<1>16. CASE GetRead(c)
  <2>1. [call[c] EXCEPT !.read = readSeq[First], !.pc = "show"].pc = "show"
    BY <1>15
  <2> QED
    BY ZenonT(30), <1>3, <1>16, <2>1, SeqUntouched DEF GetRead
<1>17. CASE DbRead(c)
  <2> DEFINE pc == IF cursorRow > 0 THEN "fillread" ELSE "show"
             r  == [call[c] EXCEPT !.read = cursorRow, !.pc = pc]
  <2>1. r.pc \notin {"dbseq", "setseq"}
    BY <1>15
  <2>2. Continue(c, r) /\ UNCHANGED <<number, seq>>
    BY <1>17 DEF DbRead
  <2> HIDE DEF r, pc
  <2> QED
    BY <2>1, <2>2, SeqUntouched
<1>18. CASE FillRead(c)
  BY <1>3, <1>18, SeqUntouched DEF FillRead
<1> QED
  BY <1>5, <1>6, <1>7, <1>8, <1>10, <1>12, <1>13, <1>14, <1>16, <1>17, <1>18
     DEF Step

LEMMA SeqStep == TypeOK /\ SeqInv /\ [Next]_vars => SeqInv'
<1> SUFFICES ASSUME TypeOK, SeqInv, [Next]_vars PROVE SeqInv'
  OBVIOUS
<1> USE DEF messageVars, hotVars, readVars
<1>1. CASE UNCHANGED <<number, seq, call>>
  BY <1>1 DEF SeqInv, Message, ShardOf
<1>2. CASE Send
  <2>1. /\ number' = Append(number, Len(number) + 1)
        /\ seq'[Home] = Len(number) + 1
    BY <1>2, GroupAssumption DEF Send, SeqInv, TypeOK, GroupAssumption
  <2>2. Len(number') = Len(number) + 1 /\ \A k \in 1..Len(number') : number'[k] = k
    BY <2>1 DEF TypeOK, SeqInv, Message
  <2> QED
    BY <1>2, <2>1, <2>2 DEF Send, SeqInv, Message, ShardOf, TypeOK
<1>3. CASE ExpireLast \/ \E k \in Message : Persist(k) \/ DeleteRow(k)
  BY <1>1, <1>3 DEF ExpireLast, Persist, DeleteRow
<1>4. CASE \E S \in SUBSET reads : FlushReads(S)
  BY <1>1, <1>4 DEF FlushReads
<1>5. CASE UNCHANGED vars
  BY <1>1, <1>5 DEF vars
<1> QED
  BY <1>2, <1>3, <1>4, <1>5, SeqRequests DEF Next

LEMMA SeqInit == Initial > 0 /\ Init => SeqInv
<1> SUFFICES ASSUME Initial > 0, Init PROVE SeqInv
  OBVIOUS
<1>1. Len(number) = Initial
  BY GroupAssumption DEF Init, GroupAssumption
<1> QED
  BY <1>1, GroupAssumption DEF Init, SeqInv, Message, Idle, GroupAssumption

\* In a group that has a message when the behaviour begins no two messages get
\* the same number.
THEOREM NumbersAreUnique ==
    ASSUME Initial > 0
    PROVE  Spec => []SequencesAreUnique
<1>1. Init => SeqInv
  BY SeqInit
<1>2. SeqInv => SequencesAreUnique
  BY DEF SeqInv, SequencesAreUnique
<1> QED
  BY <1>1, <1>2, TypeCorrect, SeqStep, PTL DEF Spec
-----------------------------------------------------------------------------
(* The unread count, when the list reads the group's own shard *)

\* A recall is about a message.  A list that has found no last message was
\* requested when all messages had rows, and these rows are deleted; its
\* sequence covers the messages that were there.
RequestInv(r) ==
    /\ r.kind = "recall" => r.msg # 0
    /\ r.kind = "list" =>
        /\ r.pc = "dblast" => 1..r.start \subseteq row
        /\ r.pc \notin {"idle", "last", "dblast"} /\ r.msg = 0
                => 1..r.start \subseteq deleted
        /\ r.pc \in {"read", "dbread", "fillread", "show"} => r.start =< r.seq

UnreadInv ==
    /\ last[Home] = 0 => row = Message
    /\ \A c \in Client : RequestInv(call[c])

\* A request whose new state is right, and that leaves the messages alone,
\* keeps UnreadInv.
LEMMA UnreadUntouched ==
    ASSUME TypeOK, UnreadInv, NEW c \in Client, NEW r, Continue(c, r),
           RequestInv(r), UNCHANGED <<number, row, deleted>>,
           last'[Home] # 0 \/ last'[Home] = last[Home]
    PROVE  UnreadInv'
<1>1. \A d \in Client : RequestInv(call'[d])
  BY Continued DEF UnreadInv
<1> QED
  BY <1>1 DEF UnreadInv, RequestInv, Message

LEMMA UnreadRequests ==
    ASSUME First = Home, TypeOK, SeqInv, UnreadInv, NEW c \in Client,
           Begin(c) \/ Step(c) \/ Abandon(c)
    PROVE  UnreadInv'
<1> USE DEF messageVars, hotVars, readVars, Goto, End, At
<1>1. /\ Home \in Shard /\ number \in Seq(Nat) /\ call[c] \in Call
      /\ row \subseteq 1..Len(number)
  BY GroupAssumption DEF GroupAssumption, TypeOK, Message
<1>2. RequestInv(Idle) /\ RequestInv(call[c])
  BY DEF Idle, RequestInv, UnreadInv
<1>3. \A pc : LET r == [call[c] EXCEPT !.pc = pc]
              IN  /\ r.pc = pc /\ r.kind = call[c].kind /\ r.msg = call[c].msg
                  /\ r.seq = call[c].seq /\ r.start = call[c].start
  BY <1>1 DEF Call
<1>4. call[c].start \in 0..Len(number)
  BY <1>1, CallFields
<1>5. CASE Begin(c)
  <2>1. PICK kind \in Kind, k \in 0..Len(number) :
            /\ k \in IF kind = "recall" THEN Message ELSE {0}
            /\ Continue(c, [Idle EXCEPT !.kind = kind, !.pc = FirstStep(kind),
                                     !.msg = k, !.start = Len(number)])
    BY <1>5, Subject DEF Begin
  <2> DEFINE r == [Idle EXCEPT !.kind = kind, !.pc = FirstStep(kind),
                               !.msg = k, !.start = Len(number)]
  <2>2. kind = "recall" => k # 0
    BY <2>1 DEF Message
  <2>3. r.kind = kind /\ r.msg = k /\ r.pc = FirstStep(kind)
    BY DEF Idle
  <2>4. Continue(c, r) /\ UNCHANGED <<number, row, deleted, last>>
    BY <1>5, <2>1 DEF Begin
  <2> HIDE DEF r
  <2>5. RequestInv(r)
    BY <2>2, <2>3 DEF RequestInv, FirstStep
  <2> QED
    BY <2>4, <2>5, UnreadUntouched
<1>6. CASE Abandon(c) \/ Show(c) \/ StoreRead(c)
  BY <1>2, <1>6, UnreadUntouched DEF Abandon, Show, StoreRead
<1>7. CASE CompareLast(c)
  <2>1. RequestInv([call[c] EXCEPT !.pc = "storelast"])
    BY <1>2, <1>3, <1>7 DEF CompareLast, RequestInv
  <2> QED
    BY <1>2, <1>7, <2>1, UnreadUntouched DEF CompareLast
<1>8. CASE StoreLast(c)
  <2>1. last'[Home] # 0
    BY <1>1, <1>2, <1>8 DEF StoreLast, RequestInv, TypeOK
  <2> QED
    BY <1>2, <1>8, <2>1, UnreadUntouched DEF StoreLast
<1>9. \A k, pc : LET r == [call[c] EXCEPT !.msg = k, !.pc = pc]
                 IN  /\ r.pc = pc /\ r.kind = call[c].kind /\ r.msg = k
                     /\ r.seq = call[c].seq /\ r.start = call[c].start
  BY <1>1 DEF Call
<1>10. CASE GetLast(c)
  <2>1. CASE last[First] # 0
    <3> DEFINE r == [call[c] EXCEPT !.msg = last[First], !.pc = "seq"]
    <3>1. RequestInv(r)
      BY <1>9, <1>10, <2>1 DEF GetLast, RequestInv
    <3>2. Continue(c, r) /\ UNCHANGED <<number, row, deleted, last>>
      BY <1>10, <2>1 DEF GetLast
    <3> HIDE DEF r
    <3> QED
      BY <3>1, <3>2, UnreadUntouched
  <2>2. CASE last[First] = 0
    <3>1. 1..call[c].start \subseteq row
      BY <1>1, <1>4, <2>2 DEF UnreadInv, Message
    <3>2. RequestInv([call[c] EXCEPT !.pc = "dblast"])
      BY <1>3, <1>10, <3>1 DEF GetLast, RequestInv
    <3> QED
      BY <1>10, <2>2, <3>2, UnreadUntouched DEF GetLast
  <2> QED
    BY <2>1, <2>2
<1>11. CASE DbLast(c)
  <2>1. call[c].kind = "list" /\ 1..call[c].start \subseteq row
    BY <1>2, <1>11 DEF DbLast, RequestInv
  <2>2. CASE Live = {} /\ Continue(c, [call[c] EXCEPT !.pc = "seq"])
    <3>1. 1..call[c].start \subseteq deleted
      BY <2>1, <2>2 DEF Live
    <3>2. RequestInv([call[c] EXCEPT !.pc = "seq"])
      BY <1>3, <2>1, <3>1 DEF RequestInv
    <3> QED
      BY <1>11, <2>2, <3>2, UnreadUntouched DEF DbLast
  <2>3. ASSUME NEW k \in Live, Continue(c, [call[c] EXCEPT !.msg = k, !.pc = "seq"])
        PROVE  UnreadInv'
    <3>1. k # 0
      BY <1>1 DEF Live
    <3>2. RequestInv([call[c] EXCEPT !.msg = k, !.pc = "seq"])
      BY <1>9, <2>1, <3>1 DEF RequestInv
    <3> QED
      BY <1>11, <2>3, <3>2, UnreadUntouched DEF DbLast
  <2> QED
    BY <1>11, <2>2, <2>3 DEF DbLast
<1>12. \A n, pc : LET r == [call[c] EXCEPT !.seq = n, !.pc = pc]
                  IN  /\ r.pc = pc /\ r.kind = call[c].kind /\ r.seq = n
                      /\ r.msg = call[c].msg /\ r.start = call[c].start
  BY <1>1 DEF Call
<1>13. ShardOf(c) = Home
  BY DEF ShardOf
<1>14. CASE GetSeq(c)
  <2> DEFINE r == [call[c] EXCEPT !.seq = seq[ShardOf(c)],
                                  !.pc = AfterSeq[call[c].kind]]
  <2>1. seq[ShardOf(c)] # 0 /\ call[c].start =< seq[ShardOf(c)]
    BY <1>4, <1>13 DEF SeqInv
  <2>2. /\ r.kind = call[c].kind /\ r.msg = call[c].msg
        /\ r.start = call[c].start /\ r.seq = seq[ShardOf(c)]
    BY <1>12
  <2>3. r.kind = "list" => r.pc = "read"
    BY <1>12 DEF AfterSeq
  <2>4. Continue(c, r) /\ UNCHANGED <<number, row, deleted, last>>
    BY <1>14, <2>1 DEF GetSeq
  <2>5. call[c].pc = "seq"
    BY <1>14 DEF GetSeq
  <2> HIDE DEF r
  <2>6. RequestInv(r)
    BY <1>2, <2>1, <2>2, <2>3, <2>5 DEF RequestInv
  <2> QED
    BY <2>4, <2>6, UnreadUntouched
<1>15. ~DbSeq(c) /\ ~SetSeq(c)
  BY <1>13 DEF DbSeq, SetSeq, SeqInv
<1>16. CASE QueueEvent(c) \/ UpsertRow(c)
  <2>1. RequestInv([call[c] EXCEPT !.pc = "store"])
    BY <1>3, <1>16 DEF QueueEvent, UpsertRow, RequestInv
  <2> QED
    BY <1>16, <2>1, UnreadUntouched DEF QueueEvent, UpsertRow
<1>17. ASSUME call[c].pc \in {"read", "dbread", "fillread"},
              NEW r, r.kind = call[c].kind, r.msg = call[c].msg,
              r.seq = call[c].seq, r.start = call[c].start,
              r.pc \in {"dbread", "fillread", "show"}
       PROVE  RequestInv(r)
  BY <1>2, <1>17 DEF RequestInv
<1>18. \A n, pc : LET r == [call[c] EXCEPT !.read = n, !.pc = pc]
                  IN  /\ r.pc = pc /\ r.kind = call[c].kind
                      /\ r.seq = call[c].seq
                      /\ r.msg = call[c].msg /\ r.start = call[c].start
  BY <1>1 DEF Call
<1>19. CASE GetRead(c)
  <2>1. RequestInv([call[c] EXCEPT !.read = readSeq[First], !.pc = "show"])
    <3> DEFINE r == [call[c] EXCEPT !.read = readSeq[First], !.pc = "show"]
    <3>1. /\ r.kind = call[c].kind /\ r.msg = call[c].msg
          /\ r.seq = call[c].seq /\ r.start = call[c].start /\ r.pc = "show"
      BY <1>18
    <3>2. call[c].pc = "read"
      BY <1>19 DEF GetRead
    <3> HIDE DEF r
    <3>3. RequestInv(r)
      BY <1>17, <3>1, <3>2
    <3> QED
      BY <3>3 DEF r
  <2>2. RequestInv([call[c] EXCEPT !.pc = "dbread"])
    BY <1>3, <1>17, <1>19 DEF GetRead
  <2> QED
    BY <1>19, <2>1, <2>2, UnreadUntouched DEF GetRead
<1>20. CASE DbRead(c)
  <2> DEFINE pc == IF cursorRow > 0 THEN "fillread" ELSE "show"
             r  == [call[c] EXCEPT !.read = cursorRow, !.pc = pc]
  <2>1. pc \in {"dbread", "fillread", "show"}
    OBVIOUS
  <2>2. Continue(c, r) /\ UNCHANGED <<number, row, deleted, last>>
    BY <1>20 DEF DbRead
  <2>3. RequestInv(r)
    <3>1. call[c].pc = "dbread"
      BY <1>20 DEF DbRead
    <3>2. /\ r.kind = call[c].kind /\ r.msg = call[c].msg
          /\ r.seq = call[c].seq /\ r.start = call[c].start /\ r.pc = pc
      BY <1>18
    <3> HIDE DEF r, pc
    <3> QED
      BY <1>17, <2>1, <3>1, <3>2
  <2> HIDE DEF r, pc
  <2> QED
    BY <2>2, <2>3, UnreadUntouched
<1>21. CASE FillRead(c)
  <2>1. RequestInv([call[c] EXCEPT !.pc = "show"])
    BY <1>3, <1>17, <1>21 DEF FillRead
  <2> QED
    BY <1>21, <2>1, UnreadUntouched DEF FillRead
<1> QED
  BY <1>5, <1>6, <1>7, <1>8, <1>10, <1>11, <1>14, <1>15, <1>16, <1>19, <1>20,
     <1>21 DEF Step

LEMMA UnreadStep ==
    ASSUME First = Home
    PROVE  TypeOK /\ SeqInv /\ UnreadInv /\ [Next]_vars => UnreadInv'
<1> SUFFICES ASSUME TypeOK, SeqInv, UnreadInv, [Next]_vars PROVE UnreadInv'
  OBVIOUS
<1> USE DEF messageVars, hotVars, readVars
<1>1. CASE UNCHANGED <<number, row, deleted, last, call>>
  BY <1>1 DEF UnreadInv, RequestInv, Message
<1>2. CASE Send
  <2>1. last'[Home] # 0
    BY <1>2, GroupAssumption DEF Send, TypeOK, GroupAssumption
  <2> QED
    BY <1>2, <2>1 DEF Send, UnreadInv, RequestInv
<1>3. CASE ExpireLast
  BY <1>3 DEF ExpireLast, UnreadInv, RequestInv, Message
<1>4. CASE \E k \in Message : Persist(k)
  BY <1>4 DEF Persist, UnreadInv, RequestInv, Message
<1>5. CASE \E k \in Message : DeleteRow(k)
  BY <1>5 DEF DeleteRow, UnreadInv, RequestInv, Message
<1>6. CASE \E S \in SUBSET reads : FlushReads(S)
  BY <1>1, <1>6 DEF FlushReads
<1>7. CASE UNCHANGED vars
  BY <1>1, <1>7 DEF vars
<1> QED
  BY <1>2, <1>3, <1>4, <1>5, <1>6, <1>7, UnreadRequests DEF Next

\* The count is the difference of two positions: no message that must be
\* counted lies outside that interval.
LEMMA CountIsEnough ==
    TypeOK /\ ReadInv /\ SeqInv /\ UnreadInv => UnreadNeverHidden
<1> SUFFICES ASSUME TypeOK, ReadInv, SeqInv, UnreadInv,
                    NEW c \in Client, At(c, {"list"}, "show")
             PROVE  Cardinality({k \in 1..call[c].start :
                        /\ k \notin deleted
                        /\ \A n \in reads \cup {cursorRow} : n < number[k]})
                    =< Unread(c)
  BY DEF UnreadNeverHidden
<1> DEFINE start  == call[c].start
           read   == call[c].read
           unseen == {k \in 1..start : /\ k \notin deleted
                        /\ \A n \in reads \cup {cursorRow} : n < number[k]}
<1>1. /\ call[c].kind = "list" /\ call[c].pc = "show" /\ call[c] \in Call
      /\ RequestInv(call[c])
  BY DEF At, TypeOK, UnreadInv
<1>2. /\ start \in 0..Len(number) /\ read \in Nat /\ call[c].seq \in Nat
      /\ call[c].msg \in 0..Len(number)
  BY <1>1, CallFields
<1>3. start =< call[c].seq /\ (call[c].msg = 0 => 1..start \subseteq deleted)
  BY <1>1 DEF RequestInv
<1>4. call[c].msg # 0 => number[call[c].msg] \in Nat
  BY <1>2 DEF TypeOK
<1>5. 0 =< Unread(c) /\ Unread(c) \in Int
  BY <1>2, <1>4 DEF Unread, Greatest
<1>6. CASE call[c].msg = 0
  <2>1. unseen = {}
    BY <1>3, <1>6
  <2> QED
    BY <1>5, <2>1, FS_EmptySet
<1>7. CASE call[c].msg # 0
  <2>1. unseen \subseteq (read + 1)..start
    <3> SUFFICES ASSUME NEW k \in unseen PROVE read < k
      BY <1>2
    <3>1. PICK n \in reads \cup {cursorRow} : read =< n
      BY DEF ReadInv, Backed, BackedBy
    <3>2. k \in Message /\ number[k] = k /\ n < number[k]
      BY <1>2, <3>1 DEF SeqInv, Message, TypeOK
    <3>3. n \in Nat /\ k \in Nat
      BY <3>2 DEF TypeOK, Message
    <3> QED
      BY <1>2, <3>1, <3>2, <3>3
  <2>2. /\ IsFiniteSet((read + 1)..start)
        /\ Cardinality((read + 1)..start) =
                IF read + 1 > start THEN 0 ELSE start - (read + 1) + 1
    <3>1. read + 1 \in Int /\ start \in Int
      BY <1>2
    <3> HIDE DEF read, start
    <3> QED
      BY <3>1, FS_Interval
  <2>3. Cardinality(unseen) =< Cardinality((read + 1)..start)
    BY <2>1, <2>2, FS_Subset
  <2>4. start - read =< Unread(c)
    <3> DEFINE top == Greatest(call[c].seq, number[call[c].msg])
    <3>1. Unread(c) = Greatest(0, top - read)
      BY <1>7 DEF Unread
    <3>2. top \in Nat /\ call[c].seq =< top
      BY <1>2, <1>4, <1>7 DEF Greatest
    <3> HIDE DEF top
    <3> QED
      BY <1>2, <1>3, <3>1, <3>2 DEF Greatest
  <2>5. Cardinality(unseen) \in Nat
    BY <2>1, <2>2, FS_Subset, FS_CardinalityType
  <2>6. Cardinality((read + 1)..start) =< Unread(c)
    BY <1>2, <1>5, <2>2, <2>4
  <2>7. Cardinality((read + 1)..start) \in Int
    BY <1>2, <2>2
  <2> HIDE DEF unseen, start, read
  <2>8. Cardinality(unseen) =< Unread(c)
    BY <1>5, <2>3, <2>5, <2>6, <2>7
  <2> QED
    BY <2>8 DEF unseen, start
<1> QED
  BY <1>6, <1>7

\* Where the conversation list reads the shard of the group, and the group has
\* a message when the behaviour begins, its unread count hides no message.
THEOREM UnreadIsComplete ==
    ASSUME Initial > 0, First = Home
    PROVE  Spec => []UnreadNeverHidden
<1>1. Init => SeqInv
  BY SeqInit
<1>2. Init => UnreadInv
  BY GroupAssumption
     DEF Init, UnreadInv, RequestInv, Idle, Message, GroupAssumption
<1>3. Init => ReadInv
  BY ReadInit
<1>4. TypeOK /\ SeqInv /\ UnreadInv /\ [Next]_vars => UnreadInv'
  BY UnreadStep
<1> QED
  BY <1>1, <1>2, <1>3, <1>4, TypeCorrect, ReadStep, SeqStep, CountIsEnough, PTL
     DEF Spec
=============================================================================
