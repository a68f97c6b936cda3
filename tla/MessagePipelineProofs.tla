------------------------ MODULE MessagePipelineProofs ------------------------
(***************************************************************************)
(* Proofs about MessagePipeline, for any number of messages, requests,     *)
(* publishers, writers and failures.                                       *)
(***************************************************************************)
EXTENDS MessagePipeline, FiniteSetTheorems, TLAPS

\* What ConstantsAssumption says of the sets of events.
LEMMA EventSets == /\ Message \subseteq Event /\ Caller \subseteq Event
                   /\ \A e \in Event : e \in Message <=> e \notin Caller
BY ConstantsAssumption DEF ConstantsAssumption, Event

LEMMA EmptySequence == \A S : <<>> \in Seq(S)
OBVIOUS

LEMMA Prefix ==
    ASSUME NEW S, NEW s \in Seq(S), NEW n \in DOMAIN s
    PROVE  /\ SubSeq(s, 1, n) \in Seq(S)
           /\ DOMAIN SubSeq(s, 1, n) = 1..n
           /\ \A k \in 1..n : k \in DOMAIN s /\ SubSeq(s, 1, n)[k] = s[k]
OBVIOUS

\* Adding entries to the stream keeps its type and every old entry.
LEMMA AddToStreamType ==
    ASSUME TypeOK, NEW s \in Seq(Event), AddToStream(s)
    PROVE  /\ log' \in Seq(Event)
           /\ Len(log') = Len(log) + Len(s)
           /\ Entry \subseteq Entry'
           /\ \A i \in Entry : log'[i] = log[i]
           /\ \A k \in DOMAIN s : Len(log) + k \in Entry' /\ log'[Len(log) + k] = s[k]
           /\ trimmed' \in 0..Len(log') /\ trimmed =< trimmed'
           /\ overflow' \in BOOLEAN
<1> USE DEF TypeOK, AddToStream, Entry
<1>1. log' \in Seq(Event) /\ Len(log') = Len(log) + Len(s)
  OBVIOUS
<1>2. \A i \in 1..Len(log) : log'[i] = log[i]
  OBVIOUS
<1>3. \A k \in DOMAIN s : log'[Len(log) + k] = s[k]
  OBVIOUS
<1>4. trimmed' \in 0..Len(log') /\ trimmed =< trimmed'
  BY <1>1
<1>5. overflow' \in BOOLEAN
  OBVIOUS
<1> QED
  BY <1>1, <1>2, <1>3, <1>4, <1>5

\* An order of a batch is a sequence of its events.
LEMMA OrdersType ==
    ASSUME NEW S \in SUBSET Event, NEW s \in Orders(S)
    PROVE  /\ s \in Seq(Event)
           /\ \A j \in DOMAIN s : s[j] \in S
           /\ \A e \in S : \E j \in DOMAIN s : s[j] = e
<1>1. Cardinality(S) \in Nat
  BY FS_CardinalityType, FS_Subset, ConstantsAssumption DEF ConstantsAssumption
<1> QED
  BY <1>1 DEF Orders

\* Entries keep their place when the stream grows, so a writer's local state
\* stays well-typed.
LEMMA WriterStateMono ==
    ASSUME TypeOK, Entry \subseteq Entry'
    PROVE  writer \in [Writer -> WriterState']
<1>1. SUFFICES ASSUME NEW w \in Writer
              PROVE  writer[w] \in WriterState'
  BY DEF TypeOK
<1>2. writer[w] \in WriterState
  BY DEF TypeOK
<1>3. /\ writer[w].todo \subseteq Entry' /\ writer[w].ackNow \subseteq Entry'
      /\ writer[w].flushed \subseteq Entry'
  BY <1>2 DEF WriterState
<1>4. writer[w].batch \in Seq(Entry')
  BY <1>2 DEF WriterState
<1> QED
  BY <1>2, <1>3, <1>4 DEF WriterState

LEMMA TypeApi == TypeOK /\ Api => TypeOK'
<1> SUFFICES ASSUME TypeOK, Api PROVE TypeOK'
  OBVIOUS
<1> USE EventSets DEF TypeOK, streamVars, outboxVars, apiVars, Status, Entry,
                      PublisherState, WriterState
<1>1. ASSUME NEW m \in Message, Send(m) PROVE TypeOK'
  BY <1>1 DEF Send
<1>2. ASSUME NEW c \in Caller, LoadMessage(c) PROVE TypeOK'
  BY <1>2 DEF LoadMessage, CallStep
<1>3. ASSUME NEW c \in Caller, StoreStatus(c) PROVE TypeOK'
  <2>1. NewStatus(c) \in Status
    BY DEF NewStatus
  <2> QED
    BY <1>3, <2>1 DEF StoreStatus, CallStep
<1>4. ASSUME NEW c \in Caller, StoreEvent(c) PROVE TypeOK'
  BY <1>4 DEF StoreEvent, CallStep
<1>5. ASSUME NEW c \in Caller, Enqueue(c) PROVE TypeOK'
  BY <1>5 DEF Enqueue, CallStep
<1>6. ASSUME NEW c \in Caller, Abandon(c) PROVE TypeOK'
  BY <1>6 DEF Abandon
<1> QED
  BY <1>1, <1>2, <1>3, <1>4, <1>5, <1>6 DEF Api

LEMMA TypePublisher ==
    ASSUME TypeOK, NEW p \in Publisher,
           PublisherStep(p) \/ PublisherFails(p) \/ AppendFails(p)
    PROVE  TypeOK'
<1> USE DEF TypeOK, streamVars, outboxVars, apiVars, IdlePublisher
<1>1. publisher[p] \in PublisherState
  OBVIOUS
<1>2. CASE ReadDue(p)
  <2>1. PICK S \in SUBSET pending :
            publisher' = [publisher EXCEPT ![p] =
                            [pc |-> "fetch", members |-> S, stale |-> {}]]
    BY <1>2 DEF ReadDue
  <2>2. publisher' \in [Publisher -> PublisherState]
    BY <2>1 DEF PublisherState
  <2> QED
    BY <1>2, <2>2 DEF ReadDue, Entry, WriterState
<1>3. CASE FetchPayloads(p)
  BY <1>1, <1>3 DEF FetchPayloads, PublisherState, Entry, WriterState
<1>4. CASE DropStale(p)
  BY <1>1, <1>4 DEF DropStale, PublisherState, Entry, WriterState
<1>5. CASE AppendBatch(p)
  <2>1. PICK s \in Orders(publisher[p].members) : AddToStream(s)
    BY <1>5 DEF AppendBatch
  <2>2. s \in Seq(Event)
    BY <1>1, <2>1, OrdersType DEF PublisherState
  <2>3. /\ log' \in Seq(Event) /\ Len(log) =< Len(log') /\ Entry \subseteq Entry'
        /\ trimmed' \in 0..Len(log') /\ overflow' \in BOOLEAN
    BY <2>1, <2>2, AddToStreamType
  <2>4. publisher' \in [Publisher -> PublisherState]
    BY <1>1, <1>5 DEF AppendBatch, PublisherState
  <2>5. UNCHANGED <<cursor, pel>>
    BY <2>1 DEF AddToStream
  <2>6. writer' \in [Writer -> WriterState']
    BY <1>5, <2>3, WriterStateMono DEF AppendBatch
  <2> QED
    BY <1>5, <2>3, <2>4, <2>5, <2>6 DEF AppendBatch
<1>6. CASE DeletePayloads(p)
  BY <1>1, <1>6 DEF DeletePayloads, PublisherState, Entry, WriterState
<1>7. CASE RemoveMembers(p)
  BY <1>1, <1>7 DEF RemoveMembers, PublisherState, Entry, WriterState
<1>8. CASE PublisherFails(p)
  BY <1>1, <1>8, ConstantsAssumption
    DEF PublisherFails, PublisherState, Entry, WriterState, ConstantsAssumption
<1>9. CASE AppendFails(p)
  <2>0. PICK s \in Orders(publisher[p].members) :
            \E n \in DOMAIN s : AddToStream(SubSeq(s, 1, n))
    BY <1>9 DEF AppendFails
  <2>1. s \in Seq(Event)
    BY <1>1, OrdersType DEF PublisherState
  <2>2. PICK entries \in Seq(Event) : AddToStream(entries)
    BY <2>0, <2>1, Prefix
  <2>3. /\ log' \in Seq(Event) /\ Len(log) =< Len(log') /\ Entry \subseteq Entry'
        /\ trimmed' \in 0..Len(log') /\ overflow' \in BOOLEAN
    BY <2>2, AddToStreamType
  <2>4. publisher' \in [Publisher -> PublisherState]
    BY <1>1, <1>9 DEF AppendFails, PublisherState
  <2>5. UNCHANGED <<cursor, pel>>
    BY <2>2 DEF AddToStream
  <2>6. writer' \in [Writer -> WriterState']
    BY <1>9, <2>3, WriterStateMono DEF AppendFails
  <2>7. failures' \in 0..MaxFailures
    BY <1>9, ConstantsAssumption DEF AppendFails, ConstantsAssumption
  <2> QED
    BY <1>9, <2>3, <2>4, <2>5, <2>6, <2>7 DEF AppendFails
<1> QED
  BY <1>2, <1>3, <1>4, <1>5, <1>6, <1>7, <1>8, <1>9 DEF PublisherStep

\* Poll never steps back and stays within the stream.
LEMMA PollRange ==
    ASSUME TypeOK, NEW w \in Writer, Poll(w)
    PROVE  \E first, last \in Nat :
              /\ first = Greatest(cursor, trimmed) + 1
              /\ first >= 1 /\ last =< Len(log)
              /\ cursor' = Greatest(cursor, last)
              /\ pel' = pel \cup first..last
              /\ writer' = [writer EXCEPT ![w].todo = first..last,
                                         ![w].pc = "process"]
<1> DEFINE first == Greatest(cursor, trimmed) + 1
           last == IF first + WriterBatch > Len(log) THEN Len(log)
                   ELSE first + WriterBatch - 1
<1>1. /\ cursor \in Nat /\ trimmed \in Nat /\ Len(log) \in Nat /\ WriterBatch \in Nat
  BY ConstantsAssumption DEF TypeOK, ConstantsAssumption
<1>2. first \in Nat /\ first >= 1
  BY <1>1 DEF Greatest
<1>3. last \in Nat /\ last =< Len(log)
  BY <1>1, <1>2
<1> QED
  BY <1>2, <1>3 DEF Poll

LEMMA TypeWriter ==
    ASSUME TypeOK, NEW w \in Writer, WriterStep(w) \/ WriterFails(w)
    PROVE  TypeOK'
<1> USE DEF TypeOK, streamVars, outboxVars, apiVars
<1>0. /\ writer[w] \in WriterState /\ IsFiniteSet(Event)
      /\ \A i \in Entry : log[i] \in Event
  BY ConstantsAssumption DEF ConstantsAssumption, Entry
<1>1. CASE Recover(w)
  <2>1. /\ FirstOf(pel, WriterBatch) \subseteq pel
        /\ pel \subseteq Entry
    BY DEF FirstOf, Entry
  <2>2. writer' \in [Writer -> WriterState]
    BY <1>0, <1>1, <2>1 DEF Recover, WriterState
  <2> QED
    BY <1>1, <2>1, <2>2 DEF Recover, Entry, WriterState
<1>2. CASE Poll(w)
  <2>1. PICK first, last \in Nat :
            /\ first >= 1 /\ last =< Len(log)
            /\ cursor' = Greatest(cursor, last)
            /\ pel' = pel \cup first..last
            /\ writer' = [writer EXCEPT ![w].todo = first..last,
                                       ![w].pc = "process"]
    BY <1>2, PollRange
  <2>2. first..last \subseteq Entry
    BY <2>1 DEF Entry
  <2>3. cursor' \in 0..Len(log) /\ pel' \subseteq 1..cursor'
    BY <2>1 DEF Greatest
  <2>4. writer' \in [Writer -> WriterState]
    BY <1>0, <2>1, <2>2 DEF WriterState
  <2> QED
    BY <1>2, <2>3, <2>4 DEF Poll, Entry, WriterState
<1>3. ASSUME NEW i \in Entry, BatchMessage(w, i) PROVE TypeOK'
  <2>1. writer' \in [Writer -> WriterState]
    <3>1. Append(writer[w].batch, i) \in Seq(Entry)
      BY <1>0 DEF WriterState
    <3> QED
      BY <1>0, <1>3, <3>1 DEF BatchMessage, WriterState
  <2> QED
    BY <1>3, <2>1 DEF BatchMessage, Entry, WriterState
<1>4. CASE Flush(w)
  <2> DEFINE batched == {writer[w].batch[k] : k \in DOMAIN writer[w].batch}
  <2>1. batched \subseteq Entry
    BY <1>0 DEF WriterState
  <2>2. writer' \in [Writer -> WriterState]
    BY <1>0, <1>4, <2>1, EmptySequence DEF Flush, WriterState
  <2>3. row' \in [Message -> Status]
    BY <1>4 DEF Flush, Greatest, Status, Sent, Absent, Recalled, Deleted
  <2> QED
    BY <1>4, <2>2, <2>3 DEF Flush, Entry, WriterState
<1>5. ASSUME NEW i \in Entry, ApplyStatus(w, i) PROVE TypeOK'
  <2>1. writer' \in [Writer -> WriterState]
    BY <1>0, <1>5 DEF ApplyStatus, WriterState
  <2>2. NewStatus(log[i]) \in Status
    BY <1>0, <1>5, EventSets
      DEF ApplyStatus, NewStatus, Status, Sent, Absent, Recalled, Deleted
  <2>3. row' \in [Message -> Status]
    BY <1>5, <2>2 DEF ApplyStatus, Greatest, Absent, Status
  <2> QED
    BY <1>5, <2>1, <2>3 DEF ApplyStatus, Entry, WriterState
<1>6. ASSUME NEW i \in Entry, SkipInvalid(w, i) PROVE TypeOK'
  BY <1>0, <1>6 DEF SkipInvalid, Entry, WriterState
<1>7. CASE EndOfBatch(w)
  BY <1>0, <1>7 DEF EndOfBatch, Entry, WriterState
<1>8. CASE AckApplied(w)
  BY <1>0, <1>8 DEF AckApplied, Entry, WriterState
<1>9. CASE AckFlushed(w)
  BY <1>0, <1>9 DEF AckFlushed, Entry, WriterState
<1>10. CASE WriterFails(w)
  <2>1. writer' \in [Writer -> WriterState]
    BY <1>0, <1>10 DEF WriterFails, FreshWriter, WriterState
  <2>2. failures' \in 0..MaxFailures
    BY <1>10, ConstantsAssumption DEF WriterFails, ConstantsAssumption
  <2> QED
    BY <1>10, <2>1, <2>2 DEF WriterFails, Entry, WriterState
<1> QED
  BY <1>1, <1>2, <1>3, <1>4, <1>5, <1>6, <1>7, <1>8, <1>9, <1>10 DEF WriterStep

LEMMA TypeInit == Init => TypeOK
<1> SUFFICES ASSUME Init PROVE TypeOK
  OBVIOUS
<1>1. writer \in [Writer -> WriterState]
  BY EmptySequence DEF Init, FreshWriter, WriterState
<1>2. publisher \in [Publisher -> PublisherState]
  BY DEF Init, IdlePublisher, PublisherState
<1>3. log \in Seq(Event) /\ Len(log) = 0
  BY DEF Init
<1>4. failures \in 0..MaxFailures
  BY ConstantsAssumption DEF Init, ConstantsAssumption
<1>5. trimmed \in 0..Len(log) /\ cursor \in 0..Len(log) /\ pel \subseteq 1..cursor
  BY <1>3 DEF Init
<1>6. hot \in [Message -> Status] /\ row \in [Message -> Status]
  BY DEF Init, Status
<1>7. call \in [Caller -> {"idle", "loaded", "stored", "keyed", "done", "failed"}]
  BY DEF Init
<1>8. eventKey \subseteq Event /\ pending \subseteq Event /\ overflow \in BOOLEAN
  BY DEF Init
<1>9. request \in [Caller -> [msg : Message, status : {Recalled, Deleted}]]
  BY DEF Init
<1> QED
  BY <1>1, <1>2, <1>3, <1>4, <1>5, <1>6, <1>7, <1>8, <1>9 DEF TypeOK

LEMMA TypeStep == TypeOK /\ [Next]_vars => TypeOK'
<1>1. TypeOK /\ Next => TypeOK'
  BY TypeApi, TypePublisher, TypeWriter DEF Next
<1>2. TypeOK /\ UNCHANGED vars => TypeOK'
  BY DEF TypeOK, vars, apiVars, outboxVars, streamVars, Entry, WriterState
<1> QED
  BY <1>1, <1>2

\* Every reachable state of the pipeline is well-typed, for all constants.
THEOREM TypeCorrect == Spec => []TypeOK
BY TypeInit, TypeStep, PTL DEF Spec
=============================================================================
