------------------------- MODULE DurableStatusProofs -------------------------
(***************************************************************************)
(* That MessagePipeline implements DurableStatus: seen from outside, rows  *)
(* only move towards what the API has promised.                            *)
(***************************************************************************)
EXTENDS MessageDeliveryProofs

\* No row shows a status the API has not promised.
RefinementInv ==
    /\ DeliveryInv
    /\ \A m \in Message : row[m] =< PromisedStatus(m)
-----------------------------------------------------------------------------
LEMMA GreatestOfStatuses ==
    ASSUME NEW S \in SUBSET Status, S # {}
    PROVE  GreatestOf(S) \in S /\ \A t \in S : t =< GreatestOf(S)
<1>1. \E s \in S : \A t \in S : t =< s
  <2> USE DEF Status, Absent, Sent, Recalled, Deleted
  <2>0. \A t \in S : t = Absent \/ t = Sent \/ t = Recalled \/ t = Deleted
    OBVIOUS
  <2>1. CASE Deleted \in S
    BY <2>0, <2>1
  <2>2. CASE Deleted \notin S /\ Recalled \in S
    BY <2>0, <2>2
  <2>3. CASE Deleted \notin S /\ Recalled \notin S /\ Sent \in S
    BY <2>0, <2>3
  <2>4. CASE S = {Absent}
    BY <2>0, <2>4
  <2> QED
    BY <2>0, <2>1, <2>2, <2>3, <2>4
<1> QED
  BY <1>1 DEF GreatestOf

LEMMA EventType ==
    ASSUME TypeOK
    PROVE  /\ \A e \in Event : Target(e) \in Message /\ NewStatus(e) \in Status \ {Absent}
           /\ \A i \in Entry : log[i] \in Event
<1>1. \A e \in Event : e \in Message \/ e \in Caller
  BY DEF Event
<1>2. \A c \in Caller : request[c].msg \in Message /\ request[c].status \in {Recalled, Deleted}
  BY DEF TypeOK
<1> QED
  BY <1>1, <1>2 DEF TypeOK, Target, NewStatus, Status, Absent, Sent, Recalled, Deleted,
                    Entry

LEMMA PromisedType ==
    ASSUME TypeOK, NEW m \in Message
    PROVE  /\ PromisedStatus(m) \in AcceptedStatuses(m)
           /\ AcceptedStatuses(m) \in SUBSET Status
           /\ \A t \in AcceptedStatuses(m) : t =< PromisedStatus(m)
<1>1. AcceptedStatuses(m) \in SUBSET Status /\ Absent \in AcceptedStatuses(m)
  BY EventType DEF AcceptedStatuses, Status
<1> QED
  BY <1>1, GreatestOfStatuses DEF PromisedStatus

\* What was promised is a number, at least the status of every accepted event.
LEMMA PromisedBound ==
    ASSUME TypeOK
    PROVE  /\ \A m \in Message : PromisedStatus(m) \in Nat /\ PromisedStatus(m) \in Status
           /\ \A e \in Event : Accepted(e) => NewStatus(e) =< PromisedStatus(Target(e))
<1>1. \A m \in Message : PromisedStatus(m) \in Status
  BY PromisedType
<1>2. ASSUME NEW e \in Event, Accepted(e)
      PROVE  NewStatus(e) =< PromisedStatus(Target(e))
  <2>1. Target(e) \in Message /\ NewStatus(e) \in AcceptedStatuses(Target(e))
    BY <1>2, EventType DEF AcceptedStatuses
  <2> QED
    BY <2>1, PromisedType
<1> QED
  BY <1>1, <1>2 DEF Status, Absent, Sent, Recalled, Deleted

\* A step that accepts nothing new leaves the promises as they were.
LEMMA PromisedSame ==
    ASSUME UNCHANGED request, \A e \in Event : Accepted(e)' = Accepted(e)
    PROVE  \A m \in Message : PromisedStatus(m)' = PromisedStatus(m)
<1>1. \A m \in Message : AcceptedStatuses(m)' = AcceptedStatuses(m)
  BY DEF AcceptedStatuses, Target, NewStatus
<1> QED
  BY <1>1 DEF PromisedStatus

LEMMA DurableInit == Init => RefinementInv /\ Durable!Init
<1> SUFFICES ASSUME Init PROVE RefinementInv /\ Durable!Init
  OBVIOUS
<1>1. DeliveryInv /\ TypeOK
  BY DeliveryInit DEF DeliveryInv
<1>2. \A e \in Event : ~Accepted(e)
  BY DEF Init, Accepted, Event
<1>3. \A m \in Message : AcceptedStatuses(m) = {Absent}
  BY <1>2 DEF AcceptedStatuses
<1>4. \A m \in Message : PromisedStatus(m) = 0
  BY <1>1, <1>3, PromisedType DEF Absent
<1>5. row = [m \in Message |-> 0]
  BY DEF Init, Absent
<1> QED
  BY <1>1, <1>4, <1>5 DEF RefinementInv, Durable!Init

Promised == [m \in Message |-> PromisedStatus(m)]

\* An API step promises something new for at most one message, or nothing.
LEMMA PromiseApi ==
    ASSUME RefinementInv, Api
    PROVE  /\ UNCHANGED row
           /\ \/ UNCHANGED Promised
              \/ \E m \in Message, s \in Status : Durable!Promise(m, s)
<1>0. TypeOK /\ TypeOK' /\ OnlyAccepted /\ row' = row /\ request' = request
  BY TypeApi DEF RefinementInv, DeliveryInv, Api, Send, LoadMessage, StoreStatus,
                 StoreEvent, Enqueue, Abandon
<1>1. /\ \A m \in Message : PromisedStatus(m) \in Nat
      /\ \A e \in Event : Target(e) \in Message /\ NewStatus(e) \in Status \ {Absent}
      /\ \A e \in Event : Target(e)' = Target(e) /\ NewStatus(e)' = NewStatus(e)
  BY <1>0, PromisedBound, EventType DEF Target, NewStatus
<1>2. ASSUME NEW x \in Event, NEW m \in Message, m = Target(x),
             ~Accepted(x), Accepted(x)',
             \A e \in Event \ {x} : Accepted(e)' = Accepted(e)
      PROVE  /\ AcceptedStatuses(m)' = AcceptedStatuses(m) \cup {NewStatus(x)}
             /\ \A n \in Message : n # m => PromisedStatus(n)' = PromisedStatus(n)
  <2>1. \A n \in Message : n # m => AcceptedStatuses(n)' = AcceptedStatuses(n)
    BY <1>1, <1>2 DEF AcceptedStatuses
  <2>2. AcceptedStatuses(m)' = AcceptedStatuses(m) \cup {NewStatus(x)}
    BY <1>1, <1>2 DEF AcceptedStatuses
  <2> QED
    BY <2>1, <2>2 DEF PromisedStatus
<1>3. ASSUME NEW m \in Message, Send(m)
      PROVE  Durable!Promise(m, Sent)
  <2>1. ~Accepted(m) /\ Accepted(m)' /\ m \in Event /\ Target(m) = m /\ NewStatus(m) = Sent
    BY <1>0, <1>3 DEF Send, Accepted, TypeOK, Event, Target, NewStatus, Sent, Absent
  <2>2. \A e \in Event \ {m} : Accepted(e)' = Accepted(e)
    BY <1>0, <1>3 DEF Send, Accepted, TypeOK, Event
  <2>3. \A e \in Event : Target(e) = m => ~Accepted(e)
    BY <1>0, <1>3 DEF Send, Accepted, OnlyAccepted, Event, Target
  <2>4. AcceptedStatuses(m) = {Absent}
    BY <2>3 DEF AcceptedStatuses
  <2>5. AcceptedStatuses(m)' = {Absent, Sent}
    BY <1>2, <2>1, <2>2, <2>4
  <2>6. PromisedStatus(m) = Absent
    BY <1>0, <2>4, PromisedType
  <2>7. PromisedStatus(m)' = Sent
    <3>1. {Absent, Sent} \in SUBSET Status
      BY DEF Status
    <3>2. GreatestOf({Absent, Sent}) \in {Absent, Sent} /\ Sent =< GreatestOf({Absent, Sent})
      BY <3>1, GreatestOfStatuses
    <3>3. PromisedStatus(m)' = GreatestOf(AcceptedStatuses(m)')
      BY DEF PromisedStatus, GreatestOf
    <3> QED
      BY <2>5, <3>2, <3>3 DEF Sent, Absent
  <2>8. Promised' = [Promised EXCEPT ![m] = Sent]
    BY <1>2, <2>1, <2>2, <2>7 DEF Promised
  <2> QED
    BY <1>0, <2>6, <2>8 DEF Durable!Promise, Promised, Sent, Absent
<1>4. ASSUME NEW c \in Caller, Enqueue(c)
      PROVE  \/ UNCHANGED Promised
             \/ \E m \in Message, s \in Status : Durable!Promise(m, s)
  <2>0. c \in Event /\ c \notin Message
    BY EventSets
  <2>01. PICK m \in Message, s \in Status \ {Absent} : m = Target(c) /\ s = NewStatus(c)
    BY <1>1, <2>0
  <2>1. ~Accepted(c) /\ Accepted(c)'
    BY <1>0, <1>1, <1>4, <2>0 DEF Enqueue, CallStep, Accepted, TypeOK
  <2>2. \A e \in Event \ {c} : Accepted(e)' = Accepted(e)
    BY <1>0, <1>4 DEF Enqueue, CallStep, Accepted, TypeOK, Event
  <2>3. AcceptedStatuses(m)' = AcceptedStatuses(m) \cup {s}
    BY <1>2, <2>0, <2>01, <2>1, <2>2
  <2>4. PromisedStatus(m) # Absent
    <3>1. Accepted(m) /\ m \in Event /\ Target(m) = m /\ NewStatus(m) = Sent
      BY <1>0, <1>4, <2>01 DEF Enqueue, CallStep, OnlyAccepted, Accepted, Event, Target,
                              NewStatus
    <3> QED
      BY <1>0, <1>1, <2>1, <3>1, PromisedBound DEF Sent, Absent
  <2>5. /\ PromisedStatus(m) \in Nat /\ s \in Nat
        /\ PromisedStatus(m) \in AcceptedStatuses(m) /\ AcceptedStatuses(m) \in SUBSET Status
        /\ \A t \in AcceptedStatuses(m) : t =< PromisedStatus(m)
    BY <1>0, <1>1, <2>1, PromisedType DEF Status, Absent, Sent, Recalled, Deleted
  <2>6. /\ PromisedStatus(m)' \in AcceptedStatuses(m) \cup {s}
        /\ \A t \in AcceptedStatuses(m) \cup {s} : t =< PromisedStatus(m)'
    <3>1. AcceptedStatuses(m) \cup {s} \in SUBSET Status
      BY <2>1, <2>5
    <3>2. PromisedStatus(m)' = GreatestOf(AcceptedStatuses(m) \cup {s})
      <4>1. PromisedStatus(m)' = GreatestOf(AcceptedStatuses(m)')
        BY <1>1, <2>0 DEF PromisedStatus, GreatestOf
      <4> QED
        BY <2>3, <4>1
    <3> QED
      BY <3>1, <3>2, GreatestOfStatuses
  <2>7. PromisedStatus(m)' = IF s > PromisedStatus(m) THEN s ELSE PromisedStatus(m)
    <3>1. PromisedStatus(m)' \in Nat /\ PromisedStatus(m)' >= s
          /\ PromisedStatus(m)' >= PromisedStatus(m)
      BY <2>5, <2>6 DEF Status, Absent, Sent, Recalled, Deleted
    <3>2. PromisedStatus(m)' = s \/ PromisedStatus(m)' =< PromisedStatus(m)
      BY <2>5, <2>6
    <3> QED
      BY <2>5, <3>1, <3>2
  <2>8. Promised' = [Promised EXCEPT ![m] = PromisedStatus(m)']
    <3>1. \A n \in Message : n # m => PromisedStatus(n)' = PromisedStatus(n)
      BY <1>2, <2>0, <2>01, <2>1, <2>2
    <3> QED
      BY <2>1, <3>1 DEF Promised
  <2>9. CASE s > PromisedStatus(m)
    BY <1>0, <2>1, <2>4, <2>7, <2>8, <2>9 DEF Durable!Promise, Promised, Absent
  <2>10. CASE ~(s > PromisedStatus(m))
    BY <2>1, <2>7, <2>8, <2>10 DEF Promised
  <2> QED
    BY <2>01, <2>9, <2>10
<1>5. ASSUME NEW c \in Caller,
             LoadMessage(c) \/ StoreStatus(c) \/ StoreEvent(c) \/ Abandon(c)
      PROVE  UNCHANGED Promised
  <2>1. \A e \in Caller : Accepted(e)' = Accepted(e)
    BY <1>0, <1>5, EventSets DEF LoadMessage, StoreStatus, StoreEvent, Abandon, CallStep,
          Accepted, TypeOK
  <2>2. ASSUME NEW m \in Message PROVE Accepted(m)' = Accepted(m)
    <3>1. CASE StoreStatus(c)
      <4>1. hot[Target(c)] # Absent /\ NewStatus(c) # Absent /\ Target(c) \in Message
        BY <1>0, <1>1, <3>1, EventSets DEF StoreStatus, CallStep, OnlyAccepted
      <4> QED
        BY <1>0, <3>1, <4>1 DEF StoreStatus, Accepted, TypeOK
    <3> QED
      BY <1>5, <3>1 DEF LoadMessage, StoreEvent, Abandon, Accepted
  <2> QED
    BY <1>0, <2>1, <2>2, PromisedSame DEF Promised, Event
<1> QED
  BY <1>0, <1>1, <1>3, <1>4, <1>5, EventSets DEF Api, Status

\* A transaction of a writer takes rows no further than what was promised.
LEMMA CatchUpWriter ==
    ASSUME RefinementInv, NEW w \in Writer, WriterStep(w) \/ WriterFails(w)
    PROVE  \A m \in Message : row'[m] =< PromisedStatus(m)
<1>0. /\ TypeOK /\ OnlyAccepted /\ WriterHolds(w) /\ writer[w] \in WriterState
      /\ \A i \in Entry : log[i] \in Event /\ Accepted(log[i])
      /\ \A m \in Message : row[m] =< PromisedStatus(m)
  BY EventType DEF RefinementInv, DeliveryInv, OnlyAccepted, TypeOK
<1>1. /\ \A m \in Message : row[m] \in Nat /\ PromisedStatus(m) \in Nat
      /\ \A e \in Event : NewStatus(e) \in Nat
      /\ \A e \in Event : Accepted(e) => NewStatus(e) =< PromisedStatus(Target(e))
  BY <1>0, RowIsNat, PromisedBound, EventType DEF Status, Absent, Sent, Recalled, Deleted
<1>2. CASE UNCHANGED row
  BY <1>0, <1>2
<1>3. CASE Flush(w)
  <2> SUFFICES ASSUME NEW m \in Message PROVE row'[m] =< PromisedStatus(m)
    OBVIOUS
  <2>1. ASSUME NEW k \in DOMAIN writer[w].batch, log[writer[w].batch[k]] = m
        PROVE  Sent =< PromisedStatus(m)
    <3>1. writer[w].batch[k] \in Entry
      BY <1>0 DEF WriterState
    <3>2. m \in Event /\ Accepted(m) /\ Target(m) = m /\ NewStatus(m) = Sent
      BY <1>0, <2>1, <3>1 DEF Target, NewStatus
    <3> QED
      BY <1>1, <3>2
  <2>2. row'[m] = row[m] \/ (row'[m] = Greatest(row[m], Sent) /\ Sent =< PromisedStatus(m))
    BY <1>3, <2>1 DEF Flush
  <2> QED
    BY <1>0, <1>1, <2>2 DEF Greatest
<1>4. ASSUME NEW i \in Entry, ApplyStatus(w, i)
      PROVE  \A m \in Message : row'[m] =< PromisedStatus(m)
  <2>1. PICK n \in Message, s \in Nat : n = Target(log[i]) /\ s = NewStatus(log[i])
    BY <1>0, <1>1, EventType
  <2>2. s =< PromisedStatus(n)
    BY <1>0, <1>1, <2>1
  <2>3. row' = [row EXCEPT ![n] = IF @ = Absent THEN Absent ELSE Greatest(@, s)]
    BY <1>4, <2>1 DEF ApplyStatus
  <2> QED
    BY <1>0, <1>1, <2>2, <2>3 DEF Greatest, Absent, TypeOK
<1> QED
  BY <1>2, <1>3, <1>4 DEF WriterStep, WriterFails, Recover, Poll, BatchMessage,
        SkipInvalid, EndOfBatch, AckApplied, AckFlushed

\* Publishers and writers promise nothing.
LEMMA PromiseThreads ==
    ASSUME \/ \E p \in Publisher : PublisherStep(p) \/ PublisherFails(p) \/ AppendFails(p)
           \/ \E w \in Writer : WriterStep(w) \/ WriterFails(w)
           \/ UNCHANGED vars
    PROVE  \A m \in Message : PromisedStatus(m)' = PromisedStatus(m)
<1>1. UNCHANGED <<request, call, hot>>
  <2>1. ASSUME NEW p \in Publisher, PublisherStep(p) \/ PublisherFails(p) \/ AppendFails(p)
        PROVE  UNCHANGED <<request, call, hot>>
    BY <2>1 DEF PublisherStep, PublisherFails, AppendFails, ReadDue, FetchPayloads,
          DropStale, AppendBatch, DeletePayloads, RemoveMembers, apiVars
  <2>2. ASSUME NEW w \in Writer, WriterStep(w) \/ WriterFails(w)
        PROVE  UNCHANGED <<request, call, hot>>
    BY <2>2 DEF WriterStep, WriterFails, Recover, Poll, BatchMessage, Flush, ApplyStatus,
          SkipInvalid, EndOfBatch, AckApplied, AckFlushed, apiVars
  <2> QED
    BY <2>1, <2>2 DEF vars, apiVars
<1> QED
  BY <1>1, PromisedSame DEF Accepted

LEMMA RefinementStep ==
    RefinementInv /\ [Next]_vars => RefinementInv' /\ [Durable!Next]_(Durable!vars)
<1> SUFFICES ASSUME RefinementInv, [Next]_vars
             PROVE  RefinementInv' /\ [Durable!Next]_(Durable!vars)
  OBVIOUS
<1>0. /\ DeliveryInv' /\ TypeOK /\ TypeOK'
      /\ \A m \in Message : row[m] =< row'[m]
      /\ \A m \in Message : row[m] =< PromisedStatus(m)
      /\ \A m \in Message : row[m] \in Nat
      /\ \A m \in Message : PromisedStatus(m) \in Nat
  BY DeliveryStep, TypeStep, RowStep, RowIsNat, PromisedBound DEF RefinementInv, DeliveryInv
<1>1. CASE Api
  <2>1. UNCHANGED row
    BY <1>1, PromiseApi
  <2>2. CASE UNCHANGED Promised
    <3>1. \A m \in Message : PromisedStatus(m)' = PromisedStatus(m)
      <4>1. \A m \in Message : Promised[m] = PromisedStatus(m)
        BY DEF Promised
      <4>2. \A m \in Message : Promised'[m] = PromisedStatus(m)'
        BY DEF Promised
      <4> QED
        BY <2>2, <4>1, <4>2
    <3> QED
      BY <1>0, <2>1, <2>2, <3>1 DEF RefinementInv, Durable!vars, Promised
  <2>3. ASSUME NEW m \in Message, NEW s \in Status, Durable!Promise(m, s)
        PROVE  RefinementInv' /\ Durable!Next
    <3>1. \A n \in Message : PromisedStatus(n)' = IF n = m THEN s ELSE PromisedStatus(n)
      <4>1. Promised' = [Promised EXCEPT ![m] = s]
        BY <2>3 DEF Durable!Promise, Promised
      <4>2. \A n \in Message : Promised[n] = PromisedStatus(n)
        BY DEF Promised
      <4>3. \A n \in Message : Promised'[n] = PromisedStatus(n)'
        BY DEF Promised
      <4>4. Promised = [n \in Message |-> PromisedStatus(n)]
        BY DEF Promised
      <4> QED
        BY <4>1, <4>2, <4>3, <4>4
    <3>2. s \in Nat /\ s > PromisedStatus(m)
      BY <1>0, <2>3 DEF Durable!Promise, Status, Absent, Sent, Recalled, Deleted
    <3>3. \A n \in Message : row'[n] =< PromisedStatus(n)'
      BY <1>0, <2>1, <3>1, <3>2
    <3> QED
      BY <1>0, <2>3, <3>3 DEF RefinementInv, Durable!Next
  <2> QED
    BY <1>1, <2>2, <2>3, PromiseApi
<1>2. ASSUME NEW p \in Publisher, PublisherStep(p) \/ PublisherFails(p) \/ AppendFails(p)
      PROVE  RefinementInv' /\ UNCHANGED Durable!vars
  <2>1. UNCHANGED row
    BY <1>2 DEF PublisherStep, PublisherFails, AppendFails, ReadDue, FetchPayloads,
          DropStale, AppendBatch, DeletePayloads, RemoveMembers
  <2>2. \A m \in Message : PromisedStatus(m)' = PromisedStatus(m)
    BY <1>2, PromiseThreads
  <2> QED
    BY <1>0, <2>1, <2>2 DEF RefinementInv, Durable!vars
<1>3. ASSUME NEW w \in Writer, WriterStep(w) \/ WriterFails(w)
      PROVE  RefinementInv' /\ Durable!Next
  <2>1. \A m \in Message : PromisedStatus(m)' = PromisedStatus(m)
    BY <1>3, PromiseThreads
  <2>2. \A m \in Message : row'[m] =< PromisedStatus(m)
    BY <1>3, CatchUpWriter
  <2>3. row' \in [Message -> Status]
    BY <1>0 DEF TypeOK, Status
  <2>4. Durable!CatchUp
    BY <1>0, <2>1, <2>2, <2>3 DEF Durable!CatchUp
  <2> QED
    BY <1>0, <2>1, <2>2, <2>4 DEF RefinementInv, Durable!Next
<1>4. CASE UNCHANGED vars
  <2>1. UNCHANGED row /\ \A m \in Message : PromisedStatus(m)' = PromisedStatus(m)
    BY <1>4, PromiseThreads DEF vars
  <2> QED
    BY <1>0, <2>1 DEF RefinementInv, Durable!vars
<1> QED
  BY <1>1, <1>2, <1>3, <1>4 DEF Next

\* The pipeline implements DurableStatus: rows follow what the API accepted
\* and never overtake it, whatever fails and however many threads run.
THEOREM PipelineIsDurable == Spec => ImplementsDurableStatus
BY DurableInit, RefinementStep, PTL DEF Spec, ImplementsDurableStatus, Durable!Spec
=============================================================================
