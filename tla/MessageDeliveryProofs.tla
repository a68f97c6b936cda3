------------------------ MODULE MessageDeliveryProofs ------------------------
(***************************************************************************)
(* That MessagePipeline loses no accepted message and takes no row back,   *)
(* for any number of messages, requests, publishers, writers and failures, *)
(* and that it loses no accepted status change either where one writer     *)
(* reads the stream.                                                       *)
(***************************************************************************)
EXTENDS MessagePipelineProofs, WellFoundedInduction, NaturalsInduction

Published(p) == publisher[p].pc \in {"del", "zrem"}

\* Whatever is on its way has been accepted: the outbox, the batches the
\* publishers hold and the stream carry no event of a request that failed.
OnlyAccepted ==
    /\ \A e \in pending : Accepted(e)
    /\ \A p \in Publisher : \A e \in publisher[p].members : Accepted(e)
    /\ \A i \in Entry : Accepted(log[i])
    /\ \A c \in Caller : call[c] # "idle" => hot[Target(c)] # Absent

\* The message needs its outbox entry no more.
Carried(m) == InStream(m) \/ row[m] # Absent

\* What the writers hold: status changes to acknowledge now, messages that
\* wait for a flush, and messages whose rows were inserted.
WriterHolds(w) ==
    /\ \A i \in writer[w].ackNow : log[i] \in Caller
    /\ \A k \in DOMAIN writer[w].batch : log[writer[w].batch[k]] \in Message
    /\ \A i \in writer[w].flushed : log[i] \in Message /\ row[log[i]] # Absent

\* A publisher removes from the outbox only messages that are carried.
PublisherHolds(p) ==
    \A m \in Message :
        m \in publisher[p].stale \/ (Published(p) /\ m \in publisher[p].members)
            => Carried(m)

DeliveryInv ==
    /\ TypeOK
    /\ OnlyAccepted
    /\ \A w \in Writer : WriterHolds(w)
    /\ ~overflow => /\ \A p \in Publisher : PublisherHolds(p)
                    /\ \A m \in Message :
                            hot[m] # Absent => InOutbox(m) \/ Carried(m)
-----------------------------------------------------------------------------
(* Rows never go back *)

LEMMA RowStep == TypeOK /\ [Next]_vars => \A m \in Message : row[m] =< row'[m]
<1> SUFFICES ASSUME TypeOK, [Next]_vars, NEW m \in Message
             PROVE  row[m] =< row'[m]
  OBVIOUS
<1>0. row[m] \in Nat /\ \A i \in Entry : log[i] \in Event
  BY DEF TypeOK, Status, Absent, Sent, Recalled, Deleted, Entry
<1>1. row' = row => row[m] =< row'[m]
  BY <1>0
<1>2. CASE Api
  BY <1>1, <1>2 DEF Api, Send, LoadMessage, StoreStatus, StoreEvent, Enqueue, Abandon
<1>3. ASSUME NEW p \in Publisher,
             PublisherStep(p) \/ PublisherFails(p) \/ AppendFails(p)
      PROVE  row[m] =< row'[m]
  BY <1>1, <1>3 DEF PublisherStep, PublisherFails, AppendFails, ReadDue, FetchPayloads,
                    DropStale, AppendBatch, DeletePayloads, RemoveMembers
<1>4. ASSUME NEW w \in Writer, WriterStep(w) \/ WriterFails(w)
      PROVE  row[m] =< row'[m]
  <2>1. CASE Flush(w)
    BY <1>0, <2>1 DEF Flush, Greatest, Sent
  <2>2. ASSUME NEW i \in Entry, ApplyStatus(w, i) PROVE row[m] =< row'[m]
    <3>1. /\ log[i] \in Caller /\ log[i] \notin Message
          /\ row' = [row EXCEPT ![Target(log[i])] =
                        IF @ = Absent THEN Absent
                        ELSE Greatest(@, NewStatus(log[i]))]
      BY <1>0, <2>2, EventSets DEF ApplyStatus
    <3>2. NewStatus(log[i]) \in Nat
      BY <3>1 DEF NewStatus, TypeOK, Recalled, Deleted
    <3> QED
      BY <1>0, <3>1, <3>2 DEF Greatest, Absent, TypeOK
  <2> QED
    BY <1>1, <1>4, <2>1, <2>2 DEF WriterStep, WriterFails, Recover, Poll, BatchMessage,
          SkipInvalid, EndOfBatch, AckApplied, AckFlushed
<1>5. CASE UNCHANGED vars
  BY <1>1, <1>5 DEF vars
<1> QED
  BY <1>2, <1>3, <1>4, <1>5 DEF Next

\* However often an event is redelivered, the status of a row never falls.
THEOREM RowsNeverRegress == Spec => RowNeverRegresses
<1>1. TypeOK /\ [Next]_vars => [\A m \in Message : row[m] =< row'[m]]_row
  BY RowStep
<1> QED
  BY <1>1, TypeCorrect, PTL DEF Spec, RowNeverRegresses
-----------------------------------------------------------------------------
(* No accepted message is lost *)

\* What is on the stream unacknowledged stays there while it grows, and what is
\* appended is there from then on.
LEMMA InStreamOnAppend ==
    ASSUME TypeOK, NEW s \in Seq(Event), AddToStream(s), ~overflow'
    PROVE  /\ ~overflow
           /\ \A e : InStream(e) => InStream(e)'
           /\ \A j \in DOMAIN s : InStream(s[j])'
<1>1. /\ Entry \subseteq Entry' /\ \A i \in Entry : log'[i] = log[i]
      /\ \A k \in DOMAIN s : Len(log) + k \in Entry' /\ log'[Len(log) + k] = s[k]
  BY AddToStreamType
<1>2. /\ ~overflow /\ UNCHANGED <<cursor, pel>>
      /\ \A i \in (trimmed + 1)..trimmed' : ~(i > cursor \/ i \in pel)
  BY DEF AddToStream
<1>3. cursor \in Nat /\ trimmed \in Nat /\ trimmed' \in Nat /\ Len(log) \in Nat
      /\ cursor =< Len(log) /\ trimmed =< trimmed'
  BY AddToStreamType DEF TypeOK
<1>4. \A i \in Unacked : i \in Unacked' /\ log'[i] = log[i]
  BY <1>1, <1>2, <1>3 DEF Unacked, Entry
<1>5. ASSUME NEW k \in DOMAIN s PROVE Len(log) + k \in Unacked'
  <2>1. k \in Nat /\ k >= 1
    OBVIOUS
  <2>2. Len(log) + k > cursor /\ Len(log) + k > trimmed
    BY <1>3, <2>1 DEF TypeOK
  <2>3. Len(log) + k > trimmed'
    BY <1>2, <1>3, <2>1, <2>2
  <2> QED
    BY <1>1, <1>2, <2>2, <2>3 DEF Unacked
<1> QED
  BY <1>1, <1>2, <1>4, <1>5 DEF InStream

\* What is carried stays so while the stream is untouched ...
LEMMA CarriedOffStream ==
    ASSUME TypeOK, UNCHANGED <<streamVars, row>>
    PROVE  \A m \in Message : Carried(m) => Carried(m)'
BY DEF streamVars, Carried, InStream, Unacked, Entry

\* ... and while it grows, and what is appended is carried from then on.
LEMMA CarriedOnAppend ==
    ASSUME TypeOK, NEW s \in Seq(Event), AddToStream(s), UNCHANGED row,
           ~overflow'
    PROVE  /\ ~overflow
           /\ \A m \in Message : Carried(m) => Carried(m)'
           /\ \A j \in DOMAIN s : s[j] \in Message => Carried(s[j])'
BY InStreamOnAppend DEF Carried

LEMMA OnlyAcceptedApi ==
    ASSUME TypeOK, OnlyAccepted, Api
    PROVE  OnlyAccepted'
<1> USE EventSets DEF Absent, Sent, Recalled, Deleted
<1>0. /\ \A c \in Caller : Target(c) \in Message /\ NewStatus(c) # Absent
      /\ pending \subseteq Event /\ \A i \in Entry : log[i] \in Event
      /\ \A p \in Publisher : publisher[p].members \subseteq Event
  BY DEF TypeOK, Target, NewStatus, Entry, PublisherState
<1>1. /\ \A m \in Message : hot[m] # Absent => hot'[m] # Absent
      /\ \A c \in Caller : call[c] = "done" => call'[c] = "done"
  <2>1. ASSUME NEW m \in Message, Send(m) PROVE <1>1!1 /\ <1>1!2
    BY <2>1 DEF Send, TypeOK
  <2>2. ASSUME NEW c \in Caller, StoreStatus(c) PROVE <1>1!1 /\ <1>1!2
    BY <1>0, <2>2 DEF StoreStatus, CallStep, TypeOK
  <2>3. ASSUME NEW c \in Caller,
               LoadMessage(c) \/ StoreEvent(c) \/ Enqueue(c) \/ Abandon(c)
        PROVE  <1>1!1 /\ <1>1!2
    BY <2>3 DEF LoadMessage, StoreEvent, Enqueue, Abandon, CallStep, TypeOK
  <2> QED
    BY <2>1, <2>2, <2>3 DEF Api
<1>2. \A e \in Event : Accepted(e) => Accepted(e)'
  BY <1>1 DEF Accepted
<1>3. UNCHANGED <<request, publisher, log>>
  BY DEF Api, Send, LoadMessage, StoreStatus, StoreEvent, Enqueue, Abandon, streamVars
<1>4. \A e \in pending' : Accepted(e)'
  <2>1. ASSUME NEW m \in Message, Send(m) PROVE <1>4
    BY <1>0, <1>2, <2>1 DEF Send, Accepted, OnlyAccepted, TypeOK
  <2>2. ASSUME NEW c \in Caller, Enqueue(c) PROVE <1>4
    BY <1>0, <1>2, <2>2 DEF Enqueue, CallStep, Accepted, OnlyAccepted, TypeOK
  <2>3. ASSUME NEW c \in Caller,
               LoadMessage(c) \/ StoreStatus(c) \/ StoreEvent(c) \/ Abandon(c)
        PROVE  <1>4
    BY <1>0, <1>2, <2>3 DEF LoadMessage, StoreStatus, StoreEvent, Abandon,
                            OnlyAccepted, outboxVars
  <2> QED
    BY <2>1, <2>2, <2>3 DEF Api
<1>5. \A c \in Caller : call'[c] # "idle" => hot'[Target(c)] # Absent
  <2>1. ASSUME NEW c \in Caller, LoadMessage(c) PROVE <1>5
    BY <1>0, <2>1 DEF LoadMessage, CallStep, OnlyAccepted, TypeOK
  <2>2. ASSUME NEW c \in Caller,
               StoreStatus(c) \/ StoreEvent(c) \/ Enqueue(c) \/ Abandon(c)
        PROVE  <1>5
    BY <1>0, <1>1, <2>2 DEF StoreStatus, StoreEvent, Enqueue, Abandon, CallStep,
                            OnlyAccepted, TypeOK
  <2>3. ASSUME NEW m \in Message, Send(m) PROVE <1>5
    BY <1>0, <1>1, <2>3 DEF Send, OnlyAccepted, TypeOK
  <2> QED
    BY <2>1, <2>2, <2>3 DEF Api
<1>6. \A p \in Publisher : \A e \in publisher'[p].members : Accepted(e)'
  BY <1>0, <1>2, <1>3 DEF OnlyAccepted
<1>8. \A i \in Entry' : (Accepted(log[i]))'
  <2>1. Entry' = Entry /\ log' = log
    BY <1>3 DEF Entry
  <2>2. SUFFICES ASSUME NEW i \in Entry PROVE (Accepted(log[i]))'
    BY <2>1
  <2>3. Accepted(log[i]) /\ log[i] \in Event
    BY <1>0 DEF OnlyAccepted
  <2> QED
    BY <1>1, <2>1, <2>3 DEF Accepted
<1>7. \A c \in Caller : Target(c)' = Target(c)
  BY <1>3 DEF Target
<1> QED
  BY <1>4, <1>5, <1>6, <1>7, <1>8 DEF OnlyAccepted

LEMMA OnlyAcceptedPublisher ==
    ASSUME TypeOK, OnlyAccepted, NEW p \in Publisher,
           PublisherStep(p) \/ PublisherFails(p) \/ AppendFails(p)
    PROVE  OnlyAccepted'
<1>0. publisher[p] \in PublisherState /\ publisher \in [Publisher -> PublisherState]
  BY DEF TypeOK
<1>1. UNCHANGED <<request, call, hot>>
  BY DEF PublisherStep, PublisherFails, AppendFails, ReadDue, FetchPayloads, DropStale,
         AppendBatch, DeletePayloads, RemoveMembers, apiVars
<1>2. \A e : Accepted(e)' = Accepted(e)
  BY <1>1 DEF Accepted
<1>3. /\ pending' \subseteq pending
      /\ publisher'[p].members \subseteq publisher[p].members \cup pending
      /\ \A q \in Publisher : q # p => publisher'[q] = publisher[q]
  <2> USE <1>0 DEF outboxVars, IdlePublisher, PublisherState
  <2>1. CASE ReadDue(p)
    BY <2>1 DEF ReadDue
  <2>2. CASE FetchPayloads(p)
    BY <2>2 DEF FetchPayloads
  <2>3. CASE DropStale(p)
    BY <2>3 DEF DropStale
  <2>4. CASE AppendBatch(p)
    BY <2>4 DEF AppendBatch
  <2>5. CASE DeletePayloads(p)
    BY <2>5 DEF DeletePayloads
  <2>6. CASE RemoveMembers(p)
    BY <2>6 DEF RemoveMembers
  <2>7. CASE PublisherFails(p) \/ AppendFails(p)
    BY <2>7 DEF PublisherFails, AppendFails
  <2> QED
    BY <2>1, <2>2, <2>3, <2>4, <2>5, <2>6, <2>7 DEF PublisherStep
<1>4. \A i \in Entry' : Accepted(log'[i])
  <2>1. CASE UNCHANGED log
    BY <2>1 DEF OnlyAccepted, Entry
  <2>2. ASSUME NEW s \in Seq(Event), AddToStream(s),
               \A k \in DOMAIN s : s[k] \in publisher[p].members
        PROVE  <1>4
    <3>1. /\ Len(log') = Len(log) + Len(s) /\ Len(log) \in Nat
          /\ \A i \in Entry : log'[i] = log[i]
          /\ \A k \in DOMAIN s : log'[Len(log) + k] = s[k]
      BY <2>2, AddToStreamType DEF TypeOK
    <3>2. ASSUME NEW i \in Entry', i \notin Entry
          PROVE  \E k \in DOMAIN s : i = Len(log) + k
      <4>1. i - Len(log) \in DOMAIN s
        BY <3>1, <3>2 DEF Entry
      <4> QED
        BY <3>1, <3>2, <4>1 DEF Entry
    <3> QED
      BY <2>2, <3>1, <3>2 DEF OnlyAccepted
  <2>3. CASE AppendBatch(p)
    <3>1. PICK s \in Orders(publisher[p].members) : AddToStream(s)
      BY <2>3 DEF AppendBatch
    <3> QED
      BY <1>0, <2>2, <3>1, OrdersType DEF PublisherState
  <2>4. CASE AppendFails(p)
    <3>1. PICK s \in Orders(publisher[p].members) :
              \E n \in DOMAIN s : AddToStream(SubSeq(s, 1, n))
      BY <2>4 DEF AppendFails
    <3>2. PICK n \in DOMAIN s : AddToStream(SubSeq(s, 1, n))
      BY <3>1
    <3>3. s \in Seq(Event) /\ \A k \in DOMAIN s : s[k] \in publisher[p].members
      BY <1>0, OrdersType DEF PublisherState
    <3>4. /\ SubSeq(s, 1, n) \in Seq(Event)
          /\ \A k \in DOMAIN SubSeq(s, 1, n) :
                SubSeq(s, 1, n)[k] \in publisher[p].members
      BY ZenonT(30), <3>3, Prefix
    <3> QED
      BY <2>2, <3>2, <3>4
  <2> QED
    BY <2>1, <2>3, <2>4 DEF PublisherStep, PublisherFails, ReadDue, FetchPayloads,
          DropStale, DeletePayloads, RemoveMembers, streamVars
<1>5. \A c \in Caller : Target(c)' = Target(c)
  BY <1>1 DEF Target
<1>6. /\ \A e \in pending' : Accepted(e)'
      /\ \A q \in Publisher : \A e \in publisher'[q].members : Accepted(e)'
  BY <1>2, <1>3 DEF OnlyAccepted
<1>7. \A i \in Entry' : (Accepted(log[i]))'
  BY <1>1, <1>4 DEF Accepted
<1> QED
  BY <1>1, <1>5, <1>6, <1>7 DEF OnlyAccepted

LEMMA OnlyAcceptedWriter ==
    ASSUME TypeOK, OnlyAccepted, NEW w \in Writer, WriterStep(w) \/ WriterFails(w)
    PROVE  OnlyAccepted'
<1>1. UNCHANGED <<request, call, hot, pending, publisher, log>>
  BY DEF WriterStep, WriterFails, Recover, Poll, BatchMessage, Flush, ApplyStatus,
         SkipInvalid, EndOfBatch, AckApplied, AckFlushed, apiVars, outboxVars, streamVars
<1> QED
  BY <1>1 DEF OnlyAccepted, Accepted, Entry, Target

LEMMA OnlyAcceptedInit == Init => OnlyAccepted
<1> SUFFICES ASSUME Init PROVE OnlyAccepted
  OBVIOUS
<1>1. Entry = {}
  BY DEF Init, Entry
<1> QED
  BY <1>1 DEF Init, OnlyAccepted, IdlePublisher

LEMMA DeliveryInit == Init => DeliveryInv
<1> SUFFICES ASSUME Init PROVE DeliveryInv
  OBVIOUS
<1>1. \A w \in Writer : WriterHolds(w)
  BY DEF Init, WriterHolds, FreshWriter
<1>2. \A p \in Publisher : PublisherHolds(p)
  BY DEF Init, PublisherHolds, IdlePublisher, Published
<1>3. \A m \in Message : hot[m] = Absent
  BY DEF Init
<1> QED
  BY <1>1, <1>2, <1>3, TypeInit, OnlyAcceptedInit DEF DeliveryInv

\* The writers' entries keep their meaning while the log only grows and rows
\* only appear.
LEMMA WriterHoldsMono ==
    ASSUME TypeOK, DeliveryInv, Entry \subseteq Entry', UNCHANGED <<writer, row>>,
           \A i \in Entry : log'[i] = log[i]
    PROVE  \A w \in Writer : WriterHolds(w)'
<1> SUFFICES ASSUME NEW w \in Writer PROVE WriterHolds(w)'
  OBVIOUS
<1>1. writer[w] \in WriterState /\ WriterHolds(w)
  BY DEF TypeOK, DeliveryInv
<1>2. /\ writer[w].ackNow \subseteq Entry /\ writer[w].flushed \subseteq Entry
      /\ \A k \in DOMAIN writer[w].batch : writer[w].batch[k] \in Entry
  BY <1>1 DEF WriterState
<1> QED
  BY <1>1, <1>2 DEF WriterHolds

LEMMA DeliveryApi == DeliveryInv /\ Api => DeliveryInv'
<1> SUFFICES ASSUME DeliveryInv, Api PROVE DeliveryInv'
  OBVIOUS
<1>0. TypeOK /\ TypeOK' /\ OnlyAccepted'
  BY TypeApi, OnlyAcceptedApi DEF DeliveryInv
<1>1. UNCHANGED <<publisher, streamVars, writer, row>>
  BY DEF Api, Send, LoadMessage, StoreStatus, StoreEvent, Enqueue, Abandon
<1>2. \A w \in Writer : WriterHolds(w)'
  BY <1>0, <1>1, WriterHoldsMono DEF streamVars, Entry
<1>3. /\ \A m \in Message : Carried(m) => Carried(m)'
      /\ overflow' = overflow
  BY <1>0, <1>1, CarriedOffStream DEF streamVars
<1>4. \A p \in Publisher : ~overflow' => PublisherHolds(p)'
  BY <1>1, <1>3 DEF DeliveryInv, PublisherHolds, Published
<1>5. ASSUME ~overflow', NEW m \in Message, hot'[m] # Absent
      PROVE  InOutbox(m)' \/ Carried(m)'
  <2>1. hot[m] # Absent => InOutbox(m) \/ Carried(m)
    BY <1>3, <1>5 DEF DeliveryInv
  <2>2. CASE Send(m)
    BY <2>2 DEF Send, InOutbox
  <2>3. ASSUME NEW n \in Message, n # m, Send(n) PROVE InOutbox(m)' \/ Carried(m)'
    BY <1>0, <1>3, <1>5, <2>1, <2>3 DEF Send, InOutbox, TypeOK
  <2>4. ASSUME NEW c \in Caller, StoreStatus(c) PROVE InOutbox(m)' \/ Carried(m)'
    <3>1. hot[Target(c)] # Absent
      BY <2>4 DEF StoreStatus, CallStep, DeliveryInv, OnlyAccepted
    <3>2. hot[m] # Absent
      BY <1>0, <1>5, <2>4, <3>1 DEF StoreStatus, TypeOK
    <3> QED
      BY <1>3, <2>1, <2>4, <3>2 DEF StoreStatus, InOutbox, outboxVars
  <2>5. ASSUME NEW c \in Caller,
               LoadMessage(c) \/ StoreEvent(c) \/ Enqueue(c) \/ Abandon(c)
        PROVE  InOutbox(m)' \/ Carried(m)'
    BY <1>3, <1>5, <2>1, <2>5 DEF LoadMessage, StoreEvent, Enqueue, Abandon, InOutbox,
                                  outboxVars
  <2> QED
    BY <2>2, <2>3, <2>4, <2>5 DEF Api
<1> QED
  BY <1>0, <1>2, <1>4, <1>5 DEF DeliveryInv

\* The steps of a publisher that leave the stream alone.
LEMMA DeliveryOutbox ==
    ASSUME DeliveryInv, NEW p \in Publisher,
           \/ ReadDue(p) \/ FetchPayloads(p) \/ DropStale(p)
           \/ DeletePayloads(p) \/ RemoveMembers(p) \/ PublisherFails(p)
    PROVE  DeliveryInv'
<1>0. /\ TypeOK /\ TypeOK' /\ OnlyAccepted'
      /\ publisher[p] \in PublisherState
      /\ publisher \in [Publisher -> PublisherState]
  BY TypePublisher, OnlyAcceptedPublisher DEF DeliveryInv, PublisherStep, TypeOK
<1>1. UNCHANGED <<hot, streamVars, writer, row>>
  BY DEF ReadDue, FetchPayloads, DropStale, DeletePayloads, RemoveMembers,
         PublisherFails, apiVars
<1>2. \A w \in Writer : WriterHolds(w)'
  BY <1>0, <1>1, WriterHoldsMono DEF streamVars, Entry
<1>3. /\ \A m \in Message : Carried(m) => Carried(m)'
      /\ overflow' = overflow
  BY <1>0, <1>1, CarriedOffStream DEF streamVars
<1> SUFFICES ASSUME ~overflow'
             PROVE  /\ \A q \in Publisher : PublisherHolds(q)'
                    /\ \A m \in Message :
                            hot'[m] # Absent => InOutbox(m)' \/ Carried(m)'
  BY <1>0, <1>2 DEF DeliveryInv
<1>4. /\ \A q \in Publisher : PublisherHolds(q)
      /\ \A m \in Message : hot[m] # Absent => InOutbox(m) \/ Carried(m)
  BY <1>3 DEF DeliveryInv
<1>5. \A q \in Publisher : q # p => PublisherHolds(q)'
  <2>1. \A q \in Publisher : q # p => publisher'[q] = publisher[q]
    BY <1>0 DEF ReadDue, FetchPayloads, DropStale, DeletePayloads, RemoveMembers,
                PublisherFails
  <2> QED
    BY <1>3, <1>4, <2>1 DEF PublisherHolds, Published
<1>6. PublisherHolds(p)'
  <2> USE <1>0 DEF PublisherHolds, Published, IdlePublisher
  <2>1. CASE ReadDue(p)
    BY <2>1 DEF ReadDue
  <2>2. CASE FetchPayloads(p)
    <3>1. \A m \in Message \cap (publisher[p].members \ eventKey) : Carried(m)
      BY <1>4 DEF DeliveryInv, OnlyAccepted, Accepted, InOutbox
    <3> QED
      BY <1>3, <2>2, <3>1 DEF FetchPayloads
  <2>3. CASE DropStale(p)
    BY <1>3, <1>4, <2>3 DEF DropStale
  <2>4. CASE DeletePayloads(p)
    BY <1>3, <1>4, <2>4 DEF DeletePayloads
  <2>5. CASE RemoveMembers(p) \/ PublisherFails(p)
    BY <2>5 DEF RemoveMembers, PublisherFails
  <2> QED
    BY <2>1, <2>2, <2>3, <2>4, <2>5
<1>7. ASSUME NEW m \in Message, hot[m] # Absent
      PROVE  InOutbox(m)' \/ Carried(m)'
  <2> USE <1>3, <1>4, <1>7
  <2>1. CASE ReadDue(p) \/ FetchPayloads(p) \/ PublisherFails(p)
    BY <2>1 DEF ReadDue, FetchPayloads, PublisherFails, InOutbox, outboxVars
  <2>2. CASE DropStale(p)
    BY <2>2 DEF DropStale, InOutbox, PublisherHolds
  <2>3. CASE DeletePayloads(p)
    BY <2>3 DEF DeletePayloads, InOutbox, PublisherHolds, Published
  <2>4. CASE RemoveMembers(p)
    BY <2>4 DEF RemoveMembers, InOutbox, PublisherHolds, Published
  <2> QED
    BY <2>1, <2>2, <2>3, <2>4
<1> QED
  BY <1>1, <1>5, <1>6, <1>7

\* The steps of a publisher that append to the stream.
LEMMA DeliveryAppend ==
    ASSUME DeliveryInv, NEW p \in Publisher, AppendBatch(p) \/ AppendFails(p)
    PROVE  DeliveryInv'
<1>0. /\ TypeOK /\ TypeOK' /\ OnlyAccepted'
      /\ publisher[p] \in PublisherState
      /\ publisher \in [Publisher -> PublisherState]
  BY TypePublisher, OnlyAcceptedPublisher DEF DeliveryInv, PublisherStep, TypeOK
<1>1. UNCHANGED <<hot, outboxVars, writer, row>>
  BY DEF AppendBatch, AppendFails, apiVars
<1>2. \E s \in Seq(Event) :
         /\ AddToStream(s)
         /\ AppendBatch(p) => \A e \in publisher[p].members :
                                \E j \in DOMAIN s : s[j] = e
  <2>1. CASE AppendBatch(p)
    <3>1. PICK s \in Orders(publisher[p].members) : AddToStream(s)
      BY <2>1 DEF AppendBatch
    <3> QED
      BY <1>0, <3>1, OrdersType DEF PublisherState
  <2>2. CASE AppendFails(p)
    <3>1. PICK s \in Orders(publisher[p].members) :
              \E n \in DOMAIN s : AddToStream(SubSeq(s, 1, n))
      BY <2>2 DEF AppendFails
    <3>2. PICK n \in DOMAIN s : AddToStream(SubSeq(s, 1, n))
      BY <3>1
    <3>3. SubSeq(s, 1, n) \in Seq(Event)
      BY <1>0, OrdersType, Prefix DEF PublisherState
    <3>4. ~AppendBatch(p)
      BY <1>0, <2>2 DEF AppendBatch, AppendFails, IdlePublisher
    <3> QED
      BY <3>2, <3>3, <3>4
  <2> QED
    BY <2>1, <2>2
<1>3. PICK s \in Seq(Event) :
         /\ AddToStream(s)
         /\ AppendBatch(p) => \A e \in publisher[p].members :
                                \E j \in DOMAIN s : s[j] = e
  BY <1>2
<1>4. \A w \in Writer : WriterHolds(w)'
  BY <1>0, <1>1, <1>3, AddToStreamType, WriterHoldsMono
<1> SUFFICES ASSUME ~overflow'
             PROVE  /\ \A q \in Publisher : PublisherHolds(q)'
                    /\ \A m \in Message :
                            hot'[m] # Absent => InOutbox(m)' \/ Carried(m)'
  BY <1>0, <1>4 DEF DeliveryInv
<1>5. /\ ~overflow
      /\ \A m \in Message : Carried(m) => Carried(m)'
      /\ \A j \in DOMAIN s : s[j] \in Message => Carried(s[j])'
  BY <1>0, <1>1, <1>3, CarriedOnAppend
<1>6. ASSUME NEW q \in Publisher, q # p PROVE PublisherHolds(q)'
  <2>1. publisher'[q] = publisher[q] /\ PublisherHolds(q)
    BY <1>0, <1>5, <1>6 DEF AppendBatch, AppendFails, DeliveryInv
  <2> QED
    BY <1>5, <2>1 DEF PublisherHolds, Published
<1>7. PublisherHolds(p)'
  <2>1. CASE AppendBatch(p)
    <3>1. publisher'[p].members = publisher[p].members
          /\ publisher'[p].stale = publisher[p].stale
      BY <1>0, <2>1 DEF AppendBatch, PublisherState
    <3>2. \A m \in Message \cap publisher[p].members : Carried(m)'
      BY <1>3, <1>5, <2>1
    <3>3. \A m \in Message \cap publisher[p].stale : Carried(m)'
      BY <1>5 DEF DeliveryInv, PublisherHolds
    <3> QED
      BY <3>1, <3>2, <3>3 DEF PublisherHolds
  <2>2. CASE AppendFails(p)
    BY <1>0, <2>2 DEF AppendFails, PublisherHolds, Published, IdlePublisher
  <2> QED
    BY <2>1, <2>2
<1>8. \A m \in Message : hot'[m] # Absent => InOutbox(m)' \/ Carried(m)'
  BY <1>1, <1>5 DEF DeliveryInv, InOutbox, outboxVars
<1> QED
  BY <1>6, <1>7, <1>8

LEMMA RowIsNat == TypeOK => \A m \in Message : row[m] \in Nat
BY DEF TypeOK, Status, Absent, Sent, Recalled, Deleted

\* A row that exists stays.
LEMMA RowStays ==
    ASSUME TypeOK, TypeOK', Next
    PROVE  \A m \in Message : row[m] # Absent => row'[m] # Absent
<1>0. row' \in [Message -> Status]
  BY DEF TypeOK, Status
<1>1. \A m \in Message : row[m] \in Nat /\ row'[m] \in Nat
  BY <1>0, RowIsNat DEF Status, Absent, Sent, Recalled, Deleted
<1>2. \A m \in Message : row[m] =< row'[m]
  BY RowStep
<1> QED
  BY <1>1, <1>2 DEF Absent

\* An entry leaves the stream only when the writer acknowledges what it has applied
\* or inserted.
LEMMA AckedEntries ==
    ASSUME TypeOK, NEW w \in Writer, WriterStep(w) \/ WriterFails(w),
           NEW i \in Unacked, i \notin Unacked'
    PROVE  i \in writer[w].ackNow \/ i \in writer[w].flushed
<1>0. cursor \in Nat /\ trimmed \in Nat /\ Len(log) \in Nat
  BY DEF TypeOK
<1>1. log' = log /\ trimmed' = trimmed
  BY DEF WriterStep, WriterFails, Recover, Poll, BatchMessage, Flush, ApplyStatus,
         SkipInvalid, EndOfBatch, AckApplied, AckFlushed, streamVars
<1>2. i \in Nat /\ i \in 1..Len(log) /\ i > trimmed /\ (i > cursor \/ i \in pel)
  BY <1>0 DEF Unacked, Entry
<1>3. ~(i > cursor' \/ i \in pel')
  BY <1>1, <1>2 DEF Unacked, Entry
<1>4. CASE Recover(w)
  BY <1>2, <1>3, <1>4 DEF Recover
<1>5. CASE Poll(w)
  <2>1. PICK first, last \in Nat :
            /\ first = Greatest(cursor, trimmed) + 1
            /\ cursor' = Greatest(cursor, last)
            /\ pel' = pel \cup first..last
    BY <1>5, PollRange
  <2>2. i > cursor => i >= first
    BY <1>0, <1>2, <2>1 DEF Greatest
  <2>3. i =< cursor' /\ i \notin pel'
    BY <1>0, <1>2, <1>3, <2>1 DEF Greatest
  <2>4. i > cursor
    BY <1>2, <2>1, <2>3
  <2>5. i =< last
    BY <1>0, <1>2, <2>1, <2>3, <2>4 DEF Greatest
  <2>6. QED
    BY <1>2, <2>1, <2>2, <2>3, <2>4, <2>5
<1>6. CASE AckApplied(w)
  BY <1>2, <1>3, <1>6 DEF AckApplied
<1>7. CASE AckFlushed(w)
  BY <1>2, <1>3, <1>7 DEF AckFlushed
<1>8. CASE UNCHANGED streamVars
  BY <1>2, <1>3, <1>8 DEF streamVars
<1>9. QED
  BY <1>4, <1>5, <1>6, <1>7, <1>8
    DEF WriterStep, WriterFails, BatchMessage, Flush, ApplyStatus, SkipInvalid, EndOfBatch

\* An entry is acknowledged only once its event is in the database.
LEMMA CarriedByWriter ==
    ASSUME DeliveryInv, NEW w \in Writer, WriterStep(w) \/ WriterFails(w)
    PROVE  \A m \in Message : Carried(m) => Carried(m)'
<1>0. TypeOK /\ TypeOK' /\ WriterHolds(w)
  BY TypeWriter DEF DeliveryInv
<1>1. \A m \in Message : row[m] # Absent => row'[m] # Absent
  BY <1>0, RowStays DEF Next
<1>2. log' = log
  BY DEF WriterStep, WriterFails, Recover, Poll, BatchMessage, Flush, ApplyStatus,
         SkipInvalid, EndOfBatch, AckApplied, AckFlushed, streamVars
<1>3. SUFFICES ASSUME NEW m \in Message, NEW i \in Unacked, log[i] = m, i \notin Unacked'
               PROVE  row[m] # Absent
  BY <1>1, <1>2 DEF Carried, InStream
<1>4. i \in writer[w].ackNow \/ i \in writer[w].flushed
  BY <1>0, <1>3, AckedEntries
<1>5. m \notin Caller
  BY EventSets
<1> QED
  BY <1>0, <1>3, <1>4, <1>5 DEF WriterHolds

LEMMA WriterHoldsStep ==
    ASSUME DeliveryInv, NEW w \in Writer, WriterStep(w) \/ WriterFails(w)
    PROVE  \A v \in Writer : WriterHolds(v)'
<1>0. /\ TypeOK /\ TypeOK' /\ writer[w] \in WriterState /\ WriterHolds(w)
      /\ writer \in [Writer -> WriterState]
  BY TypeWriter DEF DeliveryInv, TypeOK
<1>1. \A m \in Message : row[m] # Absent => row'[m] # Absent
  BY <1>0, RowStays DEF Next
<1>2. log' = log
  BY DEF WriterStep, WriterFails, Recover, Poll, BatchMessage, Flush, ApplyStatus,
         SkipInvalid, EndOfBatch, AckApplied, AckFlushed, streamVars
<1>3. ASSUME NEW v \in Writer, v # w PROVE WriterHolds(v)'
  <2>1. writer'[v] = writer[v]
    BY <1>0, <1>3 DEF WriterStep, WriterFails, Recover, Poll, BatchMessage, Flush,
          ApplyStatus, SkipInvalid, EndOfBatch, AckApplied, AckFlushed
  <2> QED
    BY <1>1, <1>2, <2>1 DEF DeliveryInv, WriterHolds
<1>4. WriterHolds(w)'
  <2> USE <1>0, <1>1, <1>2
  <2>1. CASE Recover(w) \/ Poll(w) \/ EndOfBatch(w) \/ \E i \in Entry : SkipInvalid(w, i)
    <3>1. /\ writer'[w].ackNow = writer[w].ackNow
          /\ writer'[w].batch = writer[w].batch
          /\ writer'[w].flushed = writer[w].flushed
      BY <2>1 DEF Recover, Poll, EndOfBatch, SkipInvalid, WriterState
    <3> QED
      BY <3>1 DEF WriterHolds
  <2>2. ASSUME NEW i \in Entry, BatchMessage(w, i) PROVE WriterHolds(w)'
    <3>1. /\ writer'[w].ackNow = writer[w].ackNow
          /\ writer'[w].flushed = writer[w].flushed
          /\ writer'[w].batch = Append(writer[w].batch, i)
          /\ log[i] \in Message
      BY <2>2 DEF BatchMessage, WriterState
    <3>2. ASSUME NEW k \in DOMAIN writer'[w].batch
          PROVE  writer'[w].batch[k] = i \/
                 (k \in DOMAIN writer[w].batch /\ writer'[w].batch[k] = writer[w].batch[k])
      BY <3>1, <3>2 DEF WriterState
    <3> QED
      BY <3>1, <3>2 DEF WriterHolds
  <2>3. CASE Flush(w)
    <3> DEFINE batched == {writer[w].batch[k] : k \in DOMAIN writer[w].batch}
    <3>1. /\ writer'[w].ackNow = writer[w].ackNow
          /\ writer'[w].flushed = writer[w].flushed \cup batched
          /\ writer'[w].batch = <<>>
      BY <2>3 DEF Flush, WriterState
    <3>2. \A i \in batched : log[i] \in Message /\ row'[log[i]] # Absent
      <4>1. SUFFICES ASSUME NEW i \in batched PROVE log[i] \in Message /\ row'[log[i]] # Absent
        OBVIOUS
      <4>2. log[i] \in Message
        BY DEF WriterHolds
      <4>3. row'[log[i]] = Greatest(row[log[i]], Sent)
        BY <2>3, <4>2 DEF Flush
      <4>4. row[log[i]] \in Nat
        BY <4>2, RowIsNat
      <4> QED
        BY <4>2, <4>3, <4>4 DEF Greatest, Sent, Absent
    <3> QED
      BY <3>1, <3>2 DEF WriterHolds
  <2>4. ASSUME NEW i \in Entry, ApplyStatus(w, i) PROVE WriterHolds(w)'
    <3>1. /\ writer'[w].ackNow = writer[w].ackNow \cup {i}
          /\ writer'[w].batch = writer[w].batch
          /\ writer'[w].flushed = writer[w].flushed
          /\ log[i] \in Caller
      BY <2>4 DEF ApplyStatus, WriterState
    <3> QED
      BY <3>1 DEF WriterHolds
  <2>5. CASE AckApplied(w) \/ AckFlushed(w) \/ WriterFails(w)
    <3>1. /\ writer'[w].ackNow \subseteq writer[w].ackNow
          /\ writer'[w].batch = writer[w].batch \/ writer'[w].batch = <<>>
          /\ writer'[w].flushed \subseteq writer[w].flushed
      BY <2>5 DEF AckApplied, AckFlushed, WriterFails, FreshWriter, WriterState
    <3> QED
      BY <3>1 DEF WriterHolds
  <2> QED
    BY <2>1, <2>2, <2>3, <2>4, <2>5 DEF WriterStep
<1> QED
  BY <1>3, <1>4

LEMMA DeliveryWriter ==
    ASSUME DeliveryInv, NEW w \in Writer, WriterStep(w) \/ WriterFails(w)
    PROVE  DeliveryInv'
<1>1. UNCHANGED <<hot, outboxVars, publisher, overflow>>
  BY DEF WriterStep, WriterFails, Recover, Poll, BatchMessage, Flush, ApplyStatus,
         SkipInvalid, EndOfBatch, AckApplied, AckFlushed, apiVars, streamVars
<1>2. /\ TypeOK' /\ OnlyAccepted'
      /\ \A v \in Writer : WriterHolds(v)'
      /\ \A m \in Message : Carried(m) => Carried(m)'
  BY TypeWriter, OnlyAcceptedWriter, WriterHoldsStep, CarriedByWriter DEF DeliveryInv
<1>3. ~overflow' => \A p \in Publisher : PublisherHolds(p)'
  BY <1>1, <1>2 DEF DeliveryInv, PublisherHolds, Published
<1>4. ~overflow' => \A m \in Message : hot'[m] # Absent => InOutbox(m)' \/ Carried(m)'
  BY <1>1, <1>2 DEF DeliveryInv, InOutbox, outboxVars
<1> QED
  BY <1>2, <1>3, <1>4 DEF DeliveryInv

LEMMA DeliveryStep == DeliveryInv /\ [Next]_vars => DeliveryInv'
<1>1. DeliveryInv /\ Next => DeliveryInv'
  BY DeliveryApi, DeliveryOutbox, DeliveryAppend, DeliveryWriter DEF Next, PublisherStep
<1>2. ASSUME DeliveryInv, UNCHANGED vars PROVE DeliveryInv'
  <2>1. TypeOK' /\ UNCHANGED <<request, call, hot, eventKey, pending, publisher, log,
                               streamVars, writer, row, overflow>>
    BY <1>2, TypeStep DEF DeliveryInv, vars, apiVars, outboxVars, streamVars
  <2>2. OnlyAccepted'
    BY <1>2, <2>1 DEF DeliveryInv, OnlyAccepted, Accepted, Entry, Target
  <2>3. \A w \in Writer : WriterHolds(w)'
    BY <1>2, <2>1 DEF DeliveryInv, WriterHolds
  <2>4. \A m \in Message : Carried(m) => Carried(m)'
    BY <1>2, <2>1, CarriedOffStream DEF DeliveryInv
  <2> QED
    BY <1>2, <2>1, <2>2, <2>3, <2>4 DEF DeliveryInv, PublisherHolds, Published, InOutbox
<1> QED
  BY <1>1, <1>2

THEOREM DeliveryCorrect == Spec => []DeliveryInv
BY DeliveryInit, DeliveryStep, PTL DEF Spec

\* A message the API has accepted is never lost on its way to the database.
THEOREM NothingLost == Spec => []NoMessageLost
<1>1. DeliveryInv => NoMessageLost
  <2> SUFFICES ASSUME DeliveryInv, ~overflow, NEW m \in Message, hot[m] # Absent,
                      row[m] # Absent
               PROVE  InRow(m)
    BY DEF NoMessageLost, DeliveryInv, Accepted, Carried
  <2>1. row[m] \in Nat
    BY RowIsNat DEF DeliveryInv
  <2> QED
    BY <2>1 DEF InRow, Target, NewStatus, Absent, Sent
<1> QED
  BY <1>1, DeliveryCorrect, PTL
-----------------------------------------------------------------------------
(* No accepted status change is lost, where one writer reads the stream    *)
(* and status changes are scored later than the creation of their message. *)

\* The event has been appended to the stream.
Logged(e) == \E i \in Entry : log[i] = e

\* The event needs its outbox entry no more: for a status change that comes after
\* it, a message has only to be on the stream.
Held(e) == IF e \in Message THEN Logged(e) ELSE InStream(e) \/ InRow(e)

OutboxHolds ==
    /\ \A e \in Event : Accepted(e) => InOutbox(e) \/ Held(e)
    /\ \A p \in Publisher : \A e \in Event :
          e \in publisher[p].stale \/ (Published(p) /\ e \in publisher[p].members)
              => Held(e)

\* Messages come before their status changes in the batches of the publishers ...
BatchesInOrder ==
    \A p \in Publisher : \A c \in Caller :
        c \in publisher[p].members => Target(c) \in publisher[p].members \/ Logged(Target(c))

\* ... and on the stream.
LogInOrder ==
    \A i \in Entry : log[i] \in Caller => \E j \in Entry : j < i /\ log[j] = Target(log[i])

\* A message that is through the writer has its row.
Through(i) == log[i] \in Message => row[log[i]] # Absent
Batched(w) == {writer[w].batch[k] : k \in DOMAIN writer[w].batch}

\* Entries are acknowledged, or trimmed, only once they are through, and a writer has
\* at hand whatever is not through and older than what it is going to process.
StreamInOrder ==
    /\ \A i \in 1..cursor : i \notin pel => Through(i)
    /\ \A i \in 1..trimmed : i =< cursor /\ i \notin pel
    /\ \A w \in Writer :
          /\ writer[w].pc = "poll" => pel = {}
          /\ writer[w].todo \subseteq 1..cursor
          /\ \A i \in writer[w].todo, j \in pel :
                j < i => j \in writer[w].todo \/ j \in Batched(w) \/ Through(j)
          /\ \A i \in writer[w].ackNow : InRow(log[i])

StatusInv ==
    /\ DeliveryInv
    /\ \A c \in Caller : call[c] = "keyed" => c \in eventKey
    /\ ~overflow => OutboxHolds /\ BatchesInOrder /\ LogInOrder /\ StreamInOrder
-----------------------------------------------------------------------------
LEMMA CallerEvents ==
    ASSUME TypeOK, NEW c \in Caller
    PROVE  /\ c \in Event /\ c \notin Message
           /\ Target(c) = request[c].msg /\ NewStatus(c) = request[c].status
           /\ Target(c) \in Message /\ Target(c) \in Event /\ Target(c) \notin Caller
           /\ NewStatus(c) \in Nat /\ NewStatus(c) > 0
  BY EventSets DEF TypeOK, Target, NewStatus, Recalled, Deleted

LEMMA LogIsKept ==
    ASSUME UNCHANGED log
    PROVE  \A e : Logged(e)' <=> Logged(e)
  BY DEF Logged, Entry

LEMMA HeldOffStream ==
    ASSUME TypeOK, UNCHANGED <<request, streamVars, row>>
    PROVE  \A e \in Event : Held(e)' <=> Held(e)
<1>1. UNCHANGED <<log, trimmed, cursor, pel>>
  BY DEF streamVars
<1>2. \A e \in Event : InRow(e)' <=> InRow(e)
  BY DEF InRow, Target, NewStatus
<1>3. \A e \in Event : InStream(e)' <=> InStream(e)
  BY <1>1 DEF InStream, Unacked, Entry
<1>4. QED
  BY <1>1, <1>2, <1>3, LogIsKept DEF Held

LEMMA HeldOnAppend ==
    ASSUME TypeOK, NEW s \in Seq(Event), AddToStream(s), UNCHANGED <<request, row>>,
           ~overflow'
    PROVE  /\ \A e \in Event : Held(e) => Held(e)'
           /\ \A e : Logged(e) => Logged(e)'
           /\ \A k \in DOMAIN s : Held(s[k])'
<1>1. /\ Entry \subseteq Entry' /\ \A i \in Entry : log'[i] = log[i]
      /\ \A k \in DOMAIN s : Len(log) + k \in Entry' /\ log'[Len(log) + k] = s[k]
  BY AddToStreamType
<1>2. /\ \A e : Logged(e) => Logged(e)'
      /\ \A k \in DOMAIN s : Logged(s[k])'
  BY <1>1 DEF Logged
<1>3. \A e \in Event : InRow(e)' <=> InRow(e)
  BY DEF InRow, Target, NewStatus
<1>4. /\ \A e : InStream(e) => InStream(e)'
      /\ \A k \in DOMAIN s : InStream(s[k])'
  BY InStreamOnAppend
<1>5. \A k \in DOMAIN s : s[k] \in Event
  OBVIOUS
<1>6. QED
  BY <1>2, <1>3, <1>4, <1>5 DEF Held
-----------------------------------------------------------------------------
LEMMA StatusInit == Init => StatusInv
<1> SUFFICES ASSUME Init PROVE StatusInv
  OBVIOUS
<1>1. Entry = {} /\ 1..cursor = {} /\ 1..trimmed = {}
  BY DEF Init, Entry
<1>2. OutboxHolds
  BY EventSets DEF Init, OutboxHolds, Accepted, Absent, IdlePublisher, Published
<1>3. BatchesInOrder /\ LogInOrder
  BY <1>1 DEF Init, BatchesInOrder, LogInOrder, IdlePublisher
<1>4. StreamInOrder
  BY <1>1 DEF Init, StreamInOrder, FreshWriter
<1>5. QED
  BY <1>2, <1>3, <1>4, DeliveryInit DEF StatusInv, Init

LEMMA StatusApi == StatusInv /\ Api => StatusInv'
<1> SUFFICES ASSUME StatusInv, Api PROVE StatusInv'
  OBVIOUS
<1>0. TypeOK /\ OnlyAccepted /\ DeliveryInv'
  BY DeliveryApi DEF StatusInv, DeliveryInv
<1>1. /\ UNCHANGED <<request, publisher, streamVars, writer, row>>
      /\ eventKey \subseteq eventKey' /\ pending \subseteq pending'
  BY DEF Api, Send, LoadMessage, StoreStatus, StoreEvent, Enqueue, Abandon, outboxVars
<1>2. UNCHANGED <<log, trimmed, cursor, pel, overflow>>
  BY <1>1 DEF streamVars
<1>3. \A c \in Caller : call'[c] = "keyed" => c \in eventKey'
  <2>1. ASSUME NEW c \in Caller, StoreEvent(c) PROVE <1>3
    BY <1>0, <2>1 DEF StoreEvent, CallStep, StatusInv, TypeOK
  <2>2. ASSUME NEW c \in Caller,
               LoadMessage(c) \/ StoreStatus(c) \/ Enqueue(c) \/ Abandon(c)
        PROVE  <1>3
    BY <1>0, <1>1, <2>2 DEF LoadMessage, StoreStatus, Enqueue, Abandon, CallStep, StatusInv,
                            TypeOK
  <2>3. ASSUME NEW m \in Message, Send(m) PROVE <1>3
    BY <1>1, <2>3 DEF Send, StatusInv
  <2>4. QED
    BY <2>1, <2>2, <2>3 DEF Api
<1>4. ASSUME NEW e \in Event, Accepted(e)' PROVE Accepted(e) \/ InOutbox(e)'
  <2>1. ASSUME NEW m \in Message, Send(m) PROVE Accepted(e) \/ InOutbox(e)'
    <3>1. e = m \/ Accepted(e)
      BY <1>0, <1>4, <2>1 DEF Send, Accepted, TypeOK
    <3>2. QED
      BY <2>1, <3>1 DEF Send, InOutbox
  <2>2. ASSUME NEW c \in Caller, StoreStatus(c) PROVE Accepted(e) \/ InOutbox(e)'
    <3>1. hot[Target(c)] # Absent
      BY <1>0, <2>2 DEF StoreStatus, CallStep, OnlyAccepted
    <3>2. QED
      BY <1>0, <1>4, <2>2, <3>1 DEF StoreStatus, CallStep, Accepted, TypeOK
  <2>3. ASSUME NEW c \in Caller, Enqueue(c) PROVE Accepted(e) \/ InOutbox(e)'
    <3>1. e = c \/ Accepted(e)
      BY <1>0, <1>4, <2>3 DEF Enqueue, CallStep, Accepted, TypeOK
    <3>2. c \in eventKey
      BY <2>3 DEF Enqueue, CallStep, StatusInv
    <3>3. QED
      BY <2>3, <3>1, <3>2 DEF Enqueue, InOutbox
  <2>4. ASSUME NEW c \in Caller, LoadMessage(c) \/ StoreEvent(c) \/ Abandon(c)
        PROVE  Accepted(e) \/ InOutbox(e)'
    <3>1. hot' = hot /\ \A d \in Caller : call'[d] = "done" => call[d] = "done"
      BY <1>0, <2>4 DEF LoadMessage, StoreEvent, Abandon, CallStep, TypeOK
    <3>2. QED
      BY <1>4, <3>1, EventSets DEF Accepted
  <2>5. QED
    BY <2>1, <2>2, <2>3, <2>4 DEF Api
<1>5. ASSUME ~overflow
      PROVE  (OutboxHolds /\ BatchesInOrder /\ LogInOrder /\ StreamInOrder)'
  <2>1. OutboxHolds /\ BatchesInOrder /\ LogInOrder /\ StreamInOrder
    BY <1>5 DEF StatusInv
  <2>2. \A e \in Event : Held(e)' <=> Held(e)
    BY <1>0, <1>1, HeldOffStream
  <2>3. OutboxHolds'
    BY <1>1, <1>4, <2>1, <2>2 DEF OutboxHolds, InOutbox, Published
  <2>4. BatchesInOrder'
    BY <1>1, <1>2, <2>1, LogIsKept DEF BatchesInOrder, Target
  <2>5. LogInOrder'
    BY <1>1, <1>2, <2>1 DEF LogInOrder, Entry, Target
  <2>6. StreamInOrder'
    BY <1>1, <1>2, <2>1 DEF StreamInOrder, Through, Batched, InRow, Target, NewStatus
  <2>7. QED
    BY <2>3, <2>4, <2>5, <2>6
<1>6. QED
  BY <1>0, <1>2, <1>3, <1>5 DEF StatusInv

\* A message is accepted before its status changes, so it has left the outbox for the
\* stream or is still in it.
LEMMA TargetIsHeld ==
    ASSUME TypeOK, OnlyAccepted, OutboxHolds, NEW c \in Caller, Accepted(c)
    PROVE  Logged(Target(c)) \/ InOutbox(Target(c))
<1>1. call[c] = "done" /\ Target(c) \in Message /\ Target(c) \in Event
  BY CallerEvents DEF Accepted
<1>2. hot[Target(c)] # Absent
  BY <1>1 DEF OnlyAccepted
<1>3. Accepted(Target(c))
  BY <1>1, <1>2 DEF Accepted
<1>4. QED
  BY <1>1, <1>3 DEF OutboxHolds, Held

\* The steps of a publisher that leave the stream alone.
LEMMA StatusOutbox ==
    ASSUME StatusInv, OneClock, NEW p \in Publisher,
           \/ ReadDue(p) \/ FetchPayloads(p) \/ DropStale(p)
           \/ DeletePayloads(p) \/ RemoveMembers(p) \/ PublisherFails(p)
    PROVE  StatusInv'
<1>0. /\ TypeOK /\ OnlyAccepted /\ DeliveryInv'
      /\ publisher[p] \in PublisherState
      /\ publisher \in [Publisher -> PublisherState]
  BY DeliveryOutbox DEF StatusInv, DeliveryInv, TypeOK
<1>1. UNCHANGED <<request, call, hot, streamVars, writer, row>>
  BY DEF ReadDue, FetchPayloads, DropStale, DeletePayloads, RemoveMembers,
         PublisherFails, apiVars
<1>2. UNCHANGED <<log, trimmed, cursor, pel, overflow>>
  BY <1>1 DEF streamVars
<1>3. \A q \in Publisher : q # p => publisher'[q] = publisher[q]
  BY <1>0 DEF ReadDue, FetchPayloads, DropStale, DeletePayloads, RemoveMembers,
              PublisherFails
<1>4. \A c \in Caller : call'[c] = "keyed" => c \in eventKey'
  <2>1. SUFFICES ASSUME NEW c \in Caller, call[c] = "keyed" PROVE c \in eventKey'
    BY <1>1
  <2>2. c \in eventKey /\ ~Accepted(c)
    BY <2>1, EventSets DEF StatusInv, Accepted
  <2>3. c \notin publisher[p].members
    BY <1>0, <2>2 DEF OnlyAccepted
  <2>4. QED
    BY <2>2, <2>3 DEF ReadDue, FetchPayloads, DropStale, DeletePayloads, RemoveMembers,
                      PublisherFails, outboxVars
<1>5. SUFFICES ASSUME ~overflow
               PROVE  (OutboxHolds /\ BatchesInOrder /\ LogInOrder /\ StreamInOrder)'
  BY <1>0, <1>2, <1>4 DEF StatusInv
<1>6. OutboxHolds /\ BatchesInOrder /\ LogInOrder /\ StreamInOrder
  BY <1>5 DEF StatusInv
<1>7. /\ \A e \in Event : Held(e)' <=> Held(e)
      /\ \A e : Logged(e)' <=> Logged(e)
      /\ \A c \in Caller : Target(c)' = Target(c)
      /\ \A e \in Event : Accepted(e)' <=> Accepted(e)
  BY <1>0, <1>1, <1>2, HeldOffStream, LogIsKept DEF Target, Accepted
<1>8. \A e \in Event : Accepted(e)' => InOutbox(e)' \/ Held(e)'
  <2>1. SUFFICES ASSUME NEW e \in Event, InOutbox(e), ~Held(e) PROVE InOutbox(e)'
    BY <1>6, <1>7 DEF OutboxHolds
  <2>2. /\ e \notin publisher[p].stale
        /\ Published(p) => e \notin publisher[p].members
    BY <1>6, <2>1 DEF OutboxHolds
  <2>3. CASE ReadDue(p) \/ FetchPayloads(p) \/ PublisherFails(p)
    BY <2>1, <2>3 DEF ReadDue, FetchPayloads, PublisherFails, InOutbox, outboxVars
  <2>4. CASE DropStale(p) \/ DeletePayloads(p) \/ RemoveMembers(p)
    BY <2>1, <2>2, <2>4 DEF DropStale, DeletePayloads, RemoveMembers, InOutbox, Published
  <2>5. QED
    BY <2>3, <2>4
<1>9. OutboxHolds'
  <2>1. SUFFICES ASSUME NEW q \in Publisher, NEW e \in Event,
                        \/ e \in publisher'[q].stale
                        \/ publisher'[q].pc \in {"del", "zrem"} /\ e \in publisher'[q].members
                 PROVE  Held(e)
    BY <1>7, <1>8 DEF OutboxHolds, Published
  <2>2. CASE q # p
    BY <1>3, <1>6, <2>1, <2>2 DEF OutboxHolds, Published
  <2>3. CASE q = p /\ FetchPayloads(p)
    <3>1. e \in publisher[p].members /\ e \notin eventKey
      BY <1>0, <2>1, <2>3 DEF FetchPayloads
    <3>2. Accepted(e)
      BY <1>0, <3>1 DEF OnlyAccepted
    <3>3. QED
      BY <1>6, <3>1, <3>2 DEF OutboxHolds, InOutbox
  <2>4. CASE q = p /\ (ReadDue(p) \/ RemoveMembers(p) \/ PublisherFails(p))
    BY <1>0, <2>1, <2>4 DEF ReadDue, RemoveMembers, PublisherFails, IdlePublisher
  <2>5. CASE q = p /\ DropStale(p)
    BY <1>0, <2>1, <2>5 DEF DropStale, IdlePublisher, PublisherState
  <2>6. CASE q = p /\ DeletePayloads(p)
    <3>1. /\ publisher'[p].members = publisher[p].members
          /\ publisher'[p].stale = publisher[p].stale
      BY <1>0, <2>6 DEF DeletePayloads, PublisherState
    <3>2. Published(p)
      BY <2>6 DEF DeletePayloads, Published
    <3>3. QED
      BY <1>6, <2>1, <2>6, <3>1, <3>2 DEF OutboxHolds
  <2>7. QED
    BY <2>2, <2>3, <2>4, <2>5, <2>6
<1>10. BatchesInOrder'
  <2>1. SUFFICES ASSUME NEW q \in Publisher, NEW c \in Caller, c \in publisher'[q].members
                 PROVE  Target(c) \in publisher'[q].members \/ Logged(Target(c))
    BY <1>7 DEF BatchesInOrder
  <2>2. CASE q # p
    BY <1>3, <1>6, <2>1, <2>2 DEF BatchesInOrder
  <2>3. CASE q = p /\ ReadDue(p)
    <3>1. PICK S \in SUBSET pending :
              /\ LowestScores(S)
              /\ publisher' = [publisher EXCEPT ![p] =
                                  [pc |-> "fetch", members |-> S, stale |-> {}]]
      BY <2>3 DEF ReadDue
    <3>2. publisher'[q].members = S /\ c \in S
      BY <1>0, <2>1, <2>3, <3>1
    <3>3. Accepted(c)
      BY <1>0, <3>2 DEF OnlyAccepted
    <3>4. Logged(Target(c)) \/ Target(c) \in pending
      BY <1>0, <1>6, <3>3, TargetIsHeld DEF InOutbox
    <3>5. QED
      BY <3>1, <3>2, <3>4 DEF LowestScores
  <2>4. CASE q = p /\ FetchPayloads(p)
    <3>1. /\ publisher'[q].members = publisher[p].members \cap eventKey
          /\ c \in publisher[p].members
      BY <1>0, <2>1, <2>4 DEF FetchPayloads
    <3>2. Accepted(c)
      BY <1>0, <3>1 DEF OnlyAccepted
    <3>3. Logged(Target(c)) \/ Target(c) \in eventKey
      BY <1>0, <1>6, <3>2, TargetIsHeld DEF InOutbox
    <3>4. QED
      BY <1>6, <3>1, <3>3 DEF BatchesInOrder
  <2>5. CASE q = p /\ (DropStale(p) \/ DeletePayloads(p))
    <3>1. publisher'[p].members = publisher[p].members
      <4>1. CASE DropStale(p) /\ publisher[p].members = {}
        BY <1>0, <4>1 DEF DropStale, IdlePublisher
      <4>2. CASE DropStale(p) /\ publisher[p].members # {}
        BY <1>0, <4>2 DEF DropStale, PublisherState
      <4>3. CASE DeletePayloads(p)
        BY <1>0, <4>3 DEF DeletePayloads, PublisherState
      <4>4. QED
        BY <2>5, <4>1, <4>2, <4>3
    <3>2. QED
      BY <1>6, <2>1, <2>5, <3>1 DEF BatchesInOrder
  <2>6. CASE q = p /\ (RemoveMembers(p) \/ PublisherFails(p))
    BY <1>0, <2>1, <2>6 DEF RemoveMembers, PublisherFails, IdlePublisher
  <2>7. QED
    BY <2>2, <2>3, <2>4, <2>5, <2>6
<1>11. LogInOrder'
  BY <1>1, <1>2, <1>6 DEF LogInOrder, Entry, Target
<1>12. StreamInOrder'
  BY <1>1, <1>2, <1>6 DEF StreamInOrder, Through, Batched, InRow, Target, NewStatus
<1>13. QED
  BY <1>8, <1>9, <1>10, <1>11, <1>12

\* What a publisher appends are members of its batch, a message before its status
\* changes, and the whole batch unless it fails.
LEMMA AppendedInOrder ==
    ASSUME TypeOK, OneClock, NEW p \in Publisher, AppendBatch(p) \/ AppendFails(p)
    PROVE  \E s \in Seq(Event) :
              /\ AddToStream(s)
              /\ \A j \in DOMAIN s : s[j] \in publisher[p].members
              /\ \A j \in DOMAIN s : Target(s[j]) \in publisher[p].members =>
                                        \E k \in 1..j : s[k] = Target(s[j])
              /\ AppendBatch(p) => \A e \in publisher[p].members :
                                        \E j \in DOMAIN s : s[j] = e
<1>0. publisher[p] \in PublisherState /\ publisher[p].members \in SUBSET Event
  BY DEF TypeOK, PublisherState
<1>1. ASSUME NEW s \in Orders(publisher[p].members)
      PROVE  /\ s \in Seq(Event)
             /\ \A j \in DOMAIN s : s[j] \in publisher[p].members
             /\ \A e \in publisher[p].members : \E j \in DOMAIN s : s[j] = e
             /\ \A j \in DOMAIN s : Target(s[j]) \in publisher[p].members =>
                                        \E k \in 1..j : s[k] = Target(s[j])
  BY <1>0, OrdersType DEF Orders
<1>2. CASE AppendBatch(p)
  BY <1>1, <1>2 DEF AppendBatch
<1>3. CASE AppendFails(p)
  <2>1. PICK s \in Orders(publisher[p].members) :
            \E n \in DOMAIN s : AddToStream(SubSeq(s, 1, n))
    BY <1>3 DEF AppendFails
  <2>2. PICK n \in DOMAIN s : AddToStream(SubSeq(s, 1, n))
    BY <2>1
  <2> DEFINE t == SubSeq(s, 1, n)
  <2>3. /\ t \in Seq(Event) /\ DOMAIN t = 1..n /\ n \in Nat
        /\ \A k \in 1..n : k \in DOMAIN s /\ t[k] = s[k]
    BY <1>1, Prefix
  <2>4. ~AppendBatch(p)
    BY <1>0, <1>3 DEF TypeOK, AppendBatch, AppendFails, IdlePublisher
  <2>5. AddToStream(t)
    BY <2>2
  <2> HIDE DEF t
  <2>6. ASSUME NEW j \in DOMAIN t, Target(t[j]) \in publisher[p].members
        PROVE  \E k \in 1..j : t[k] = Target(t[j])
    <3>1. j \in DOMAIN s /\ t[j] = s[j] /\ j \in 1..n
      BY <2>3
    <3>2. PICK k \in 1..j : s[k] = Target(s[j])
      BY <1>1, <2>6, <3>1
    <3>3. k \in 1..n
      BY <2>3, <3>1
    <3>4. QED
      BY <2>3, <3>1, <3>2, <3>3
  <2>7. QED
    BY <1>1, <2>3, <2>4, <2>5, <2>6
<1>4. QED
  BY <1>2, <1>3

\* The steps of a publisher that append to the stream.
LEMMA StatusAppend ==
    ASSUME StatusInv, OneClock, NEW p \in Publisher, AppendBatch(p) \/ AppendFails(p)
    PROVE  StatusInv'
<1>0. /\ TypeOK /\ OnlyAccepted /\ DeliveryInv'
      /\ publisher[p] \in PublisherState
      /\ publisher \in [Publisher -> PublisherState]
  BY DeliveryAppend DEF StatusInv, DeliveryInv, TypeOK
<1>1. UNCHANGED <<request, call, hot, eventKey, pending, writer, row>>
  BY DEF AppendBatch, AppendFails, apiVars, outboxVars
<1>2. PICK s \in Seq(Event) :
         /\ AddToStream(s)
         /\ \A j \in DOMAIN s : s[j] \in publisher[p].members
         /\ \A j \in DOMAIN s : Target(s[j]) \in publisher[p].members =>
                                   \E k \in 1..j : s[k] = Target(s[j])
         /\ AppendBatch(p) => \A e \in publisher[p].members : \E j \in DOMAIN s : s[j] = e
  BY <1>0, AppendedInOrder
<1>3. \A c \in Caller : call'[c] = "keyed" => c \in eventKey'
  BY <1>1 DEF StatusInv
<1>4. SUFFICES ASSUME ~overflow'
               PROVE  (OutboxHolds /\ BatchesInOrder /\ LogInOrder /\ StreamInOrder)'
  BY <1>0, <1>3 DEF StatusInv
<1>5. ~overflow /\ OutboxHolds /\ BatchesInOrder /\ LogInOrder /\ StreamInOrder
  BY <1>2, <1>4 DEF StatusInv, AddToStream
<1>6. /\ \A e \in Event : Held(e) => Held(e)'
      /\ \A e : Logged(e) => Logged(e)'
      /\ \A k \in DOMAIN s : Held(s[k])'
  BY <1>0, <1>1, <1>2, <1>4, HeldOnAppend
<1>7. /\ Entry \subseteq Entry' /\ \A i \in Entry : log'[i] = log[i]
      /\ \A k \in DOMAIN s : Len(log) + k \in Entry' /\ log'[Len(log) + k] = s[k]
      /\ Len(log') = Len(log) + Len(s) /\ Len(log) \in Nat /\ trimmed' \in Nat
  BY <1>0, <1>2, AddToStreamType DEF TypeOK
<1>8. /\ \A c \in Caller : Target(c)' = Target(c) /\ NewStatus(c)' = NewStatus(c)
      /\ \A e \in Event : Accepted(e)' <=> Accepted(e)
      /\ \A q \in Publisher : q # p => publisher'[q] = publisher[q]
  BY <1>0, <1>1 DEF Target, NewStatus, Accepted, AppendBatch, AppendFails
<1>9. OutboxHolds'
  <2>1. \A e \in Event : Accepted(e)' => InOutbox(e)' \/ Held(e)'
    BY <1>1, <1>5, <1>6, <1>8 DEF OutboxHolds, InOutbox
  <2>2. ASSUME NEW q \in Publisher, NEW e \in Event,
               \/ e \in publisher'[q].stale
               \/ publisher'[q].pc \in {"del", "zrem"} /\ e \in publisher'[q].members
        PROVE  Held(e)'
    <3>1. CASE q # p
      BY <1>5, <1>6, <1>8, <2>2, <3>1 DEF OutboxHolds, Published
    <3>2. CASE q = p /\ AppendBatch(p)
      <4>1. /\ publisher'[p].members = publisher[p].members
            /\ publisher'[p].stale = publisher[p].stale
        BY <1>0, <3>2 DEF AppendBatch, PublisherState
      <4>2. e \in publisher[p].stale \/ \E j \in DOMAIN s : s[j] = e
        BY <1>2, <2>2, <3>2, <4>1
      <4>3. QED
        BY <1>5, <1>6, <4>2 DEF OutboxHolds
    <3>3. CASE q = p /\ AppendFails(p)
      BY <1>0, <2>2, <3>3 DEF AppendFails, IdlePublisher
    <3>4. QED
      BY <3>1, <3>2, <3>3
  <2>3. QED
    BY <2>1, <2>2 DEF OutboxHolds, Published
<1>10. BatchesInOrder'
  <2>1. SUFFICES ASSUME NEW q \in Publisher, NEW c \in Caller, c \in publisher'[q].members
                 PROVE  Target(c) \in publisher'[q].members \/ Logged(Target(c))'
    BY <1>8 DEF BatchesInOrder, Logged
  <2>2. CASE q # p
    BY <1>5, <1>6, <1>8, <2>1, <2>2 DEF BatchesInOrder
  <2>3. CASE q = p /\ AppendBatch(p)
    <3>1. publisher'[p].members = publisher[p].members
      BY <1>0, <2>3 DEF AppendBatch, PublisherState
    <3>2. QED
      BY <1>5, <1>6, <1>8, <2>1, <2>3, <3>1 DEF BatchesInOrder
  <2>4. CASE q = p /\ AppendFails(p)
    BY <1>0, <2>1, <2>4 DEF AppendFails, IdlePublisher
  <2>5. QED
    BY <2>2, <2>3, <2>4
<1>11. LogInOrder'
  <2>1. SUFFICES ASSUME NEW i \in Entry', log'[i] \in Caller
                 PROVE  \E j \in Entry' : j < i /\ log'[j] = Target(log'[i])
    BY <1>8 DEF LogInOrder
  <2>2. CASE i \in Entry
    <3>1. PICK j \in Entry : j < i /\ log[j] = Target(log[i])
      BY <1>5, <1>7, <2>1, <2>2 DEF LogInOrder
    <3>2. QED
      BY <1>7, <2>2, <3>1
  <2>3. CASE i \notin Entry
    <3>1. i - Len(log) \in DOMAIN s /\ i = Len(log) + (i - Len(log)) /\ i \in Nat
      BY <1>7, <2>1, <2>3 DEF Entry
    <3>2. PICK n \in DOMAIN s : i = Len(log) + n
      BY <3>1
    <3>3. n \in Nat /\ log'[i] = s[n] /\ s[n] \in publisher[p].members /\ s[n] \in Caller
      BY <1>2, <1>7, <2>1, <3>2
    <3>4. CASE Target(s[n]) \in publisher[p].members
      <4>1. PICK k \in 1..n : s[k] = Target(s[n])
        BY <1>2, <3>4
      <4>2. s[n] # Target(s[n])
        BY <1>0, <3>3, CallerEvents
      <4>3. k \in DOMAIN s /\ k < n /\ k \in Nat
        BY <3>3, <4>1, <4>2
      <4>4. Len(log) + k \in Entry' /\ log'[Len(log) + k] = s[k] /\ Len(log) + k < i
        BY <1>7, <3>2, <3>3, <4>3
      <4>5. QED
        BY <3>3, <4>1, <4>4
    <3>5. CASE Target(s[n]) \notin publisher[p].members
      <4>1. Logged(Target(s[n]))
        BY <1>5, <3>3, <3>5 DEF BatchesInOrder
      <4>2. PICK j \in Entry : log[j] = Target(s[n])
        BY <4>1 DEF Logged
      <4>3. j \in Entry' /\ log'[j] = log[j] /\ j < i
        BY <1>7, <3>2, <3>3, <4>2 DEF Entry
      <4>4. QED
        BY <3>3, <4>2, <4>3
    <3>6. QED
      BY <3>4, <3>5
  <2>4. QED
    BY <2>2, <2>3
<1>12. StreamInOrder'
  <2>1. UNCHANGED <<cursor, pel, writer, row>>
    BY <1>1, <1>2 DEF AddToStream
  <2>2. /\ 1..cursor \subseteq Entry /\ pel \subseteq Entry
        /\ \A w \in Writer : writer[w].ackNow \subseteq Entry
    BY <1>0 DEF TypeOK, Entry, WriterState
  <2>3. \A i \in Entry : Through(i)' <=> Through(i)
    BY <1>1, <1>7 DEF Through
  <2>4. ASSUME NEW i \in Entry, InRow(log[i]) PROVE InRow(log[i])'
    BY <1>1, <1>7, <2>4 DEF InRow, Target, NewStatus
  <2>5. \A i \in 1..trimmed' : i =< cursor /\ i \notin pel
    <3>1. trimmed \in Nat /\ cursor \in Nat
      BY <1>0 DEF TypeOK
    <3>2. \A i \in (trimmed + 1)..trimmed' : ~(i > cursor \/ i \in pel)
      BY <1>2, <1>4 DEF AddToStream
    <3>3. \A i \in 1..trimmed : i =< cursor /\ i \notin pel
      BY <1>5 DEF StreamInOrder
    <3>4. QED
      BY <1>7, <3>1, <3>2, <3>3
  <2>6. \A i \in 1..cursor : i \notin pel => Through(i)'
    BY <1>5, <2>2, <2>3 DEF StreamInOrder
  <2>7. ASSUME NEW w \in Writer
        PROVE  /\ writer[w].pc = "poll" => pel = {}
               /\ writer[w].todo \subseteq 1..cursor
               /\ \A i \in writer[w].todo, j \in pel :
                     j < i => j \in writer[w].todo \/ j \in Batched(w) \/ Through(j)'
               /\ \A i \in writer[w].ackNow : InRow(log[i])'
    BY <1>5, <2>2, <2>3, <2>4 DEF StreamInOrder
  <2>8. \A w \in Writer : Batched(w)' = Batched(w)
    BY <2>1 DEF Batched
  <2>9. QED
    BY <2>1, <2>5, <2>6, <2>7, <2>8 DEF StreamInOrder
<1>13. QED
  BY <1>9, <1>10, <1>11, <1>12
-----------------------------------------------------------------------------
LEMMA LeastNumber ==
    ASSUME NEW S \in SUBSET Nat, S # {}
    PROVE  \E m \in S : \A n \in S : m =< n
<1> DEFINE Less == OpToRel(<, Nat)
<1>1. IsWellFoundedOn(Less, Nat)
  BY NatLessThanWellFounded
<1>2. \A x, y \in Nat : x < y => <<x, y>> \in Less
  BY DEF OpToRel
<1> HIDE DEF Less
<1>3. PICK m \in S : \A y \in S : ~(<<y, m>> \in Less)
  BY <1>1, WFMin
<1>4. ASSUME NEW n \in S PROVE m =< n
  <2>1. n \in Nat /\ m \in Nat
    OBVIOUS
  <2>2. ~(n < m)
    BY <1>2, <1>3, <2>1
  <2>3. QED
    BY <2>1, <2>2
<1>5. QED
  BY <1>4

UpTo(S, i) == {j \in S : j =< i}

\* XREADGROUP from 0 comes back empty only when nothing is unacknowledged ...
LEMMA FirstOfNonempty ==
    ASSUME NEW S \in SUBSET Nat, S # {}, NEW n \in Nat \ {0}
    PROVE  FirstOf(S, n) # {}
<1>1. PICK m \in S : \A k \in S : m =< k
  BY LeastNumber
<1>2. UpTo(S, m) = {m}
  <2>1. m \in Nat /\ \A k \in S : k \in Nat
    OBVIOUS
  <2>2. \A k \in S : k =< m <=> k = m
    BY <1>1, <2>1
  <2>3. QED
    BY <2>2, ZenonT(20) DEF UpTo
<1>3. Cardinality(UpTo(S, m)) =< n
  BY <1>2, FS_Singleton
<1>4. QED
  BY <1>3 DEF FirstOf, UpTo

\* ... and leaves out no entry that is older than one it returns.
LEMMA FirstOfClosed ==
    ASSUME NEW c \in Nat, NEW S, S \subseteq 1..c, NEW n \in Nat,
           NEW i \in FirstOf(S, n), NEW j \in S, j < i
    PROVE  j \in FirstOf(S, n)
<1>1. i \in S /\ i \in Nat /\ j \in Nat /\ Cardinality(UpTo(S, i)) =< n
  BY DEF FirstOf, UpTo
<1>2. IsFiniteSet(UpTo(S, i))
  <2>1. UpTo(S, i) \in SUBSET (1..c)
    BY DEF UpTo
  <2>2. c \in Int /\ 1 \in Int
    OBVIOUS
  <2>3. IsFiniteSet(1..c)
    BY <2>2, FS_Interval, Zenon
  <2>4. QED
    BY <2>1, <2>3, FS_Subset
<1>3. UpTo(S, j) \in SUBSET UpTo(S, i)
  <2>1. \A k \in S : k \in Nat
    OBVIOUS
  <2>2. \A k \in S : k =< j => k =< i
    BY <1>1, <2>1
  <2>3. QED
    BY <2>2 DEF UpTo
<1>4. /\ Cardinality(UpTo(S, j)) =< Cardinality(UpTo(S, i))
      /\ Cardinality(UpTo(S, j)) \in Nat /\ Cardinality(UpTo(S, i)) \in Nat
  BY <1>2, <1>3, FS_Subset, FS_CardinalityType
<1>5. Cardinality(UpTo(S, j)) =< n
  BY <1>1, <1>4
<1>6. QED
  BY <1>5 DEF FirstOf, UpTo

\* What is in the database stays there.
LEMMA RowsStay ==
    ASSUME TypeOK, TypeOK', NEW w \in Writer, WriterStep(w) \/ WriterFails(w)
    PROVE  /\ UNCHANGED <<request, call, hot, outboxVars, publisher, log, trimmed, overflow>>
           /\ \A i \in Entry : Through(i) => Through(i)'
           /\ \A e \in Event : InRow(e) => InRow(e)'
<1>1. UNCHANGED <<request, call, hot, outboxVars, publisher, log, trimmed, overflow>>
  BY DEF WriterStep, WriterFails, Recover, Poll, BatchMessage, Flush, ApplyStatus,
         SkipInvalid, EndOfBatch, AckApplied, AckFlushed, apiVars, streamVars
<1>2. \A m \in Message : row[m] # Absent => row'[m] # Absent
  BY RowStays DEF Next
<1>3. \A i \in Entry : Through(i) => Through(i)'
  BY <1>1, <1>2 DEF Through
<1>4. ASSUME NEW e \in Event, InRow(e) PROVE InRow(e)'
  <2>1. /\ Target(e)' = Target(e) /\ NewStatus(e)' = NewStatus(e)
        /\ Target(e) \in Message /\ NewStatus(e) \in Nat
    <3>1. CASE e \in Message
      BY <3>1 DEF Target, NewStatus, Sent
    <3>2. CASE e \in Caller
      BY <1>1, <3>2, CallerEvents DEF Target, NewStatus
    <3>3. QED
      BY <3>1, <3>2 DEF Event
  <2>2. row[Target(e)] =< row'[Target(e)]
    BY <2>1, RowStep DEF Next
  <2>3. row[Target(e)] \in Nat /\ row'[Target(e)] \in Nat
    <3>1. row \in [Message -> Status] /\ row' \in [Message -> Status]
      BY DEF TypeOK, Status
    <3>2. QED
      BY <2>1, <3>1 DEF Status, Absent, Sent, Recalled, Deleted
  <2>4. row[Target(e)] >= NewStatus(e)
    BY <1>4 DEF InRow
  <2>5. row'[Target(e)] >= NewStatus(e)
    BY <2>1, <2>2, <2>3, <2>4
  <2>6. QED
    BY <2>1, <2>5 DEF InRow
<1>5. QED
  BY <1>1, <1>3, <1>4

\* What the one writer holds by the time it applies a status change: everything older
\* that it may still have to insert.
LEMMA TargetIsThrough ==
    ASSUME TypeOK, LogInOrder, StreamInOrder, NEW w \in Writer, NEW i \in Entry,
           ApplyStatus(w, i)
    PROVE  row[Target(log[i])] # Absent
<1>0. /\ writer[w] \in WriterState /\ cursor \in Nat /\ Len(log) \in Nat /\ cursor =< Len(log)
      /\ writer[w].todo \subseteq 1..cursor
  BY DEF TypeOK, StreamInOrder
<1>1. /\ i \in writer[w].todo /\ log[i] \in Caller /\ writer[w].batch = <<>>
      /\ \A j \in writer[w].todo : i =< j
  BY DEF ApplyStatus, IsNext
<1>2. PICK j \in Entry : j < i /\ log[j] = Target(log[i])
  BY <1>1 DEF LogInOrder
<1>3. i \in Nat /\ j \in Nat /\ i =< cursor /\ j \in 1..cursor
  BY <1>0, <1>1, <1>2 DEF Entry
<1>4. log[j] \in Message
  BY <1>1, <1>2, CallerEvents
<1>5. j \notin writer[w].todo
  BY <1>1, <1>2, <1>3
<1>6. Batched(w) = {}
  BY <1>1 DEF Batched
<1>7. Through(j)
  BY <1>1, <1>2, <1>3, <1>5, <1>6 DEF StreamInOrder
<1>8. QED
  BY <1>2, <1>4, <1>7 DEF Through

\* What is acknowledged is through, and so the pending list misses nothing.
LEMMA PassedByWriter ==
    ASSUME DeliveryInv, StreamInOrder, NEW w \in Writer, WriterStep(w) \/ WriterFails(w)
    PROVE  /\ \A i \in 1..cursor' : i \notin pel' => Through(i)'
           /\ \A i \in 1..trimmed : i =< cursor' /\ i \notin pel'
           /\ pel' \subseteq pel \/ Poll(w)
           /\ cursor \in Nat /\ cursor' \in Nat /\ cursor =< cursor'
           /\ Poll(w) => \E last \in Nat :
                /\ pel' = pel \cup (cursor + 1)..last
                /\ writer' = [writer EXCEPT ![w].todo = (cursor + 1)..last,
                                            ![w].pc = "process"]
<1>0. /\ TypeOK /\ TypeOK' /\ WriterHolds(w)
      /\ cursor \in Nat /\ trimmed \in Nat /\ Len(log) \in Nat /\ cursor =< Len(log)
      /\ pel \subseteq 1..cursor /\ 1..cursor \subseteq Entry
  BY TypeWriter DEF DeliveryInv, TypeOK, Entry
<1>1. /\ \A i \in Entry : Through(i) => Through(i)'
      /\ UNCHANGED <<log, trimmed>>
  BY <1>0, RowsStay
<1>2. /\ \A i \in 1..cursor : i \notin pel => Through(i)
      /\ \A i \in 1..trimmed : i =< cursor /\ i \notin pel
  BY DEF StreamInOrder
<1>3. trimmed =< cursor
  <2>1. CASE trimmed = 0
    BY <1>0, <2>1
  <2>2. CASE trimmed # 0
    <3>1. trimmed \in 1..trimmed
      BY <1>0, <2>2
    <3>2. QED
      BY <1>2, <3>1
  <2>3. QED
    BY <2>1, <2>2
<1>4. CASE Poll(w)
  <2>1. PICK first, last \in Nat :
            /\ first = Greatest(cursor, trimmed) + 1
            /\ cursor' = Greatest(cursor, last)
            /\ pel' = pel \cup first..last
            /\ writer' = [writer EXCEPT ![w].todo = first..last,
                                       ![w].pc = "process"]
    BY <1>0, <1>4, PollRange
  <2>2. first = cursor + 1
    BY <1>0, <1>3, <2>1 DEF Greatest
  <2>3. cursor' \in Nat /\ cursor =< cursor'
    BY <1>0, <2>1 DEF Greatest
  <2>4. ASSUME NEW i \in 1..cursor', i \notin pel' PROVE i \in 1..cursor /\ i \notin pel
    BY <1>0, <2>1, <2>2, <2>4 DEF Greatest
  <2>5. ASSUME NEW i \in 1..trimmed PROVE i =< cursor' /\ i \notin pel'
    BY <1>0, <1>2, <1>3, <2>1, <2>2, <2>3
  <2>6. ASSUME NEW i \in 1..cursor', i \notin pel' PROVE Through(i)'
    BY <1>0, <1>1, <1>2, <2>4, <2>6
  <2>7. QED
    BY <1>0, <1>4, <2>1, <2>2, <2>3, <2>5, <2>6
<1>5. CASE ~Poll(w)
  <2>1. cursor' = cursor /\ pel' \subseteq pel
    BY <1>5 DEF WriterStep, WriterFails, Recover, BatchMessage, Flush, ApplyStatus,
       SkipInvalid, EndOfBatch, AckApplied, AckFlushed, streamVars
  <2>2. ASSUME NEW i \in 1..cursor, i \in pel, i \notin pel' PROVE Through(i)'
    <3>1. i \in Entry /\ i \in Nat /\ ~(i =< trimmed)
      BY <1>0, <1>2, <2>2
    <3>2. i \in Unacked
      BY <1>0, <2>2, <3>1 DEF Unacked
    <3>3. i \notin Unacked'
      BY <1>0, <2>1, <2>2 DEF Unacked
    <3>4. i \in writer[w].ackNow \/ i \in writer[w].flushed
      BY <1>0, <3>2, <3>3, AckedEntries
    <3>5. Through(i)
      BY <1>0, <3>4, EventSets DEF WriterHolds, Through
    <3>6. QED
      BY <1>1, <3>1, <3>5
  <2>3. \A i \in 1..cursor : i \notin pel' => Through(i)'
    BY <1>0, <1>1, <1>2, <2>2
  <2>4. QED
    BY <1>0, <1>2, <1>5, <2>1, <2>3
<1>6. QED
  BY <1>4, <1>5

\* The entries a single writer has at hand.
LEMMA AtHand ==
    ASSUME DeliveryInv, LogInOrder, StreamInOrder,
           NEW w \in Writer, WriterStep(w) \/ WriterFails(w)
    PROVE  /\ writer'[w].pc = "poll" => pel' = {}
           /\ writer'[w].todo \subseteq 1..cursor'
           /\ \A i \in writer'[w].todo, j \in pel' :
                 j < i => j \in writer'[w].todo \/ j \in Batched(w)' \/ Through(j)'
           /\ \A i \in writer'[w].ackNow : InRow(log[i])'
<1>0. /\ TypeOK /\ TypeOK' /\ writer[w] \in WriterState /\ WriterHolds(w)
      /\ writer \in [Writer -> WriterState]
      /\ pel \subseteq 1..cursor /\ 1..cursor \subseteq Entry
      /\ cursor \in Nat
      /\ \A i \in Entry : log[i] \in Event
  BY TypeWriter DEF DeliveryInv, TypeOK, Entry
<1>1. /\ \A i \in Entry : Through(i) => Through(i)'
      /\ \A e \in Event : InRow(e) => InRow(e)'
      /\ UNCHANGED <<request, log, trimmed>>
  BY <1>0, RowsStay
<1>2. /\ writer[w].pc = "poll" => pel = {}
      /\ writer[w].todo \subseteq 1..cursor
      /\ \A i \in writer[w].todo, j \in pel :
            j < i => j \in writer[w].todo \/ j \in Batched(w) \/ Through(j)
      /\ \A i \in writer[w].ackNow : InRow(log[i])
      /\ \A i \in 1..trimmed : i =< cursor /\ i \notin pel
  BY DEF StreamInOrder
<1>3. /\ writer[w].ackNow \subseteq Entry
      /\ \A i \in writer[w].ackNow : InRow(log[i])'
  <2>1. writer[w].ackNow \subseteq Entry
    BY <1>0 DEF WriterState
  <2>2. ASSUME NEW i \in writer[w].ackNow PROVE InRow(log[i])'
    <3>1. log[i] \in Event /\ InRow(log[i])
      BY <1>0, <1>2, <2>1
    <3>2. QED
      BY <1>1, <3>1 DEF InRow, Target, NewStatus
  <2>3. QED
    BY <2>1, <2>2
<1>4. CASE Recover(w)
  <2> DEFINE redelivered == FirstOf(pel, WriterBatch)
             ready == {i \in redelivered : i > trimmed}
  <2>1. redelivered \subseteq pel
    BY DEF FirstOf
  <2>2. ready = redelivered
    <3>1. \A i \in pel : i \in Nat /\ i >= 1 /\ i \notin 1..trimmed
      BY <1>0, <1>2
    <3>2. \A i \in pel : i > trimmed
      BY <1>0, <3>1 DEF TypeOK
    <3>3. QED
      BY <2>1, <3>2
  <2>3. /\ pel' = pel /\ cursor' = cursor
        /\ writer' = [writer EXCEPT ![w].todo = redelivered,
                         ![w].pc = IF redelivered # {} THEN "process" ELSE "poll"]
    BY <1>4, <2>2 DEF Recover
  <2> HIDE DEF redelivered, ready
  <2>4. /\ writer'[w].todo = redelivered /\ writer'[w].ackNow = writer[w].ackNow
        /\ writer'[w].pc = "poll" => redelivered = {}
    BY <1>0, <2>3 DEF WriterState
  <2>5. redelivered = {} => pel = {}
    <3>1. pel \in SUBSET Nat /\ WriterBatch \in Nat \ {0}
      BY <1>0, ConstantsAssumption DEF ConstantsAssumption
    <3>2. QED
      BY <3>1, FirstOfNonempty DEF redelivered
  <2>6. \A i \in redelivered, j \in pel : j < i => j \in redelivered
    <3>1. WriterBatch \in Nat
      BY ConstantsAssumption DEF ConstantsAssumption
    <3>2. QED
      BY <1>0, <3>1, FirstOfClosed DEF redelivered
  <2>7. QED
    BY <1>0, <1>3, <2>1, <2>3, <2>4, <2>5, <2>6
<1>5. CASE Poll(w)
  <2>1. pel = {}
    BY <1>2, <1>5 DEF Poll
  <2>2. PICK last \in Nat :
            /\ pel' = pel \cup (cursor + 1)..last
            /\ writer' = [writer EXCEPT ![w].todo = (cursor + 1)..last,
                                        ![w].pc = "process"]
    BY <1>5, PassedByWriter
  <2>3. /\ writer'[w].todo = (cursor + 1)..last /\ writer'[w].pc = "process"
        /\ writer'[w].ackNow = writer[w].ackNow
    BY <1>0, <2>2 DEF WriterState
  <2>4. pel' \subseteq 1..cursor'
    BY <1>0 DEF TypeOK
  <2>5. QED
    BY <1>3, <2>1, <2>2, <2>3, <2>4
<1>6. ASSUME NEW i \in Entry, BatchMessage(w, i) \/ ApplyStatus(w, i) \/ SkipInvalid(w, i)
      PROVE  /\ writer'[w].pc = "process" /\ UNCHANGED <<cursor, pel>>
             /\ writer'[w].todo = writer[w].todo \ {i}
             /\ i \in Batched(w)' \/ Through(i)
             /\ Batched(w) \subseteq Batched(w)'
             /\ writer'[w].ackNow \subseteq writer[w].ackNow \cup {i}
             /\ i \in writer'[w].ackNow => InRow(log[i])'
  <2>1. writer[w].pc = "process" /\ UNCHANGED <<cursor, pel>>
    BY <1>6 DEF BatchMessage, ApplyStatus, SkipInvalid, IsNext, streamVars
  <2>2. CASE BatchMessage(w, i)
    <3>1. /\ writer'[w].pc = writer[w].pc /\ writer'[w].todo = writer[w].todo \ {i}
          /\ writer'[w].batch = Append(writer[w].batch, i)
          /\ writer'[w].ackNow = writer[w].ackNow
      BY <1>0, <2>2 DEF BatchMessage, WriterState
    <3>2. writer[w].batch \in Seq(Entry)
      BY <1>0 DEF WriterState
    <3>3. /\ \A k \in DOMAIN writer[w].batch : k \in DOMAIN writer'[w].batch
                                    /\ writer'[w].batch[k] = writer[w].batch[k]
          /\ \E k \in DOMAIN writer'[w].batch : writer'[w].batch[k] = i
      BY <3>1, <3>2
    <3>4. Batched(w) \subseteq Batched(w)' /\ i \in Batched(w)'
      BY <3>3 DEF Batched
    <3>5. QED
      BY <1>3, <2>1, <3>1, <3>4
  <2>3. CASE ApplyStatus(w, i)
    <3>1. /\ writer'[w].pc = writer[w].pc /\ writer'[w].todo = writer[w].todo \ {i}
          /\ writer'[w].batch = writer[w].batch
          /\ writer'[w].ackNow = writer[w].ackNow \cup {i}
          /\ log[i] \in Caller
      BY <1>0, <2>3 DEF ApplyStatus, WriterState
    <3>2. Batched(w)' = Batched(w)
      BY <3>1 DEF Batched
    <3>3. Through(i)
      BY <3>1, EventSets DEF Through
    <3>4. InRow(log[i])'
      <4>1. /\ Target(log[i]) \in Message /\ NewStatus(log[i]) \in Nat
            /\ Target(log[i])' = Target(log[i]) /\ NewStatus(log[i])' = NewStatus(log[i])
        BY <1>0, <1>1, <3>1, CallerEvents DEF Target, NewStatus
      <4>2. row[Target(log[i])] # Absent /\ row[Target(log[i])] \in Nat
        BY <1>0, <2>3, <4>1, TargetIsThrough, RowIsNat
      <4>3. row'[Target(log[i])] = Greatest(row[Target(log[i])], NewStatus(log[i]))
        BY <1>0, <2>3, <4>1, <4>2 DEF ApplyStatus, TypeOK
      <4>4. row'[Target(log[i])] >= NewStatus(log[i])
        BY <4>1, <4>2, <4>3 DEF Greatest
      <4>5. QED
        BY <4>1, <4>4 DEF InRow
    <3>5. QED
      BY <2>1, <3>1, <3>2, <3>3, <3>4
  <2>4. CASE SkipInvalid(w, i)
    <3>1. /\ writer'[w].pc = writer[w].pc /\ writer'[w].todo = writer[w].todo \ {i}
          /\ writer'[w].batch = writer[w].batch
          /\ writer'[w].ackNow = writer[w].ackNow
          /\ log[i] \in Caller
      BY <1>0, <2>4, ConstantsAssumption DEF SkipInvalid, WriterState, ConstantsAssumption
    <3>2. Batched(w)' = Batched(w) /\ Through(i)
      BY <3>1, EventSets DEF Batched, Through
    <3>3. QED
      BY <1>3, <2>1, <3>1, <3>2
  <2>5. QED
    BY <1>6, <2>2, <2>3, <2>4
<1>7. ASSUME NEW i \in Entry, BatchMessage(w, i) \/ ApplyStatus(w, i) \/ SkipInvalid(w, i)
      PROVE  /\ writer'[w].pc = "poll" => pel' = {}
             /\ writer'[w].todo \subseteq 1..cursor'
             /\ \A k \in writer'[w].todo, j \in pel' :
                   j < k => j \in writer'[w].todo \/ j \in Batched(w)' \/ Through(j)'
             /\ \A k \in writer'[w].ackNow : InRow(log[k])'
  BY <1>0, <1>1, <1>2, <1>3, <1>6, <1>7
<1>8. CASE Flush(w)
  <2>1. /\ writer'[w].pc = writer[w].pc /\ writer'[w].todo = writer[w].todo
        /\ writer'[w].ackNow = writer[w].ackNow
        /\ writer'[w].flushed = writer[w].flushed \cup Batched(w)
        /\ UNCHANGED <<cursor, pel>>
    BY <1>0, <1>8 DEF Flush, Batched, WriterState, streamVars
  <2>2. WriterHolds(w)'
    BY WriterHoldsStep
  <2>3. \A j \in Batched(w) : Through(j)'
    BY <1>1, <2>1, <2>2 DEF WriterHolds, Through
  <2>4. writer[w].pc # "poll"
    BY <1>8 DEF Flush, FlushIsDue, IsNext
  <2>5. QED
    BY <1>0, <1>1, <1>2, <1>3, <2>1, <2>3, <2>4
<1>9. CASE EndOfBatch(w) \/ AckApplied(w) \/ AckFlushed(w)
  <2>1. /\ writer'[w].pc # "poll" /\ writer'[w].todo = writer[w].todo
        /\ writer'[w].batch = writer[w].batch
        /\ writer'[w].ackNow \subseteq writer[w].ackNow
        /\ cursor' = cursor /\ pel' \subseteq pel
    BY <1>0, <1>9 DEF EndOfBatch, AckApplied, AckFlushed, WriterState, streamVars
  <2>2. Batched(w)' = Batched(w)
    BY <2>1 DEF Batched
  <2>3. QED
    BY <1>0, <1>1, <1>2, <1>3, <2>1, <2>2
<1>10. CASE WriterFails(w)
  BY <1>0, <1>10 DEF WriterFails, FreshWriter
<1>11. QED
  BY <1>4, <1>5, <1>7, <1>8, <1>9, <1>10 DEF WriterStep

LEMMA StatusWriter ==
    ASSUME StatusInv, \A u, v \in Writer : u = v,
           NEW w \in Writer, WriterStep(w) \/ WriterFails(w)
    PROVE  StatusInv'
<1>0. /\ TypeOK /\ TypeOK' /\ DeliveryInv /\ DeliveryInv' /\ WriterHolds(w)
      /\ \A i \in Entry : log[i] \in Event
  BY SMTT(30), TypeWriter, DeliveryWriter DEF StatusInv, DeliveryInv, TypeOK, Entry
<1>1. /\ \A i \in Entry : Through(i) => Through(i)'
      /\ \A e \in Event : InRow(e) => InRow(e)'
      /\ UNCHANGED <<request, call, hot, eventKey, pending, publisher, log, trimmed, overflow>>
  BY <1>0, RowsStay DEF outboxVars
<1>2. \A c \in Caller : call'[c] = "keyed" => c \in eventKey'
  BY <1>1 DEF StatusInv
<1>3. SUFFICES ASSUME ~overflow
               PROVE  (OutboxHolds /\ BatchesInOrder /\ LogInOrder /\ StreamInOrder)'
  BY <1>0, <1>1, <1>2 DEF StatusInv
<1>4. OutboxHolds /\ BatchesInOrder /\ LogInOrder /\ StreamInOrder
  BY <1>3 DEF StatusInv
<1>5. \A e : Logged(e)' <=> Logged(e)
  BY <1>1, LogIsKept
<1>6. ASSUME NEW e \in Event, Held(e) PROVE Held(e)'
  <2>1. CASE e \in Message
    BY <1>5, <1>6, <2>1 DEF Held
  <2>2. CASE e \notin Message /\ InRow(e)
    BY <1>1, <2>2 DEF Held
  <2>3. CASE e \notin Message /\ ~InRow(e)
    <3>1. PICK i \in Unacked : log[i] = e
      BY <1>6, <2>3 DEF Held, InStream
    <3>2. i \notin writer[w].flushed
      BY <1>0, <2>3, <3>1 DEF WriterHolds
    <3>3. i \notin writer[w].ackNow
      BY <1>4, <2>3, <3>1 DEF StreamInOrder
    <3>4. i \in Unacked'
      BY <1>0, <3>2, <3>3, AckedEntries
    <3>5. QED
      BY <1>1, <2>3, <3>1, <3>4 DEF Held, InStream
  <2>4. QED
    BY <2>1, <2>2, <2>3
<1>7. OutboxHolds'
  BY <1>1, <1>4, <1>6 DEF OutboxHolds, Accepted, InOutbox, Published
<1>8. BatchesInOrder'
  BY <1>1, <1>4, <1>5 DEF BatchesInOrder, Target
<1>9. LogInOrder'
  BY <1>1, <1>4 DEF LogInOrder, Entry, Target
<1>10. StreamInOrder'
  <2>1. \A v \in Writer : v = w
    OBVIOUS
  <2>2. /\ writer'[w].pc = "poll" => pel' = {}
        /\ writer'[w].todo \subseteq 1..cursor'
        /\ \A i \in writer'[w].todo, j \in pel' :
              j < i => j \in writer'[w].todo \/ j \in Batched(w)' \/ Through(j)'
        /\ \A i \in writer'[w].ackNow : InRow(log[i])'
    BY <1>0, <1>4, AtHand
  <2>3. /\ \A i \in 1..cursor' : i \notin pel' => Through(i)'
        /\ \A i \in 1..trimmed : i =< cursor' /\ i \notin pel'
    BY <1>0, <1>4, PassedByWriter
  <2>4. QED
    BY <1>1, <2>1, <2>2, <2>3 DEF StreamInOrder
<1>11. QED
  BY <1>7, <1>8, <1>9, <1>10

LEMMA StatusStep ==
    ASSUME StatusInv, OneClock, \A u, v \in Writer : u = v, [Next]_vars
    PROVE  StatusInv'
<1>1. CASE Next
  BY <1>1, StatusApi, StatusOutbox, StatusAppend, StatusWriter DEF Next, PublisherStep
<1>2. CASE UNCHANGED vars
  <2>1. /\ UNCHANGED <<request, call, hot, eventKey, pending, publisher, log, trimmed,
                       cursor, pel, writer, row, overflow, streamVars>>
        /\ TypeOK /\ DeliveryInv'
    BY <1>2, DeliveryStep
      DEF StatusInv, DeliveryInv, vars, apiVars, outboxVars, streamVars
  <2>2. \A e \in Event : Held(e)' <=> Held(e)
    BY <2>1, HeldOffStream
  <2>3. \A e : Logged(e)' <=> Logged(e)
    BY <2>1, LogIsKept
  <2>4. OutboxHolds => OutboxHolds'
    BY <2>1, <2>2 DEF OutboxHolds, Accepted, InOutbox, Published
  <2>5. BatchesInOrder => BatchesInOrder'
    BY <2>1, <2>3 DEF BatchesInOrder, Target
  <2>6. LogInOrder => LogInOrder'
    BY <2>1 DEF LogInOrder, Entry, Target
  <2>7. StreamInOrder => StreamInOrder'
    BY <2>1 DEF StreamInOrder, Through, Batched, InRow, Target, NewStatus
  <2>8. QED
    BY <2>1, <2>4, <2>5, <2>6, <2>7 DEF StatusInv
<1>3. QED
  BY <1>1, <1>2

\* A recall or a delete the API has accepted is never lost on its way to the row, as
\* long as one writer reads the stream and the clocks of the API servers agree: its
\* UPDATE runs, and is acknowledged, only after the row it is about has been inserted.
THEOREM StatusesNotLost ==
    ASSUME OneClock, \A u, v \in Writer : u = v
    PROVE  Spec => []NoStatusLost
<1>1. StatusInv /\ [Next]_vars => StatusInv'
  BY StatusStep
<1>2. StatusInv => NoStatusLost
  <2>1. SUFFICES ASSUME StatusInv, ~overflow, NEW c \in Caller, Accepted(c)
                 PROVE  InOutbox(c) \/ InStream(c) \/ InRow(c)
    BY DEF NoStatusLost
  <2>2. c \in Event /\ c \notin Message
    BY <2>1, CallerEvents DEF StatusInv, DeliveryInv
  <2>3. QED
    BY <2>1, <2>2 DEF StatusInv, OutboxHolds, Held
<1>3. QED
  BY <1>1, <1>2, StatusInit, PTL DEF Spec
=============================================================================
