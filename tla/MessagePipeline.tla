--------------------------- MODULE MessagePipeline ---------------------------
(***************************************************************************)
(* The path of a message and of its later status changes from the API      *)
(* handlers of api-server to the MySQL row:                                *)
(*                                                                         *)
(*   handler --> hot Redis outbox --> publisher --> Redis stream           *)
(*                                    (consumer group) --> writer --> row  *)
(*                                                                         *)
(* One hot shard and one event stream are modelled: a conversation hashes  *)
(* to one shard, and every event of a message goes to the same stream.     *)
(* Messages and status-change requests name the events they put into the   *)
(* outbox, so an event is an element of Event.                             *)
(***************************************************************************)
EXTENDS Naturals, Sequences, FiniteSets

CONSTANTS
    Message,        \* ids of the messages that may be sent
    Caller,         \* recall and delete requests the API may receive
    Publisher,      \* publisher threads that drain this hot shard
    Writer,         \* writer threads that share the consumer name of the stream
    PublisherBatch, \* config.publisher_batch_size
    WriterBatch,    \* config.writer_batch_size
    StreamMaxLen,   \* config.event_stream_max_len
    OneClock,       \* TRUE: a status change is scored later than the creation
    Unparsable,     \* events this writer build cannot deserialize
    MaxFailures     \* bound: publisher and writer failures in a behaviour

Event == Message \cup Caller

ASSUME ConstantsAssumption ==
    /\ Message \cap Caller = {}
    /\ IsFiniteSet(Event)
    /\ PublisherBatch \in Nat \ {0}
    /\ WriterBatch \in Nat \ {0}
    /\ StreamMaxLen \in Nat \ {0}
    /\ OneClock \in BOOLEAN
    /\ Unparsable \subseteq Caller
    /\ MaxFailures \in Nat

\* MessageStatus::db_code; Absent stands for a missing key or row.
Absent   == 0
Sent     == 1
Recalled == 4
Deleted  == 5
Status   == {Absent, Sent, Recalled, Deleted}

Greatest(a, b) == IF a < b THEN b ELSE a

VARIABLES
    request,   \* what each caller asks: a message and its new status
    call,      \* how far the handler of each caller has come
    hot,       \* status in im:msg:{id}
    eventKey,  \* events whose payload is stored under im:event:{id}
    pending,   \* members of the sorted set im:pending:events
    publisher, \* local state of each publisher thread
    log,       \* every entry ever added to the stream, oldest first
    trimmed,   \* the oldest entries XADD MAXLEN has discarded
    cursor,    \* last-delivered entry of the consumer group
    pel,       \* entries delivered to the consumer and not acknowledged
    writer,    \* local state of each writer thread
    row,       \* status in the messages table
    failures,  \* publisher and writer failures so far
    overflow   \* history: an unacknowledged entry has been trimmed

apiVars    == <<request, call, hot>>
outboxVars == <<eventKey, pending>>
streamVars == <<log, trimmed, cursor, pel, overflow>>
vars == <<apiVars, outboxVars, publisher, streamVars, writer, row, failures>>

Target(e)    == IF e \in Message THEN e ELSE request[e].msg
NewStatus(e) == IF e \in Message THEN Sent ELSE request[e].status

Entry   == 1..Len(log)
Unacked == {i \in Entry : i > trimmed /\ (i > cursor \/ i \in pel)}

IdlePublisher == [pc |-> "idle", members |-> {}, stale |-> {}]
FreshWriter   == [pc |-> "read", todo |-> {}, batch |-> <<>>,
                  ackNow |-> {}, flushed |-> {}]

Init ==
    /\ request \in [Caller -> [msg : Message, status : {Recalled, Deleted}]]
    /\ call = [c \in Caller |-> "idle"]
    /\ hot = [m \in Message |-> Absent]
    /\ eventKey = {}
    /\ pending = {}
    /\ publisher = [p \in Publisher |-> IdlePublisher]
    /\ log = <<>>
    /\ trimmed = 0
    /\ cursor = 0
    /\ pel = {}
    /\ writer = [w \in Writer |-> FreshWriter]
    /\ row = [m \in Message |-> Absent]
    /\ failures = 0
    /\ overflow = FALSE
-----------------------------------------------------------------------------
(* API handlers *)

\* The Lua script stores the message, its event and the outbox member at once.
Send(m) ==
    /\ hot[m] = Absent
    /\ hot' = [hot EXCEPT ![m] = Sent]
    /\ eventKey' = eventKey \cup {m}
    /\ pending' = pending \cup {m}
    /\ UNCHANGED <<request, call, publisher, streamVars, writer, row, failures>>

CallStep(c, from, to) == call[c] = from /\ call' = [call EXCEPT ![c] = to]

\* recall_or_delete finds the message in a hot shard and the sender may
\* change it; whatever its status is, the handler goes on.
LoadMessage(c) ==
    /\ CallStep(c, "idle", "loaded")
    /\ hot[Target(c)] # Absent
    /\ UNCHANGED <<request, hot, outboxVars, publisher, streamVars, writer,
                   row, failures>>

\* SETEX of the message with the new status, whatever is there by now.
StoreStatus(c) ==
    /\ CallStep(c, "loaded", "stored")
    /\ hot' = [hot EXCEPT ![Target(c)] = NewStatus(c)]
    /\ UNCHANGED <<request, outboxVars, publisher, streamVars, writer, row,
                   failures>>

\* write_state_event, first command: SETEX of the event payload.
StoreEvent(c) ==
    /\ CallStep(c, "stored", "keyed")
    /\ eventKey' = eventKey \cup {c}
    /\ UNCHANGED <<request, hot, pending, publisher, streamVars, writer, row,
                   failures>>

\* write_state_event, second command: ZADD; the handler answers.
Enqueue(c) ==
    /\ CallStep(c, "keyed", "done")
    /\ pending' = pending \cup {c}
    /\ UNCHANGED <<request, hot, eventKey, publisher, streamVars, writer, row,
                   failures>>

\* A Redis error, a crash or a dropped connection ends the handler half-way.
Abandon(c) ==
    /\ call[c] \in {"loaded", "stored", "keyed"}
    /\ call' = [call EXCEPT ![c] = "failed"]
    /\ UNCHANGED <<request, hot, outboxVars, publisher, streamVars, writer,
                   row, failures>>

Api == \/ \E m \in Message : Send(m)
       \/ \E c \in Caller : \/ LoadMessage(c) \/ StoreStatus(c)
                            \/ StoreEvent(c) \/ Enqueue(c) \/ Abandon(c)
-----------------------------------------------------------------------------
(* Publisher: one iteration of publish_due_events, command by command *)

\* ZRANGEBYSCORE ... LIMIT returns the members with the lowest scores.  A
\* message is created before its status changes, so on one clock its event
\* is returned no later than theirs; other members may come in any order.
LowestScores(S) ==
    OneClock => \A e \in S : Target(e) \in pending => Target(e) \in S

ReadDue(p) ==
    /\ publisher[p].pc = "idle"
    /\ \E S \in SUBSET pending :
        /\ S # {}
        /\ \/ Cardinality(S) = PublisherBatch
           \/ S = pending /\ Cardinality(S) < PublisherBatch
        /\ LowestScores(S)
        /\ publisher' = [publisher EXCEPT ![p] =
                            [pc |-> "fetch", members |-> S, stale |-> {}]]
    /\ UNCHANGED <<apiVars, outboxVars, streamVars, writer, row, failures>>

\* Pipelined GET of the payloads: a member without one is stale.
FetchPayloads(p) ==
    /\ publisher[p].pc = "fetch"
    /\ publisher' = [publisher EXCEPT
            ![p] = [pc |-> "drop",
                    members |-> publisher[p].members \cap eventKey,
                    stale |-> publisher[p].members \ eventKey]]
    /\ UNCHANGED <<apiVars, outboxVars, streamVars, writer, row, failures>>

\* remove_stale_events for the stale members: ZREM only, they have no key.
DropStale(p) ==
    /\ publisher[p].pc = "drop"
    /\ pending' = pending \ publisher[p].stale
    /\ publisher' = [publisher EXCEPT
            ![p] = IF publisher[p].members = {}
                   THEN IdlePublisher
                   ELSE [publisher[p] EXCEPT !.pc = "append", !.stale = {}]]
    /\ UNCHANGED <<apiVars, eventKey, streamVars, writer, row, failures>>

\* The orders in which a batch may leave the outbox, lowest score first.
Orders(S) ==
    {s \in [1..Cardinality(S) -> S] :
        /\ \A e \in S : \E j \in DOMAIN s : s[j] = e
        /\ OneClock => \A j \in DOMAIN s : Target(s[j]) \in S =>
                            \E k \in 1..j : s[k] = Target(s[j])}

\* XADD MAXLEN ~ of the given entries: the stream keeps at least the newest
\* StreamMaxLen entries, and when it discards older ones is Redis' choice.
AddToStream(entries) ==
    /\ log' = log \o entries
    /\ trimmed' \in trimmed..Len(log')
    /\ trimmed' > trimmed => trimmed' + StreamMaxLen =< Len(log')
    /\ overflow' = \/ overflow
                   \/ \E i \in (trimmed + 1)..trimmed' : i > cursor \/ i \in pel
    /\ UNCHANGED <<cursor, pel>>

AppendBatch(p) ==
    /\ publisher[p].pc = "append"
    /\ \E s \in Orders(publisher[p].members) : AddToStream(s)
    /\ publisher' = [publisher EXCEPT ![p].pc = "del"]
    /\ UNCHANGED <<apiVars, outboxVars, writer, row, failures>>

\* remove_stale_events for the published members: DEL of the payloads ...
DeletePayloads(p) ==
    /\ publisher[p].pc = "del"
    /\ eventKey' = eventKey \ publisher[p].members
    /\ publisher' = [publisher EXCEPT ![p].pc = "zrem"]
    /\ UNCHANGED <<apiVars, pending, streamVars, writer, row, failures>>

\* ... and ZREM of the members.
RemoveMembers(p) ==
    /\ publisher[p].pc = "zrem"
    /\ pending' = pending \ publisher[p].members
    /\ publisher' = [publisher EXCEPT ![p] = IdlePublisher]
    /\ UNCHANGED <<apiVars, eventKey, streamVars, writer, row, failures>>

\* An error or a crash: the thread reconnects and starts over.
PublisherFails(p) ==
    /\ publisher[p].pc # "idle"
    /\ failures < MaxFailures
    /\ failures' = failures + 1
    /\ publisher' = [publisher EXCEPT ![p] = IdlePublisher]
    /\ UNCHANGED <<apiVars, outboxVars, streamVars, writer, row>>

\* The XADD pipeline fails after some of its commands were executed.
AppendFails(p) ==
    /\ publisher[p].pc = "append"
    /\ failures < MaxFailures
    /\ failures' = failures + 1
    /\ \E s \in Orders(publisher[p].members) :
            \E n \in DOMAIN s : AddToStream(SubSeq(s, 1, n))
    /\ publisher' = [publisher EXCEPT ![p] = IdlePublisher]
    /\ UNCHANGED <<apiVars, outboxVars, writer, row>>

PublisherStep(p) ==
    \/ ReadDue(p) \/ FetchPayloads(p) \/ DropStale(p) \/ AppendBatch(p)
    \/ DeletePayloads(p) \/ RemoveMembers(p)
-----------------------------------------------------------------------------
(* Writer: one iteration of connect_and_consume, command by command *)

FirstOf(S, n) == {i \in S : Cardinality({j \in S : j =< i}) =< n}

\* Fault: after a restart the writer asks for new entries only.
SkipRecovery(w) ==
    /\ writer[w].pc = "read"
    /\ writer' = [writer EXCEPT ![w].pc = "poll"]
    /\ UNCHANGED <<apiVars, outboxVars, publisher, streamVars, row, failures>>

\* Fault: ack_stale is missing, trimmed entries stay in the pending list.
RecoverWithoutAck(w) ==
    /\ writer[w].pc = "read"
    /\ LET redelivered == FirstOf(pel, WriterBatch)
           ready == {i \in redelivered : i > trimmed}
       IN writer' = [writer EXCEPT ![w].todo = ready,
                        ![w].pc = IF ready # {} THEN "process"
                                  ELSE IF redelivered # {} THEN "read"
                                  ELSE "poll"]
    /\ UNCHANGED <<apiVars, outboxVars, publisher, streamVars, row, failures>>

\* XREADGROUP from 0 returns what this consumer has not acknowledged; the
\* entries trimmed in the meantime come back empty and are acknowledged.
Recover(w) ==
    /\ writer[w].pc = "read"
    /\ LET redelivered == FirstOf(pel, WriterBatch)
           ready == {i \in redelivered : i > trimmed}
           stale == redelivered \ ready
       IN /\ pel' = pel \ stale
          /\ writer' = [writer EXCEPT ![w].todo = ready,
                            ![w].pc = IF ready # {} THEN "process"
                                      ELSE IF stale # {} THEN "read"
                                      ELSE "poll"]
    /\ UNCHANGED <<apiVars, outboxVars, publisher, log, trimmed, cursor,
                   overflow, row, failures>>

\* Fault: XREADGROUP ... NOACK, no pending list to recover from.
PollNoAck(w) ==
    /\ writer[w].pc = "poll"
    /\ LET first == Greatest(cursor, trimmed) + 1
           last  == IF first + WriterBatch > Len(log) THEN Len(log)
                    ELSE first + WriterBatch - 1
       IN /\ cursor' = Greatest(cursor, last)
          /\ writer' = [writer EXCEPT ![w].todo = first..last,
                                      ![w].pc = "process"]
    /\ UNCHANGED <<apiVars, outboxVars, publisher, log, trimmed, pel, overflow,
                   row, failures>>

\* Fault: the batch is taken to be full.
PollPastTheEnd(w) ==
    /\ writer[w].pc = "poll"
    /\ LET first == Greatest(cursor, trimmed) + 1
           last  == first + WriterBatch - 1
       IN /\ cursor' = Greatest(cursor, last)
          /\ pel' = pel \cup first..last
          /\ writer' = [writer EXCEPT ![w].todo = first..last,
                                      ![w].pc = "process"]
    /\ UNCHANGED <<apiVars, outboxVars, publisher, log, trimmed, overflow,
                   row, failures>>

\* XREADGROUP from >: the oldest entries nobody has been given yet, or none
\* when the call times out.
Poll(w) ==
    /\ writer[w].pc = "poll"
    /\ LET first == Greatest(cursor, trimmed) + 1
           last  == IF first + WriterBatch > Len(log) THEN Len(log)
                    ELSE first + WriterBatch - 1
       IN /\ cursor' = Greatest(cursor, last)
          /\ pel' = pel \cup first..last
          /\ writer' = [writer EXCEPT ![w].todo = first..last,
                                      ![w].pc = "process"]
    /\ UNCHANGED <<apiVars, outboxVars, publisher, log, trimmed, overflow,
                   row, failures>>

IsNext(w, i) ==
    /\ writer[w].pc = "process"
    /\ i \in writer[w].todo
    /\ \A j \in writer[w].todo : i =< j

BatchIsFull(w) == Len(writer[w].batch) >= WriterBatch

\* process, MessageCreated: the message waits for the next flush.
BatchMessage(w, i) ==
    /\ IsNext(w, i)
    /\ log[i] \in Message
    /\ ~BatchIsFull(w)
    /\ writer' = [writer EXCEPT ![w].todo = @ \ {i},
                                ![w].batch = Append(@, i)]
    /\ UNCHANGED <<apiVars, outboxVars, publisher, streamVars, row, failures>>

\* When flush_messages runs: the batch is full, a status change is next in
\* line, or the loop has come to flush_if_due.
FlushIsDue(w) ==
    \/ writer[w].pc = "process" /\ BatchIsFull(w)
    \/ \E i \in writer[w].todo :
            IsNext(w, i) /\ log[i] \in Caller \ Unparsable
    \/ writer[w].pc = "flush"

\* Fault: ON DUPLICATE KEY UPDATE status = VALUES(status).
FlushOverwriting(w) ==
    /\ writer[w].batch # <<>>
    /\ FlushIsDue(w)
    /\ LET batched == {writer[w].batch[k] : k \in DOMAIN writer[w].batch}
       IN /\ row' = [m \in Message |->
                        IF \E i \in batched : log[i] = m THEN Sent ELSE row[m]]
          /\ writer' = [writer EXCEPT ![w].batch = <<>>,
                                      ![w].flushed = @ \cup batched]
    /\ UNCHANGED <<apiVars, outboxVars, publisher, streamVars, failures>>

\* flush_messages: one transaction inserts the batch, INSERT ... ON DUPLICATE
\* KEY UPDATE status = GREATEST(...); its entries may now be acknowledged.
Flush(w) ==
    /\ writer[w].batch # <<>>
    /\ FlushIsDue(w)
    /\ LET batched == {writer[w].batch[k] : k \in DOMAIN writer[w].batch}
       IN /\ row' = [m \in Message |->
                        IF \E i \in batched : log[i] = m
                        THEN Greatest(row[m], Sent) ELSE row[m]]
          /\ writer' = [writer EXCEPT ![w].batch = <<>>,
                                      ![w].flushed = @ \cup batched]
    /\ UNCHANGED <<apiVars, outboxVars, publisher, streamVars, failures>>

\* Fault: flush_pending is not called before apply_status.
ApplyBeforeFlush(w, i) ==
    /\ IsNext(w, i)
    /\ log[i] \in Caller \ Unparsable
    /\ row' = [row EXCEPT ![Target(log[i])] =
                    IF @ = Absent THEN Absent
                    ELSE Greatest(@, NewStatus(log[i]))]
    /\ writer' = [writer EXCEPT ![w].todo = @ \ {i},
                                ![w].ackNow = @ \cup {i}]
    /\ UNCHANGED <<apiVars, outboxVars, publisher, streamVars, failures>>

\* apply_status, once nothing is left to flush: an UPDATE of the row if there
\* is one.
ApplyStatus(w, i) ==
    /\ IsNext(w, i)
    /\ log[i] \in Caller \ Unparsable
    /\ writer[w].batch = <<>>
    /\ row' = [row EXCEPT ![Target(log[i])] =
                    IF @ = Absent THEN Absent
                    ELSE Greatest(@, NewStatus(log[i]))]
    /\ writer' = [writer EXCEPT ![w].todo = @ \ {i},
                                ![w].ackNow = @ \cup {i}]
    /\ UNCHANGED <<apiVars, outboxVars, publisher, streamVars, failures>>

\* "skip invalid event json": the entry is neither processed nor acknowledged.
SkipInvalid(w, i) ==
    /\ IsNext(w, i)
    /\ ~BatchIsFull(w)
    /\ log[i] \in Unparsable
    /\ writer' = [writer EXCEPT ![w].todo = @ \ {i}]
    /\ UNCHANGED <<apiVars, outboxVars, publisher, streamVars, row, failures>>

EndOfBatch(w) ==
    /\ writer[w].pc = "process"
    /\ writer[w].todo = {}
    /\ ~BatchIsFull(w)
    /\ writer' = [writer EXCEPT ![w].pc = "flush"]
    /\ UNCHANGED <<apiVars, outboxVars, publisher, streamVars, row, failures>>

\* Fault: batched messages are acknowledged with the status changes.
AckBatched(w) ==
    /\ writer[w].pc = "flush"
    /\ pel' = pel \ (writer[w].ackNow \cup
                        {writer[w].batch[k] : k \in DOMAIN writer[w].batch})
    /\ writer' = [writer EXCEPT ![w].ackNow = {}, ![w].pc = "ack"]
    /\ UNCHANGED <<apiVars, outboxVars, publisher, log, trimmed, cursor,
                   overflow, row, failures>>

\* XACK of the applied status changes; a batch that is not due stays.
AckApplied(w) ==
    /\ writer[w].pc = "flush"
    /\ pel' = pel \ writer[w].ackNow
    /\ writer' = [writer EXCEPT ![w].ackNow = {}, ![w].pc = "ack"]
    /\ UNCHANGED <<apiVars, outboxVars, publisher, log, trimmed, cursor,
                   overflow, row, failures>>

\* XACK of the flushed messages.
AckFlushed(w) ==
    /\ writer[w].pc = "ack"
    /\ pel' = pel \ writer[w].flushed
    /\ writer' = [writer EXCEPT ![w].flushed = {}, ![w].pc = "read"]
    /\ UNCHANGED <<apiVars, outboxVars, publisher, log, trimmed, cursor,
                   overflow, row, failures>>

\* An error or a crash loses the batches; the thread reconnects.
WriterFails(w) ==
    /\ writer[w] # FreshWriter
    /\ failures < MaxFailures
    /\ failures' = failures + 1
    /\ writer' = [writer EXCEPT ![w] = FreshWriter]
    /\ UNCHANGED <<apiVars, outboxVars, publisher, streamVars, row>>

WriterStep(w) ==
    \/ Recover(w) \/ Poll(w) \/ Flush(w) \/ EndOfBatch(w)
    \/ AckApplied(w) \/ AckFlushed(w)
    \/ \E i \in Entry : BatchMessage(w, i) \/ ApplyStatus(w, i) \/ SkipInvalid(w, i)
-----------------------------------------------------------------------------
Next ==
    \/ Api
    \/ \E p \in Publisher : PublisherStep(p) \/ PublisherFails(p) \/ AppendFails(p)
    \/ \E w \in Writer : WriterStep(w) \/ WriterFails(w)

Spec == Init /\ [][Next]_vars

\* The background threads loop for ever; the API owes nobody a request.
Fairness == /\ \A p \in Publisher : WF_vars(PublisherStep(p))
            /\ \A w \in Writer : WF_vars(WriterStep(w))

FairSpec == Spec /\ Fairness
-----------------------------------------------------------------------------
(* Properties *)

PublisherState ==
    [pc : {"idle", "fetch", "drop", "append", "del", "zrem"},
     members : SUBSET Event, stale : SUBSET Event]
WriterState ==
    [pc : {"read", "poll", "process", "flush", "ack"},
     todo : SUBSET Entry, batch : Seq(Entry),
     ackNow : SUBSET Entry, flushed : SUBSET Entry]

\* Every variable has its type: status codes, outbox members, stream positions
\* and the phases of the three kinds of threads.
TypeOK ==
    /\ request \in [Caller -> [msg : Message, status : {Recalled, Deleted}]]
    /\ call \in [Caller -> {"idle", "loaded", "stored", "keyed", "done", "failed"}]
    /\ hot \in [Message -> Status]
    /\ eventKey \subseteq Event
    /\ pending \subseteq Event
    /\ publisher \in [Publisher -> PublisherState]
    /\ log \in Seq(Event)
    /\ trimmed \in 0..Len(log)
    /\ cursor \in 0..Len(log)
    /\ pel \subseteq 1..cursor
    /\ writer \in [Writer -> WriterState]
    /\ row \in [Message -> Status]
    /\ failures \in 0..MaxFailures
    /\ overflow \in BOOLEAN

\* An event the API has answered for: the message is in the hot store, or the
\* handler of the status change has come to its end.
Accepted(e) == IF e \in Message THEN hot[e] # Absent ELSE call[e] = "done"

InOutbox(e) == e \in pending /\ e \in eventKey
InStream(e) == \E i \in Unacked : log[i] = e
InRow(e)    == row[Target(e)] >= NewStatus(e)

\* A message the API has accepted is never lost on its way to the database,
\* wherever publishers and writers fail: it waits in the outbox, or on the
\* stream unacknowledged, or its row exists.
NoMessageLost ==
    ~overflow => \A m \in Message :
        Accepted(m) => InOutbox(m) \/ InStream(m) \/ InRow(m)

\* Nor is a recall or a delete: in particular its UPDATE never runs, and is
\* never acknowledged, before the row it is about exists.
NoStatusLost ==
    ~overflow => \A c \in Caller :
        Accepted(c) => InOutbox(c) \/ InStream(c) \/ InRow(c)

\* A redelivered or duplicated event never takes a row back, so a recalled or
\* deleted message is not resurrected by the creation event read again.
RowNeverRegresses == [][\A m \in Message : row[m] =< row'[m]]_row

\* Every accepted message gets its row in the end.
MessagesReachTheRow ==
    \A m \in Message : Accepted(m) ~> InRow(m)

\* Every accepted recall and delete is applied in the end.
StatusesReachTheRow ==
    \A c \in Caller : Accepted(c) ~> InRow(c)

\* Outbox and stream are worked off in the end, the entries that were trimmed
\* under the writer and the members whose payload is gone included.
PipelineDrains == <>[](pending = {} /\ pel = {} /\ cursor = Len(log))

\* The statuses accepted for a message, and the greatest of them.
AcceptedStatuses(m) ==
    {NewStatus(e) : e \in {e \in Event : Target(e) = m /\ Accepted(e)}} \cup {Absent}
GreatestOf(S) == CHOOSE s \in S : \A t \in S : t =< s
PromisedStatus(m) == GreatestOf(AcceptedStatuses(m))

Durable == INSTANCE DurableStatus
           WITH promised <- [m \in Message |-> PromisedStatus(m)]

\* The pipeline implements DurableStatus: rows follow what the API accepted,
\* and no row shows a status nobody was promised.
ImplementsDurableStatus == Durable!Spec
=============================================================================
