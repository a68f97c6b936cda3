----------------------------- MODULE GroupUnread -----------------------------
(***************************************************************************)
(* What one member of a group has read, and the unread count the           *)
(* conversation list shows.  The group numbers its messages by INCR on its *)
(* hot shard (Home); the member's read position is kept there, in queued   *)
(* read events and in the table group_read_cursor.  The conversation list  *)
(* reads all groups from one shard (First) and refills missing keys from   *)
(* the database.  Requests run concurrently, Redis command by command.     *)
(***************************************************************************)
EXTENDS Integers, Sequences, FiniteSets

CONSTANTS
    Client,   \* requests of the member, or about the group, that may overlap
    Shard,    \* hot shards for groups
    Home,     \* the shard the group hashes to
    First,    \* the shard the conversation list reads
    Initial,  \* messages sent and persisted at the beginning
    MaxSent   \* bound: messages in a behaviour

ASSUME GroupAssumption ==
    /\ Home \in Shard
    /\ First \in Shard
    /\ Initial \in Nat
    /\ MaxSent \in Nat

\* A key that does not exist, where 0 is a value the key can have.
Missing == -1

Greatest(a, b) == IF a < b THEN b ELSE a

VARIABLES
    number,    \* conversation_seq of every message, oldest message first
    row,       \* messages that have a row
    deleted,   \* ... whose status is deleted
    seq,       \* im:conv:{g}:seq on each shard, 0 if missing
    last,      \* message in the last-message key of each shard, 0 if missing
    readSeq,   \* im:readseq:{user}:{g} on each shard, or Missing
    reads,     \* read positions in events the writer has not acknowledged
    cursorRow, \* group_read_cursor.last_read_seq
    call,      \* the request each client has in progress
    answered   \* history: greatest position of an answered mark or join

messageVars == <<number, row, deleted>>
hotVars     == <<seq, last, readSeq>>
readVars    == <<reads, cursorRow, answered>>
vars == <<messageVars, hotVars, readVars, call>>

Message == 1..Len(number)
Kind    == {"mark", "join", "list", "recall"}

\* A request: its phase, the message it is about or has found last, the group
\* sequence and the read position it has got, and (history) how many messages
\* there were when it began.
Idle == [kind |-> "list", pc |-> "idle", msg |-> 0, seq |-> 0, read |-> 0,
         start |-> 0]

Init ==
    /\ number = [k \in 1..Initial |-> k]
    /\ row = 1..Initial
    /\ deleted = {}
    /\ seq = [s \in Shard |-> IF s = Home THEN Initial ELSE 0]
    /\ last = [s \in Shard |-> IF s = Home THEN Initial ELSE 0]
    /\ readSeq = [s \in Shard |-> IF s = Home THEN 0 ELSE Missing]
    /\ reads = {}
    /\ cursorRow = 0
    /\ call = [c \in Client |-> Idle]
    /\ answered = 0

\* The shard a request works on.
ShardOf(c) == IF call[c].kind = "list" THEN First ELSE Home

At(c, kinds, pc) == call[c].kind \in kinds /\ call[c].pc = pc

IsGreatest(n, S) == n \in S /\ \A m \in S : m =< n
-----------------------------------------------------------------------------
(* The group's messages *)

\* The Lua script numbers the message and makes it the last one.
Send ==
    /\ Len(number) < MaxSent
    /\ seq' = [seq EXCEPT ![Home] = @ + 1]
    /\ number' = Append(number, seq[Home] + 1)
    /\ last' = [last EXCEPT ![Home] = Len(number) + 1]
    /\ UNCHANGED <<row, deleted, readSeq, readVars, call>>

\* The writer inserts the row.
Persist(k) ==
    /\ k \notin row
    /\ row' = row \cup {k}
    /\ UNCHANGED <<number, deleted, hotVars, readVars, call>>

\* Fault: the status is applied, to no row, before the message is inserted.
DeleteBeforeRow(k) ==
    /\ k \notin deleted
    /\ deleted' = deleted \cup {k}
    /\ UNCHANGED <<number, row, hotVars, readVars, call>>

\* The writer applies a delete.
DeleteRow(k) ==
    /\ k \in row \ deleted
    /\ deleted' = deleted \cup {k}
    /\ UNCHANGED <<number, row, hotVars, readVars, call>>

\* Fault: the sequence key has the expiry of the last-message key.
ExpireBoth ==
    /\ last[Home] # 0
    /\ row = Message
    /\ last' = [last EXCEPT ![Home] = 0]
    /\ seq' = [seq EXCEPT ![Home] = 0]
    /\ UNCHANGED <<messageVars, readSeq, readVars, call>>

\* The last-message key lives seven days after the last message; by then the
\* messages have rows.
ExpireLast ==
    /\ last[Home] # 0
    /\ row = Message
    /\ last' = [last EXCEPT ![Home] = 0]
    /\ UNCHANGED <<messageVars, seq, readSeq, readVars, call>>

\* The messages the database finds: its queries skip deleted rows.
Live == row \ deleted
-----------------------------------------------------------------------------
(* Requests *)

\* The request is then r; goes on to the phase pc; ends.
Continue(c, r) == call' = [call EXCEPT ![c] = r]
Goto(c, pc)    == Continue(c, [call[c] EXCEPT !.pc = pc])
End(c)         == Continue(c, Idle)

FirstStep(kind) == IF kind \in {"list", "recall"} THEN "last" ELSE "seq"

Begin(c) ==
    /\ call[c].pc = "idle"
    /\ \E kind \in Kind :
        \E k \in IF kind = "recall" THEN Message ELSE {0} :
            Continue(c, [Idle EXCEPT !.kind = kind, !.pc = FirstStep(kind),
                                     !.msg = k, !.start = Len(number)])
    /\ UNCHANGED <<messageVars, hotVars, readVars>>

\* An error, a crash or a closed connection ends the request.
Abandon(c) ==
    /\ call[c].pc # "idle"
    /\ End(c)
    /\ UNCHANGED <<messageVars, hotVars, readVars>>

\* apply_message_status: GET of the last message ...
CompareLast(c) ==
    /\ At(c, {"recall"}, "last")
    /\ IF last[Home] = call[c].msg
       THEN Goto(c, "storelast")
       ELSE End(c)
    /\ UNCHANGED <<messageVars, hotVars, readVars>>

\* ... and SETEX of it with its new status, whatever is there by now.
StoreLast(c) ==
    /\ At(c, {"recall"}, "storelast")
    /\ last' = [last EXCEPT ![Home] = call[c].msg]
    /\ End(c)
    /\ UNCHANGED <<messageVars, seq, readSeq, readVars>>

\* The conversation list: MGET of the last messages.
GetLast(c) ==
    /\ At(c, {"list"}, "last")
    /\ IF last[First] # 0
       THEN Continue(c, [call[c] EXCEPT !.msg = last[First], !.pc = "seq"])
       ELSE Goto(c, "dblast")
    /\ UNCHANGED <<messageVars, hotVars, readVars>>

\* A group without one gets the newest row; without a row it is not listed.
DbLast(c) ==
    /\ At(c, {"list"}, "dblast")
    /\ \/ /\ Live = {}
          /\ Goto(c, "seq")
       \/ \E k \in Live :
            /\ IsGreatest(k, Live)
            /\ Continue(c, [call[c] EXCEPT !.msg = k, !.pc = "seq"])
    /\ UNCHANGED <<messageVars, hotVars, readVars>>

\* What follows once the request knows the group sequence.
AfterSeq == [mark |-> "queue", join |-> "upsert", list |-> "read", recall |-> "idle"]

\* current_group_sequence, batch_load_group_sequences: GET ...
GetSeq(c) ==
    /\ call[c].pc = "seq"
    /\ IF seq[ShardOf(c)] # 0
       THEN Continue(c, [call[c] EXCEPT !.seq = seq[ShardOf(c)],
                                        !.pc = AfterSeq[call[c].kind]])
       ELSE Goto(c, "dbseq")
    /\ UNCHANGED <<messageVars, hotVars, readVars>>

\* ... MAX(conversation_seq) of the rows, 0 if there are none ...
DbSeq(c) ==
    /\ call[c].pc = "dbseq"
    /\ \E n \in {number[k] : k \in Live} \cup {0} :
        /\ \A k \in Live : number[k] =< n
        /\ Continue(c, [call[c] EXCEPT !.seq = n,
                                !.pc = IF n > 0 THEN "setseq"
                                       ELSE AfterSeq[call[c].kind]])
    /\ UNCHANGED <<messageVars, hotVars, readVars>>

\* ... and SET of a sequence that is not 0, whatever is there by now.
SetSeq(c) ==
    /\ call[c].pc = "setseq"
    /\ seq' = [seq EXCEPT ![ShardOf(c)] = call[c].seq]
    /\ Goto(c, AfterSeq[call[c].kind])
    /\ UNCHANGED <<messageVars, last, readSeq, readVars>>

\* mark_group_read queues the read event before it stores the position.
QueueEvent(c) ==
    /\ At(c, {"mark"}, "queue")
    /\ reads' = reads \cup {call[c].seq}
    /\ Goto(c, "store")
    /\ UNCHANGED <<messageVars, hotVars, cursorRow, answered>>

\* Fault: the upsert takes the new value instead of the greater one.
UpsertOverwriting(c) ==
    /\ At(c, {"join"}, "upsert")
    /\ cursorRow' = call[c].seq
    /\ Goto(c, "store")
    /\ UNCHANGED <<messageVars, hotVars, reads, answered>>

\* initialize_group_read_sequences writes the row itself.
UpsertRow(c) ==
    /\ At(c, {"join"}, "upsert")
    /\ cursorRow' = Greatest(cursorRow, call[c].seq)
    /\ Goto(c, "store")
    /\ UNCHANGED <<messageVars, hotVars, reads, answered>>

\* SET of the read position; the request is answered.
StoreRead(c) ==
    /\ At(c, {"mark", "join"}, "store")
    /\ readSeq' = [readSeq EXCEPT ![Home] = call[c].seq]
    /\ answered' = Greatest(answered, call[c].seq)
    /\ End(c)
    /\ UNCHANGED <<messageVars, seq, last, reads, cursorRow>>

\* batch_load_group_read_sequences: MGET ...
GetRead(c) ==
    /\ At(c, {"list"}, "read")
    /\ IF readSeq[First] # Missing
       THEN Continue(c, [call[c] EXCEPT !.read = readSeq[First], !.pc = "show"])
       ELSE Goto(c, "dbread")
    /\ UNCHANGED <<messageVars, hotVars, readVars>>

\* ... the row ...
DbRead(c) ==
    /\ At(c, {"list"}, "dbread")
    /\ Continue(c, [call[c] EXCEPT !.read = cursorRow,
                        !.pc = IF cursorRow > 0 THEN "fillread" ELSE "show"])
    /\ UNCHANGED <<messageVars, hotVars, readVars>>

\* ... and SET of a position that is not 0, without an expiry.
FillRead(c) ==
    /\ At(c, {"list"}, "fillread")
    /\ readSeq' = [readSeq EXCEPT ![First] = call[c].read]
    /\ Goto(c, "show")
    /\ UNCHANGED <<messageVars, seq, last, readVars>>

\* Fault: the sequence of the last message alone.
UnreadOfLast(c) ==
    LET top == IF call[c].msg = 0 THEN 0 ELSE number[call[c].msg]
    IN Greatest(0, top - call[c].read)

\* group_unread_count of the greater of the sequence and the last message's.
Unread(c) ==
    LET top == IF call[c].msg = 0 THEN 0
               ELSE Greatest(call[c].seq, number[call[c].msg])
    IN Greatest(0, top - call[c].read)

\* The list is returned.
Show(c) ==
    /\ At(c, {"list"}, "show")
    /\ End(c)
    /\ UNCHANGED <<messageVars, hotVars, readVars>>

Step(c) ==
    \/ CompareLast(c) \/ StoreLast(c)
    \/ GetLast(c) \/ DbLast(c)
    \/ GetSeq(c) \/ DbSeq(c) \/ SetSeq(c)
    \/ QueueEvent(c) \/ UpsertRow(c) \/ StoreRead(c)
    \/ GetRead(c) \/ DbRead(c) \/ FillRead(c) \/ Show(c)
-----------------------------------------------------------------------------
(* The writer *)

\* Fault: of the positions in a batch any may win, the latest by time say.
FlushAnyRead(S) ==
    /\ \E n \in S : cursorRow' = Greatest(cursorRow, n)
    /\ reads' \in {reads, reads \ S}
    /\ UNCHANGED <<messageVars, hotVars, answered, call>>

\* flush_read_cursors: the greatest position of the batch goes into the row.
\* The events are acknowledged, or redelivered if the writer stops before.
FlushReads(S) ==
    /\ \E n \in S : /\ IsGreatest(n, S)
                    /\ cursorRow' = Greatest(cursorRow, n)
    /\ reads' \in {reads, reads \ S}
    /\ UNCHANGED <<messageVars, hotVars, answered, call>>
-----------------------------------------------------------------------------
Next ==
    \/ Send \/ ExpireLast
    \/ \E k \in Message : Persist(k) \/ DeleteRow(k)
    \/ \E c \in Client : Begin(c) \/ Step(c) \/ Abandon(c)
    \/ \E S \in SUBSET reads : FlushReads(S)

Spec == Init /\ [][Next]_vars
-----------------------------------------------------------------------------
(* Properties *)

Phase == {"idle", "last", "storelast", "dblast", "seq", "dbseq", "setseq",
          "queue", "upsert", "store", "read", "dbread", "fillread", "show"}
Call ==
    [kind : Kind, pc : Phase,
     msg : 0..Len(number), seq : Nat, read : Nat, start : 0..Len(number)]

\* Every variable has its type: messages are positions of number, sequences and
\* read positions natural numbers, and a request has the phases of its kind.
TypeOK ==
    /\ number \in Seq(Nat)
    /\ row \subseteq Message
    /\ deleted \subseteq row
    /\ seq \in [Shard -> Nat]
    /\ last \in [Shard -> 0..Len(number)]
    /\ readSeq \in [Shard -> Nat \cup {Missing}]
    /\ reads \subseteq Nat
    /\ cursorRow \in Nat
    /\ call \in [Client -> Call]
    /\ answered \in Nat

\* No two messages of the group get the same conversation_seq: the sequence key
\* is never set back by a request that refills it from the database.
SequencesAreUnique ==
    \A j, k \in Message : number[j] = number[k] => j = k

\* A hot read position, on whatever shard, is backed by a queued event or by the
\* row: losing the key never makes a position that was shown go back.
HotReadIsBacked ==
    \A s \in Shard : readSeq[s] # Missing =>
        \E n \in reads \cup {cursorRow} : readSeq[s] =< n

\* Read events redelivered, reordered or overtaken by a join never take the
\* cursor row back.
CursorNeverRegresses == [][cursorRow =< cursorRow']_cursorRow

\* The unread count hides no message: each message that was there when the list
\* was requested, is not deleted and lies above every position anybody asked to
\* mark is counted, whatever sends, reads and recalls overlap.
UnreadNeverHidden ==
    \A c \in Client : At(c, {"list"}, "show") =>
        Cardinality({k \in 1..call[c].start :
                        /\ k \notin deleted
                        /\ \A n \in reads \cup {cursorRow} : n < number[k]})
            =< Unread(c)

\* When every read event is in the database and no request is in progress, the
\* position the conversation list will use is no lower than any answered one:
\* what the member has marked as read stays read.
Quiet     == reads = {} /\ \A c \in Client : call[c].pc = "idle"
ShownRead == IF readSeq[First] = Missing THEN cursorRow ELSE readSeq[First]
ReadStaysRead == Quiet => answered =< ShownRead
=============================================================================
