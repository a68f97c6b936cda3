------------------------------ MODULE PrivateChat ------------------------------
(***************************************************************************)
(* One direction of a private conversation as its receiver sees it: the    *)
(* hot copy of the messages, which the send script writes, the rows the    *)
(* background writer makes of the queued events, the pages of the history, *)
(* merged from both, and the unread counter with the read receipt.         *)
(* Messages are numbered by their ids, which are given before the script   *)
(* runs; the index orders them by a time taken just before the script,     *)
(* here that of its run.                                                   *)
(***************************************************************************)
EXTENDS Integers, Sequences, FiniteSets

CONSTANTS
    Sender,     \* sends that may overlap
    Reader,     \* requests of the receiver that may overlap
    PageSize,   \* limit of a history query
    InOrder,    \* do the scripts run in the order of the ids?
    MaxIds,     \* bound: messages built
    MaxDeletes  \* bound: deletes, one at most for a message

ASSUME ChatAssumption ==
    /\ PageSize \in Nat \ {0} /\ {MaxIds, MaxDeletes} \subseteq Nat
    /\ InOrder \in BOOLEAN

VARIABLES
    subject,  \* what the receiver does in this behaviour, "history" or "marks", which
              \* touch nothing in common
    client,   \* for each message built, the first one with its clientMessageId
    writing,  \* the message each send has built and not yet written, or 0
    accepted, \* history: messages the script has stored
    index,    \* im:conv:{c}:msgs: messages, the last one scored highest
    hot,      \* im:msg:{id}: "none", "sent" or "deleted"
    row,      \* the status of the row, "none" if there is none
    queue,    \* events the writer has not applied: messages and their status
    doomed,   \* history: messages somebody has begun to delete
    deleting, \* of these, the ones whose event is not queued yet
    unread,   \* im:user:{u}:unread
    cursor,   \* last_read_message_id of the newest receipt
    broken,   \* history: has a mark failed after it stored the receipt, "yes" or "no"?
    read      \* the request of each reader

sendVars  == <<client, writing, accepted>>
storeVars == <<index, hot, row, queue, doomed, deleting>>
countVars == <<unread, cursor, broken>>
chatVars  == <<subject, sendVars, storeVars, countVars, read>>

Id == 1..Len(client)

\* A request: its next step, the ids below which and above which it wants
\* messages, the ids it has still to load, what it has found, and (history) what
\* had been accepted when it began and whether Redis has answered it so far.
ReaderAt(pc, found) == [pc |-> pc, before |-> 0, after |-> 0, todo |-> <<>>,
                        found |-> found, start |-> {}, redis |-> "up"]
NoRequest == ReaderAt("idle", {})

\* A step of a request.
Went(request, pc, todo, found, redis) ==
    [pc |-> pc, before |-> request.before, after |-> request.after, todo |-> todo,
     found |-> found, start |-> request.start, redis |-> redis]

ChatInit ==
    /\ subject \in {"history", "marks"}
    /\ client = <<>> /\ writing = [s \in Sender |-> 0] /\ accepted = {}
    /\ index = <<>>
    /\ hot = [k \in 1..MaxIds |-> "none"] /\ row = [k \in 1..MaxIds |-> "none"]
    /\ queue = <<>> /\ doomed = {} /\ deleting = {}
    /\ unread = 0 /\ cursor = 0 /\ broken = "no"
    /\ read = [r \in Reader |-> NoRequest]
-----------------------------------------------------------------------------
\* build_message gives the id.  A client repeats a send while the message is hot.
BuildMessage(s) ==
    /\ writing[s] = 0 /\ Len(client) < MaxIds
    /\ \E c \in {client[n] : n \in Id} \cup {Len(client) + 1} :
          /\ \A k \in accepted : client[k] = c => hot[k] # "none"
          /\ client' = Append(client, c)
    /\ writing' = [writing EXCEPT ![s] = Len(client')]
    /\ UNCHANGED <<subject, accepted, storeVars, countVars, read>>

\* The message the dedup key stands for, if it still exists.
Repeats(k) == \E j \in accepted : client[j] = client[k] /\ hot[j] # "none"

\* write_private_message_hot: one script.  A repeated message is answered with
\* the stored one.
WriteHot(s) ==
    /\ writing[s] # 0
    /\ LET k == writing[s] IN
       /\ InOrder => \A t \in Sender : writing[t] \in {0} \cup (k..MaxIds)
       /\ IF Repeats(k)
          THEN UNCHANGED <<accepted, index, hot, queue, unread>>
          ELSE /\ accepted' = accepted \cup {k}
               /\ index' = Append(index, k)
               /\ hot' = [hot EXCEPT ![k] = "sent"]
               /\ queue' = Append(queue, <<k, "sent">>)
               /\ unread' = unread + 1
    /\ writing' = [writing EXCEPT ![s] = 0]
    /\ UNCHANGED <<subject, client, row, doomed, deleting, cursor, broken, read>>

SendFails(s) ==
    /\ writing[s] # 0
    /\ writing' = [writing EXCEPT ![s] = 0]
    /\ UNCHANGED <<subject, client, accepted, storeVars, countVars, read>>

\* apply_message_status: the message is found hot or as a row and its hot copy
\* written with the new status ...
DeleteHot(k) ==
    /\ k \notin doomed /\ Cardinality(doomed) < MaxDeletes
    /\ hot[k] # "none" \/ row[k] # "none"
    /\ hot' = [hot EXCEPT ![k] = "deleted"]
    /\ doomed' = doomed \cup {k} /\ deleting' = deleting \cup {k}
    /\ UNCHANGED <<subject, sendVars, index, row, queue, countVars, read>>

\* ... then the event is queued, or the request fails before.
QueueDelete(k) ==
    /\ k \in deleting
    /\ deleting' = deleting \ {k}
    /\ queue' \in {queue, Append(queue, <<k, "deleted">>)}
    /\ UNCHANGED <<subject, sendVars, index, hot, row, doomed, countVars, read>>

\* The writer applies the oldest event; no status follows "deleted".
Persist ==
    /\ queue # <<>>
    /\ LET k == Head(queue)[1] IN
       row' = [row EXCEPT ![k] = IF @ = "deleted" THEN @ ELSE Head(queue)[2]]
    /\ queue' = Tail(queue)
    /\ UNCHANGED <<subject, sendVars, index, hot, doomed, deleting, countVars, read>>

\* Keys expire days after the last write, when the events have long been applied
\* and no request of then is left.
Settled == /\ queue = <<>> /\ deleting = {}
           /\ \A r \in Reader : read[r].pc = "idle"
           /\ \A s \in Sender : writing[s] = 0

ExpireMessage(k) ==
    /\ Settled /\ hot[k] # "none"
    /\ hot' = [hot EXCEPT ![k] = "none"]
    /\ UNCHANGED <<subject, sendVars, index, row, queue, doomed, deleting, countVars, read>>

ExpireConversation ==
    /\ Settled /\ index # <<>>
    /\ index' = <<>> /\ unread' = 0
    /\ UNCHANGED <<subject, sendVars, hot, row, queue, doomed, deleting, cursor, broken, read>>
-----------------------------------------------------------------------------
Reads(r, pc) == read[r].pc = pc
ReaderGoes(r, request) == read' = [read EXCEPT ![r] = request]

\* What Redis answers: an error is taken for a key that is missing.
Answered(value, missing) == {value, missing}

\* private_history: the query, and the index.
BeginHistory(r, before, after) ==
    /\ subject = "history" /\ Reads(r, "idle")
    /\ \E ids \in Answered(index, <<>>) :
          ReaderGoes(r, [pc |-> IF ids = <<>> THEN "rows" ELSE "hot",
                         before |-> before, after |-> after,
                         todo |-> ids, found |-> {}, start |-> {k \in accepted : k < before},
                         redis |-> IF ids = index THEN "up" ELSE "failed"])
    /\ UNCHANGED <<subject, sendVars, storeVars, countVars>>

Wanted(r, k) == read[r].after < k /\ k < read[r].before

\* load_history, the loop over the index from its end, which stops with a full page.
\* A message is its hot copy, else its row; neither is an error and skipped.
LoadNext(r) ==
    /\ Reads(r, "hot")
    /\ LET last == Len(read[r].todo)
           k    == read[r].todo[last]
           rest == SubSeq(read[r].todo, 1, last - 1)
       IN \E copy \in Answered(hot[k], "none") :
          LET live  == "sent" = IF copy = "none" THEN row[k] ELSE copy
              found == IF live /\ Wanted(r, k) THEN read[r].found \cup {k} ELSE read[r].found
              pc    == IF Cardinality(found) = PageSize THEN "sort"
                       ELSE IF last = 1 THEN "rows" ELSE "hot"
          IN ReaderGoes(r, Went(read[r], pc, rest, found,
                                IF copy = hot[k] THEN read[r].redis ELSE "failed"))
    /\ UNCHANGED <<subject, sendVars, storeVars, countVars>>

\* The last, and the first, n of a set of ids.
Above(S, k) == {j \in S : k < j}
Below(S, k) == {j \in S : j < k}
Highest(S, n) == {k \in S : Cardinality(Above(S, k)) < n}
Lowest(S, n)  == {k \in S : Cardinality(Below(S, k)) < n}

\* load_history_from_db: the rows wanted, oldest first in a query for what is new.
RowsWanted(r) == {k \in Id : row[k] = "sent" /\ Wanted(r, k)}
FirstRows(r, limit) ==
    IF read[r].after > 0 THEN Lowest(RowsWanted(r), limit) ELSE Highest(RowsWanted(r), limit)

\* A fault: only as many rows as the page lacks, where the hot ones come again.
ReadMissingRows(r) ==
    /\ Reads(r, "rows")
    /\ LET limit == PageSize - Cardinality(read[r].found) IN
       ReaderGoes(r, Went(read[r], "sort", <<>>, read[r].found \cup FirstRows(r, limit),
                          read[r].redis))
    /\ UNCHANGED <<subject, sendVars, storeVars, countVars>>

\* A page that is not full is filled with rows, as many as a page and the hot ones.
ReadRows(r) ==
    /\ Reads(r, "rows")
    /\ LET limit == PageSize + Cardinality(read[r].found) IN
       ReaderGoes(r, Went(read[r], "sort", <<>>, read[r].found \cup FirstRows(r, limit),
                          read[r].redis))
    /\ UNCHANGED <<subject, sendVars, storeVars, countVars>>

\* The page: the newest ids, none twice.
Page(r) == Highest(read[r].found, PageSize)

ShowHistory(r) ==
    /\ Reads(r, "sort")
    /\ ReaderGoes(r, NoRequest)
    /\ UNCHANGED <<subject, sendVars, storeVars, countVars>>

\* mark_private_read: latest_message_id of the index or, without one, of the rows ...
BeginMark(r) ==
    /\ subject = "marks" /\ Reads(r, "idle")
    /\ \E ids \in Answered(index, <<>>) :
          LET live   == {k \in Id : row[k] = "sent"}
              latest == IF ids # <<>> THEN {ids[Len(ids)]}
                        ELSE {k \in live : \A j \in live : j =< k}
          IN ReaderGoes(r, ReaderAt("receipt", latest))
    /\ UNCHANGED <<subject, sendVars, storeVars, countVars>>

\* ... the event and the receipt ...
StoreReceipt(r) ==
    /\ Reads(r, "receipt")
    /\ cursor' \in IF read[r].found = {} THEN {0} ELSE read[r].found
    /\ ReaderGoes(r, ReaderAt("reset", read[r].found))
    /\ UNCHANGED <<subject, sendVars, storeVars, unread, broken>>

\* A fault: the counter is left as it is if messages came in the meantime.
ResetUnchanged(r) ==
    /\ Reads(r, "reset")
    /\ unread' = IF index # <<>> /\ index[Len(index)] \in read[r].found THEN 0 ELSE unread
    /\ ReaderGoes(r, NoRequest)
    /\ UNCHANGED <<subject, sendVars, storeVars, cursor, broken>>

\* ... and the counter, which is set to 0 whatever came in the meantime.
ResetUnread(r) ==
    /\ Reads(r, "reset")
    /\ unread' = 0
    /\ ReaderGoes(r, NoRequest)
    /\ UNCHANGED <<subject, sendVars, storeVars, cursor, broken>>

\* A request fails; a mark may have stored its receipt.
ReaderFails(r) ==
    /\ ~Reads(r, "idle")
    /\ broken' = IF Reads(r, "reset") THEN "yes" ELSE broken
    /\ ReaderGoes(r, NoRequest)
    /\ UNCHANGED <<subject, sendVars, storeVars, unread, cursor>>

ChatNext ==
    \/ \E s \in Sender : BuildMessage(s) \/ WriteHot(s) \/ SendFails(s)
    \/ \E k \in Id : DeleteHot(k) \/ QueueDelete(k) \/ ExpireMessage(k)
    \/ Persist \/ ExpireConversation
    \/ \E r \in Reader :
          \/ \E before \in Id \cup {MaxIds + 1} : BeginHistory(r, before, 0)
          \/ \E after \in Id : BeginHistory(r, MaxIds + 1, after)
          \/ LoadNext(r) \/ ReadRows(r) \/ ShowHistory(r)
          \/ BeginMark(r) \/ StoreReceipt(r) \/ ResetUnread(r) \/ ReaderFails(r)

ChatSpec == ChatInit /\ [][ChatNext]_chatVars
-----------------------------------------------------------------------------
\* The index and the rows are of accepted messages, one for each clientMessageId,
\* and a page is no longer than it may be.
ChatTypeOK ==
    /\ client \in Seq(1..MaxIds) /\ Len(client) =< MaxIds
    /\ accepted \subseteq Id /\ \A n \in DOMAIN index : index[n] \in accepted
    /\ \A j, k \in accepted : client[j] = client[k] => j = k
    /\ \A k \in 1..MaxIds : /\ {hot[k], row[k]} \subseteq {"none", "sent", "deleted"}
                            /\ row[k] # "none" => k \in accepted
    /\ deleting \subseteq doomed /\ doomed \subseteq accepted
    /\ unread \in 0..MaxIds /\ cursor \in 0..MaxIds
    /\ \A r \in Reader : Cardinality(read[r].found) < 3 * PageSize

\* A page of the history, going back from a message, has no gaps: each message
\* accepted before the request that nobody deletes is on it, unless it is full of
\* newer ones, whatever is persisted, expires, is sent or deleted meanwhile; but
\* if Redis fails to answer, messages that have no row yet may be missing.
HistoryHasNoGaps ==
    \A r \in Reader : Reads(r, "sort") /\ read[r].after = 0 /\ read[r].redis = "up" =>
        \A k \in read[r].start \ doomed :
            Wanted(r, k) => \/ k \in Page(r)
                            \/ /\ Cardinality(Page(r)) = PageSize
                               /\ \A j \in Page(r) : k < j

\* The counter counts nothing the receipt covers: when no mark is in progress, and
\* none has failed between the two, it is at most the number of newer messages.
ReceiptCoversUnread ==
    (broken = "no" /\ \A r \in Reader : ~Reads(r, "reset"))
        => unread =< Cardinality(Above(accepted, cursor))
=============================================================================
