----------------------------- MODULE AuthTokens -----------------------------
(***************************************************************************)
(* The tokens of one user: pairs of an access and a refresh token, of      *)
(* which Redis remembers the newest refresh token only, and the tickets    *)
(* that open a WebSocket.  A refresh swaps the remembered identifier in    *)
(* one script and then issues a new pair; a revocation of all tokens is    *)
(* three commands.  Time goes in half seconds: tokens carry whole seconds. *)
(***************************************************************************)
EXTENDS Integers, Sequences, FiniteSets

CONSTANTS
    Client,     \* requests that may overlap
    Ticket,     \* WebSocket tickets
    MaxPairs,   \* bound: pairs issued
    MaxTime,    \* bound: half seconds
    MaxInvalid  \* invalid_payload_threshold of the im-server

ASSUME TokensAssumption ==
    /\ {MaxPairs, MaxTime} \subseteq Nat
    /\ MaxInvalid \in Nat \ {0}

VARIABLES
    clock,
    issued,      \* for each pair built, the second its tokens carry
    returned,    \* pairs the client has been given
    remembered,  \* auth:refresh:jti: a pair, Reserved or Forgotten
    resource,    \* auth:user: "none", or who wrote it, "login" or "refresh"
    revokeAfter, \* auth:user:revoke_after, -1 if none
    listed,      \* auth:revoked:token: pairs whose access token has been revoked
    call,        \* the request of each client
    exchanged,   \* history: how often each pair has been exchanged
    ended,       \* history: pairs returned before a revocation that is through
    tickets,     \* each ticket: "unused", "stored" or "gone"
    socket       \* the connections each ticket has opened

tokenVars  == <<clock, issued, returned, remembered, resource, revokeAfter, listed,
                exchanged, ended>>
ticketVars == <<tickets, socket>>
authVars   == <<tokenVars, call, ticketVars>>

Pair == 1..Len(issued)
Forgotten == -1
Reserved == 0  \* the identifier refresh_token_pair sets; no token carries it

\* A request: its next step, the pair it presents or has built, and the pairs
\* returned when it began.
CallAt(pc, by, n, before) == [pc |-> pc, by |-> by, pair |-> n, before |-> before]
NoCall == CallAt("idle", "login", 0, {})

AuthInit ==
    /\ clock = 0
    /\ issued = <<>> /\ returned = {}
    /\ remembered = Forgotten
    /\ resource = "none"
    /\ revokeAfter = -1 /\ listed = {}
    /\ call = [c \in Client |-> NoCall]
    /\ exchanged = [n \in 1..MaxPairs |-> 0]
    /\ ended = {}
    /\ tickets = [t \in Ticket |-> "unused"]
    /\ socket = [t \in Ticket |-> [opened |-> 0, invalid |-> MaxInvalid]]
-----------------------------------------------------------------------------
At(c, pc) == call[c].pc = pc
Start(c, request) == At(c, "idle") /\ call' = [call EXCEPT ![c] = request]
Go(c, pc) == call' = [call EXCEPT ![c].pc = pc]
Return(c) == call' = [call EXCEPT ![c] = NoCall]

TimePasses ==
    /\ clock < MaxTime
    /\ clock' = clock + 1
    /\ UNCHANGED <<issued, returned, remembered, resource, revokeAfter, exchanged,
                   ended, listed, call, ticketVars>>

\* login, once the password has been checked.
Login(c) ==
    /\ Start(c, CallAt("upsert", "login", 0, {}))
    /\ UNCHANGED <<tokenVars, ticketVars>>

\* refresh with pair n, whose refresh token is genuine and not expired.
Refresh(c, n) ==
    /\ Start(c, CallAt("swap", "refresh", n, {}))
    /\ UNCHANGED <<tokenVars, ticketVars>>

\* refresh_token_pair, the script: compare and set, or TOKEN_INVALID.
SwapIdentifier(c) ==
    /\ At(c, "swap")
    /\ IF remembered = call[c].pair
       THEN /\ remembered' = Reserved
            /\ exchanged' = [exchanged EXCEPT ![call[c].pair] = @ + 1]
            /\ Go(c, "upsert")
       ELSE Return(c) /\ UNCHANGED <<remembered, exchanged>>
    /\ UNCHANGED <<clock, issued, returned, resource, revokeAfter, ended, listed,
                   ticketVars>>

\* issue_token_pair: upsert_user_resource, and the tokens are built.
BuildPair(c) ==
    /\ At(c, "upsert")
    /\ Len(issued) < MaxPairs
    /\ resource' = call[c].by
    /\ issued' = Append(issued, clock \div 2)
    /\ call' = [call EXCEPT ![c] = CallAt("store", @.by, Len(issued'), {})]
    /\ UNCHANGED <<clock, returned, remembered, revokeAfter, exchanged, ended, listed,
                   ticketVars>>

\* issue_token_pair, SET: whatever is remembered, by now, is replaced.
StorePair(c) ==
    /\ At(c, "store")
    /\ remembered' = call[c].pair
    /\ returned' = returned \cup {call[c].pair}
    /\ Return(c)
    /\ UNCHANGED <<clock, issued, resource, revokeAfter, exchanged, ended, listed,
                   ticketVars>>

\* Redis fails, and so does the request; or its answer is lost.
CallFails(c) ==
    /\ ~At(c, "idle")
    /\ Return(c)
    /\ UNCHANGED <<tokenVars, ticketVars>>

\* The keys expire: the identifier, and what is known of the user.
IdentifierExpires ==
    /\ remembered' = Forgotten
    /\ UNCHANGED <<clock, issued, returned, resource, revokeAfter, exchanged, ended,
                   listed, call, ticketVars>>

ResourceExpires ==
    /\ resource' = "none"
    /\ UNCHANGED <<clock, issued, returned, remembered, revokeAfter, exchanged, ended,
                   listed, call, ticketVars>>

\* internal_revoke_user_tokens, first the time.
RevokeUser(c) ==
    /\ Start(c, CallAt("forget", "login", 0, returned))
    /\ revokeAfter' = clock
    /\ UNCHANGED <<clock, issued, returned, remembered, resource, exchanged, ended,
                   listed, ticketVars>>

\* A fault: the identifier of the refresh token stays.
RememberIdentifier(c) ==
    /\ At(c, "forget")
    /\ ended' = ended \cup call[c].before
    /\ Go(c, "drop")
    /\ UNCHANGED <<clock, issued, returned, remembered, resource, revokeAfter,
                   exchanged, listed, ticketVars>>

\* Then the identifier, last what is known of the user.
ForgetIdentifier(c) ==
    /\ At(c, "forget")
    /\ remembered' = Forgotten
    /\ ended' = ended \cup call[c].before
    /\ Go(c, "drop")
    /\ UNCHANGED <<clock, issued, returned, resource, revokeAfter, exchanged, listed,
                   ticketVars>>

DropResource(c) ==
    /\ At(c, "drop")
    /\ resource' = "none"
    /\ Return(c)
    /\ UNCHANGED <<clock, issued, returned, remembered, revokeAfter, exchanged, ended,
                   listed, ticketVars>>

\* internal_revoke_token: one access token.
RevokeToken(n) ==
    /\ listed' = listed \cup {n}
    /\ UNCHANGED <<clock, issued, returned, remembered, resource, revokeAfter,
                   exchanged, ended, call, ticketVars>>

\* is_token_revoked: the access token is listed, or not newer than the revocation.
AccessRevoked(n) == n \in listed \/ 2 * issued[n] =< revokeAfter

\* validate_access_token_result, for a genuine token that has not expired.
Accepted(n) == ~AccessRevoked(n)
-----------------------------------------------------------------------------
\* issue_ws_ticket: a fresh ticket is stored for the user.
IssueTicket(t) ==
    /\ tickets[t] = "unused"
    /\ tickets' = [tickets EXCEPT ![t] = "stored"]
    /\ UNCHANGED <<tokenVars, call, socket>>

TicketExpires(t) ==
    /\ tickets[t] = "stored"
    /\ tickets' = [tickets EXCEPT ![t] = "gone"]
    /\ UNCHANGED <<tokenVars, call, socket>>

Opened(t) == [socket EXCEPT ![t] = [opened |-> @.opened + 1, invalid |-> 0]]

\* A fault: the ticket is read and left there.
ReadTicket(t, own) ==
    /\ tickets[t] = "stored"
    /\ UNCHANGED tickets
    /\ socket' = IF own /\ socket[t].opened < 2 THEN Opened(t) ELSE socket
    /\ UNCHANGED <<tokenVars, call>>

\* internal_consume_ws_ticket: the script reads and deletes; who comes with
\* somebody else's ticket is refused, and the ticket is gone for both.
ConsumeTicket(t, own) ==
    /\ tickets[t] = "stored"
    /\ tickets' = [tickets EXCEPT ![t] = "gone"]
    /\ socket' = IF own THEN Opened(t) ELSE socket
    /\ UNCHANGED <<tokenVars, call>>

\* The answer to the im-server is lost: no connection, and the ticket is gone.
ConsumeUnanswered(t) ==
    /\ tickets[t] = "stored"
    /\ tickets' = [tickets EXCEPT ![t] = "gone"]
    /\ UNCHANGED <<tokenVars, call, socket>>

Open(t) == socket[t].invalid < MaxInvalid

\* handle_client_text: a heartbeat, and handle_invalid_payload, anything else; as
\* many of these in a row as MaxInvalid close the connection.
Heartbeat(t) ==
    /\ Open(t)
    /\ socket' = [socket EXCEPT ![t].invalid = 0]
    /\ UNCHANGED <<tokenVars, call, tickets>>

InvalidPayload(t) ==
    /\ Open(t)
    /\ socket' = [socket EXCEPT ![t].invalid = @ + 1]
    /\ UNCHANGED <<tokenVars, call, tickets>>

AuthNext ==
    \/ TimePasses \/ IdentifierExpires \/ ResourceExpires
    \/ \E c \in Client :
          \/ \E n \in returned : Refresh(c, n)
          \/ Login(c) \/ SwapIdentifier(c) \/ BuildPair(c) \/ StorePair(c) \/ CallFails(c)
          \/ RevokeUser(c) \/ ForgetIdentifier(c) \/ DropResource(c)
    \/ \E n \in returned : RevokeToken(n)
    \/ \E t \in Ticket :
          \/ \E own \in BOOLEAN : ConsumeTicket(t, own)
          \/ IssueTicket(t) \/ TicketExpires(t) \/ ConsumeUnanswered(t)
          \/ Heartbeat(t) \/ InvalidPayload(t)

AuthSpec == AuthInit /\ [][AuthNext]_authVars
-----------------------------------------------------------------------------
\* What is remembered is a pair that has been built, or none.
AuthTypeOK ==
    /\ clock \in 0..MaxTime
    /\ issued \in Seq(0..MaxTime) /\ Len(issued) =< MaxPairs
    /\ listed \subseteq returned /\ returned \subseteq Pair /\ ended \subseteq returned
    /\ remembered \in Pair \cup {Forgotten, Reserved}
    /\ resource \in {"none", "login", "refresh"}
    /\ revokeAfter \in -1..clock
    /\ \A c \in Client : call[c].pc \in {"idle", "swap", "upsert", "store", "forget", "drop"}
    /\ tickets \in [Ticket -> {"unused", "stored", "gone"}]
    /\ \A t \in Ticket : socket[t].invalid \in 0..MaxInvalid

\* A credential that has been used or revoked is of no use any more, however
\* requests overlap or fail: a refresh token is exchanged once, and not remembered
\* after it; of the pairs returned before a revocation of all tokens, the access
\* token is refused although it carries whole seconds only, and no overlapping
\* login or refresh brings the refresh token back; a ticket opens one connection.
TokensStayUsed ==
    /\ \A n \in Pair : exchanged[n] =< 1 /\ (exchanged[n] > 0 => remembered # n)
    /\ \A n \in ended : ~Accepted(n) /\ remembered # n
    /\ \A t \in Ticket : socket[t].opened =< 1
=============================================================================
