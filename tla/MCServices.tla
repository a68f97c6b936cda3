----------------------------- MODULE MCServices -----------------------------
(***************************************************************************)
(* The services around the messages: the caches the checks of a send go    *)
(* through, the receiver's side of a private conversation, the push        *)
(* dispatcher, tokens and tickets, accounts, automatic replies.  They      *)
(* share no state in the models, so that a behaviour follows one of them.  *)
(***************************************************************************)
EXTENDS AccessCaches, PrivateChat, PushDispatch, AuthTokens, UserAccounts,
        AutoReply, TLC

VARIABLE focus  \* the part this behaviour is about

vars == <<cacheVars, chatVars, pushVars, authVars, accountVars, replyVars, focus>>

\* A part that is not in focus is started in one way only.
Init ==
    /\ CachesInit /\ ChatInit /\ PushInit /\ AuthInit /\ AccountsInit /\ ReplyInit
    /\ focus \in {"caches", "chat", "push", "tokens", "accounts", "replies"}
    /\ focus # "caches" => kind = "friend" /\ related = "yes"
    /\ focus # "chat" => subject = "history"
    /\ focus # "replies" => matter = "rounds" /\ enabled = [u \in Persona |-> TRUE]

Next ==
    \/ /\ focus = "caches" /\ CachesNext
       /\ UNCHANGED <<chatVars, pushVars, authVars, accountVars, replyVars, focus>>
    \/ /\ focus = "chat" /\ ChatNext
       /\ UNCHANGED <<cacheVars, pushVars, authVars, accountVars, replyVars, focus>>
    \/ /\ focus = "push" /\ PushNext
       /\ UNCHANGED <<cacheVars, chatVars, authVars, accountVars, replyVars, focus>>
    \/ /\ focus = "tokens" /\ AuthNext
       /\ UNCHANGED <<cacheVars, chatVars, pushVars, accountVars, replyVars, focus>>
    \/ /\ focus = "accounts" /\ AccountsNext
       /\ UNCHANGED <<cacheVars, chatVars, pushVars, authVars, replyVars, focus>>
    \/ /\ focus = "replies" /\ ReplyNext
       /\ UNCHANGED <<cacheVars, chatVars, pushVars, authVars, accountVars, focus>>

Spec == Init /\ [][Next]_vars

\* What a part is symmetric in has the same names in all parts (Api, Sender, ImServer,
\* Client, Request, Job; Word and Persona), so that two permutations do for all.
Symmetry == Permutations(Api) \cup Permutations(Word)

TypeOK ==
    /\ CachesTypeOK /\ ChatTypeOK /\ PushTypeOK /\ AuthTypeOK /\ AccountsTypeOK
    /\ ReplyTypeOK
=============================================================================
