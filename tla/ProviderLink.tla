---------------------------- MODULE ProviderLink ----------------------------
(***************************************************************************)
(* One user's Swiggy link (app/providers/service.py) and the calls made    *)
(* with it (app/instamart/service.py, _call_authenticated): authorizations *)
(* are started and completed, calls read the token and later learn that    *)
(* Swiggy rejected it, and the user unlinks, all interleaved at the        *)
(* awaits.  Tokens are numbered as Swiggy issues them; the clock counts in *)
(* units of no particular length.                                          *)
(***************************************************************************)
EXTENDS Naturals, FiniteSets

CONSTANTS
    AuthStates,   \* the state parameters of the authorizations started
    Callbacks,    \* the callback requests
    Calls,        \* the Instamart tool calls
    StateTTL,     \* OAUTH_TRANSACTION_TTL_SECONDS
    TokenTTL,     \* expires_in
    LinkTime,     \* bound on the clock
    NoLink

ASSUME LinkAssumption ==
    /\ StateTTL \in Nat /\ TokenTTL \in Nat /\ LinkTime \in Nat
    /\ NoLink \notin AuthStates \cup Nat \cup [expires : Nat, consumed : BOOLEAN]

VARIABLES
    linkClock,
    txn,        \* oauth_transaction: expiry and whether consumed, or NoLink
    link,       \* provider_link: token, expiry and status, or NoLink
    issued,     \* how many tokens Swiggy has issued
    live,       \* the tokens Swiggy accepts
    callback,   \* per callback: step, state, token it received, time it began
    call,       \* per call: step and token
    recorded    \* the tokens whose rejection was recorded on the link

swiggyVars == <<issued, live>>
linkVars == <<linkClock, txn, link, issued, live, callback, call, recorded>>

LinkInit ==
    /\ linkClock = 0
    /\ txn = [s \in AuthStates |-> NoLink]
    /\ link = NoLink
    /\ issued = 0
    /\ live = {}
    /\ callback = [c \in Callbacks |-> [pc |-> "new", state |-> NoLink, token |-> 0, began |-> 0]]
    /\ call = [c \in Calls |-> [pc |-> "new", token |-> 0]]
    /\ recorded = {}

-----------------------------------------------------------------------------
\* Connecting.

(* create_authorization: the transaction is committed, then the URL given. *)
CreateAuthorization(s) ==
    /\ txn[s] = NoLink
    /\ txn' = [txn EXCEPT ![s] = [expires |-> linkClock + StateTTL, consumed |-> FALSE]]
    /\ UNCHANGED <<linkClock, link, swiggyVars, callback, call, recorded>>

(* Mutant: an expired transaction is as good as any. *)
ValidStateForever(s) == txn[s] # NoLink /\ ~txn[s].consumed

ValidState(s) == txn[s] # NoLink /\ ~txn[s].consumed /\ txn[s].expires >= linkClock

(* complete_authorization up to the exchange. *)
CheckState(c, s) ==
    /\ callback[c].pc = "new"
    /\ callback' = [callback EXCEPT ![c].state = s, ![c].began = linkClock,
                                    ![c].pc = IF ValidState(s) THEN "exchange"
                                              ELSE "rejected"]
    /\ UNCHANGED <<linkClock, txn, link, swiggyVars, call, recorded>>

(* Swiggy issues a token; its answer may be lost, or be a refusal.  (A code *)
(* is good for one exchange, but one state may be authorized twice.)       *)
Exchange(c) ==
    /\ callback[c].pc = "exchange"
    /\ \/ /\ issued' = issued + 1
          /\ live' = live \cup {issued + 1}
          /\ \/ callback' = [callback EXCEPT ![c].pc = "upsert",
                                             ![c].token = issued + 1]
             \/ callback' = [callback EXCEPT ![c].pc = "failed"]
       \/ /\ callback' = [callback EXCEPT ![c].pc = "failed"]
          /\ UNCHANGED swiggyVars
    /\ UNCHANGED <<linkClock, txn, link, call, recorded>>

(* The upserted row: its expiry counts from when the callback began. *)
LinkOf(c) ==
    [token |-> callback[c].token, expires |-> callback[c].began + TokenTTL,
     status |-> "active"]

(* The upsert and the consumed mark, in one transaction. *)
UpsertLink(c) ==
    /\ callback[c].pc = "upsert"
    /\ link' = LinkOf(c)
    /\ txn' = [txn EXCEPT ![callback[c].state].consumed = TRUE]
    /\ callback' = [callback EXCEPT ![c].pc = "linked"]
    /\ UNCHANGED <<linkClock, swiggyVars, call, recorded>>

-----------------------------------------------------------------------------
\* Using and losing the link.

(* Mutant: an expired status is not looked at. *)
UsableByClock == link # NoLink /\ link.expires > linkClock

(* get_decrypted_access_token *)
Usable == link # NoLink /\ link.status = "active" /\ link.expires > linkClock

ResolveToken(c) ==
    /\ call[c].pc = "new"
    /\ call' = [call EXCEPT ![c] = IF Usable
                                   THEN [pc |-> "sent", token |-> link.token]
                                   ELSE [pc |-> "reconnect", token |-> 0]]
    /\ UNCHANGED <<linkClock, txn, link, swiggyVars, callback, recorded>>

(* The answer: Swiggy rejects a token it does not accept (401, 419). *)
CallAnswered(c) ==
    /\ call[c].pc = "sent"
    /\ call' = [call EXCEPT ![c].pc = IF call[c].token \in live THEN "done"
                                      ELSE "rejected"]
    /\ UNCHANGED <<linkClock, txn, link, swiggyVars, callback, recorded>>

(* The user's row, whatever token it holds by now; none if there is none.  *)
ExpiredLink(token) ==
    IF link = NoLink THEN NoLink ELSE [link EXCEPT !.status = "expired"]

(* mark_link_expired *)
MarkLinkExpired(c) ==
    /\ call[c].pc = "rejected"
    /\ link' = ExpiredLink(call[c].token)
    /\ recorded' = recorded \cup {call[c].token}
    /\ call' = [call EXCEPT ![c].pc = "reconnect"]
    /\ UNCHANGED <<linkClock, txn, swiggyVars, callback>>

Unlink ==
    /\ link # NoLink
    /\ link' = NoLink
    /\ UNCHANGED <<linkClock, txn, swiggyVars, callback, call, recorded>>

-----------------------------------------------------------------------------
\* Swiggy and time.

Revoke(token) ==
    /\ token \in live
    /\ live' = live \ {token}
    /\ UNCHANGED <<linkClock, txn, link, issued, callback, call, recorded>>

LinkTick ==
    /\ linkClock < LinkTime
    /\ linkClock' = linkClock + 1
    /\ UNCHANGED <<txn, link, swiggyVars, callback, call, recorded>>

LinkNext ==
    \/ \E s \in AuthStates : CreateAuthorization(s)
    \/ \E c \in Callbacks : (\E s \in AuthStates : CheckState(c, s)) \/ Exchange(c) \/ UpsertLink(c)
    \/ \E c \in Calls : ResolveToken(c) \/ CallAnswered(c) \/ MarkLinkExpired(c)
    \/ Unlink
    \/ \E token \in live : Revoke(token)
    \/ LinkTick

LinkSpec == LinkInit /\ [][LinkNext]_linkVars

-----------------------------------------------------------------------------
\* Properties.

(* Type correctness. *)
LinkTypeOK ==
    /\ linkClock \in 0 .. LinkTime
    /\ txn \in [AuthStates -> {NoLink} \cup [expires : Nat, consumed : BOOLEAN]]
    /\ link \in {NoLink} \cup [token : 1 .. issued, expires : Nat,
                             status : {"active", "expired"}]
    /\ issued \in Nat
    /\ live \subseteq 1 .. issued
    /\ callback \in [Callbacks ->
         [pc : {"new", "exchange", "upsert", "linked", "failed", "rejected"},
          state : AuthStates \cup {NoLink}, token : 0 .. issued, began : 0 .. LinkTime]]
    /\ call \in [Calls -> [pc : {"new", "sent", "rejected", "reconnect", "done"},
                           token : 0 .. issued]]
    /\ recorded \subseteq 1 .. issued

(* Once the rejection of a token has been recorded, no later call is sent  *)
(* with it (R2.5: recovery is a fresh authorize, never a retry): no        *)
(* callback, however late, brings it back as usable.                       *)
RejectedTokensRetire == link # NoLink /\ Usable => link.token \notin recorded

(* A link is made or renewed only by a callback that began before the      *)
(* state it presents ran out, with the token that callback was issued, and *)
(* the same step uses the state up: an expiry recorded late does not bring *)
(* back an unlinked account, nor does one token end in another's row.      *)
OnlyCallbacksLink ==
    [][link' # link /\ link' # NoLink /\ (link = NoLink \/ link'.status = "active") =>
         \E c \in Callbacks :
            LET s == callback[c].state
            IN  /\ callback[c].pc = "upsert" /\ callback'[c].pc = "linked"
                /\ link'.token = callback[c].token
                /\ txn[s] # NoLink /\ callback[c].began <= txn[s].expires
                /\ txn'[s].consumed]_linkVars

=============================================================================
