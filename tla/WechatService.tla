---------------------------- MODULE WechatService -----------------------------
(***************************************************************************)
(* The access token of the WeChat API (services/wechat_service.go).        *)
(* SendMessage takes it from Redis, or from WeChat, which issues a new one *)
(* and drops the one before; a new token is stored until Margin before its *)
(* end.  Nothing keeps two calls from refreshing it at once.               *)
(***************************************************************************)
EXTENDS RedisKeys

CONSTANTS
    Senders,    \* who calls SendMessage, one call at a time
    Lifetimes,  \* the expires_in WeChat may answer
    Oldest,     \* the age up to which tokens differ
    Margin,     \* 300 seconds
    MaxDelay,   \* how long a reply of WeChat may take to be stored
    TokenKey    \* wechat_access_token

ASSUME MarginAssumption == Margin \in Nat
ASSUME LifetimesAssumption == Lifetimes \subseteq 1..Oldest /\ Oldest \in Nat
ASSUME TokenKeyAssumption == TokenKey \in Keys

VARIABLES
    call,     \* where the call of each sender is
    held,     \* the token it has
    cached,   \* the token under TokenKey
    trouble   \* what has happened: "race", "slow"

wechatVars == <<call, held, cached, trouble>>

\* A token, as WeChat knows it: how long it lasts, how long it was issued
\* ago, and whether a newer one was issued.
Tokens  == [lasts : Lifetimes, age : 0..Oldest, dropped : BOOLEAN]
NoToken == [lasts |-> 0, age |-> 0, dropped |-> TRUE]

Accepted(t) == ~t.dropped /\ t.age < t.lasts
Older(t)    == IF t.age < Oldest /\ t # NoToken THEN [t EXCEPT !.age = @ + 1] ELSE t
Drop(t)     == [lasts |-> t.lasts, age |-> t.age, dropped |-> TRUE]

WechatTypeOK ==
    /\ call \in [Senders -> {"idle", "fetch", "store", "send"}]
    /\ held \in [Senders -> Tokens \cup {NoToken}]
    /\ \A c \in Senders : call[c] = "store" => held[c] # NoToken
    /\ cached \in Tokens \cup {NoToken}
    /\ trouble \subseteq {"race", "slow"}
    /\ Present(TokenKey) <=> cached # NoToken

WechatInit ==
    /\ call = [c \in Senders |-> "idle"]
    /\ held = [c \in Senders |-> NoToken]
    /\ cached = NoToken
    /\ trouble = {}

CallGoto(c, label)  == call' = [call EXCEPT ![c] = label]
Happens(what, cond) == trouble' = IF cond THEN trouble \cup {what} ELSE trouble
Refreshing          == {c \in Senders : call[c] \in {"fetch", "store"}}

-----------------------------------------------------------------------------
(* GetAccessToken.                                                         *)

GetSliding(c) ==
    /\ call[c] = "idle" /\ Present(TokenKey)
    /\ held' = [held EXCEPT ![c] = cached]
    /\ SetKey(TokenKey, cached.lasts - Margin)
    /\ CallGoto(c, "send")
    /\ UNCHANGED <<cached, trouble>>
GetCached(c) ==
    /\ call[c] = "idle" /\ Present(TokenKey)
    /\ held' = [held EXCEPT ![c] = cached]
    /\ CallGoto(c, "send")
    /\ UNCHANGED <<ttl, cached, trouble>>

GetMisses(c) ==
    /\ call[c] = "idle" /\ ~Present(TokenKey)
    /\ CallGoto(c, "fetch")
    /\ Happens("race", Refreshing # {})
    /\ UNCHANGED <<ttl, held, cached>>

\* An error of Redis is taken for a miss.
GetFails(c) ==
    /\ call[c] = "idle"
    /\ CallGoto(c, "fetch")
    /\ trouble' = trouble \cup {"race"}
    /\ UNCHANGED <<ttl, held, cached>>

\* WeChat issues a token and drops the others; the reply may be lost.
Fetch(c) ==
    /\ call[c] = "fetch"
    /\ \E n \in Lifetimes :
          held' = [d \in Senders |-> IF d = c THEN [lasts |-> n, age |-> 0, dropped |-> FALSE]
                                     ELSE Drop(held[d])]
    /\ cached' = Drop(cached)
    /\ CallGoto(c, "store")
    /\ UNCHANGED <<ttl, trouble>>

FetchUnheard(c) ==
    /\ call[c] = "fetch"
    /\ held' = [d \in Senders |-> Drop(held[d])]
    /\ cached' = Drop(cached)
    /\ CallGoto(c, "idle")
    /\ UNCHANGED <<ttl, trouble>>

\* WeChat does not answer, or with an error or without a token.
FetchFails(c) ==
    /\ call[c] = "fetch"
    /\ CallGoto(c, "idle")
    /\ UNCHANGED <<ttl, held, cached, trouble>>

StoreUntilTheEnd(c) ==
    /\ call[c] = "store"
    /\ SetKey(TokenKey, held[c].lasts)
    /\ cached' = held[c]
    /\ Happens("slow", held[c].age > Margin \/ held[c].lasts <= Margin)
    /\ UNCHANGED held
StoreToken(c) ==
    /\ call[c] = "store"
    /\ SetKey(TokenKey, held[c].lasts - Margin)
    /\ cached' = held[c]
    /\ Happens("slow", held[c].age > Margin \/ held[c].lasts <= Margin)
    /\ UNCHANGED held

Store(c) == StoreToken(c) /\ CallGoto(c, "send")

\* The reply is lost: the client sends the command again.
StoreUnheard(c) == StoreToken(c) /\ UNCHANGED call

\* Redis does not answer: the token is used, although it is not stored.
StoreFails(c) ==
    /\ call[c] = "store"
    /\ CallGoto(c, "send")
    /\ UNCHANGED <<ttl, held, cached, trouble>>

\* SendMessage sends, or is refused; the token is forgotten.
Send(c) ==
    /\ call[c] = "send"
    /\ held' = [held EXCEPT ![c] = NoToken]
    /\ CallGoto(c, "idle")
    /\ UNCHANGED <<ttl, cached, trouble>>

WechatStep ==
    \E c \in Senders : \/ GetCached(c) \/ GetMisses(c) \/ GetFails(c)
                       \/ Fetch(c) \/ FetchUnheard(c) \/ FetchFails(c)
                       \/ Store(c) \/ StoreUnheard(c) \/ StoreFails(c) \/ Send(c)

\* Time passes, but a reply of WeChat is not delayed for ever.
WechatTick ==
    /\ \A c \in Senders : call[c] = "store" => held[c].age < MaxDelay
    /\ held' = [c \in Senders |-> Older(held[c])]
    /\ cached' = IF Less(ttl[TokenKey]) = 0 THEN NoToken ELSE Older(cached)
    /\ UNCHANGED <<call, trouble>>
WechatEvict(k) ==
    /\ cached' = IF k = TokenKey THEN NoToken ELSE cached
    /\ UNCHANGED <<call, held, trouble>>

-----------------------------------------------------------------------------
(* What is promised.                                                       *)

\* The stored token is one WeChat accepts, as long as refreshes do not
\* overlap and Redis answers each GET ("race"), and replies of WeChat take no
\* longer than Margin and tokens last longer ("slow").
CachedTokenIsAccepted ==
    trouble = {} /\ Present(TokenKey) => Accepted(cached)

\* Even when an older token replaces a newer one, senders are not refused for
\* ever: the wrong token leaves Redis no later than it would have ended.
StaleTokenLeaves ==
    "slow" \notin trouble /\ Present(TokenKey) =>
        ttl[TokenKey] \in 1..(cached.lasts - cached.age)
=============================================================================
