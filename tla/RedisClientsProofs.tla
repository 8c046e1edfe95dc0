-------------------------- MODULE RedisClientsProofs --------------------------
(***************************************************************************)
(* What holds of the licenses and the access token for every number of     *)
(* callers and all times to live.                                          *)
(*                                                                         *)
(* CodeLastsAsPromised is inductive, next to the types.  So is             *)
(* StaleTokenLeaves: a token is stored for what it lasts less Margin, and  *)
(* is not older than Margin then.  That it is accepted needs, on top, what *)
(* the absence of a race means: one call refreshes at a time, it began     *)
(* with an empty cache, and it holds the token issued last (Orderly).      *)
(***************************************************************************)
EXTENDS RedisClients, TLAPS

Orderly ==
    trouble = {} =>
        /\ \A c, d \in Refreshing : c = d
        /\ \A c \in Senders : /\ call[c] = "fetch" => ~Present(TokenKey)
                              /\ call[c] = "store" => ~held[c].dropped
        /\ Present(TokenKey) => ~cached.dropped

\* Every client waiting for the answer to its code has seen it live, once
\* EXISTS said so.
Looked ==
    \A r \in Clients :
        /\ request[r] \in {"sign", "granted"} => codeLived[r] \/ IsDebug(code[r])
        /\ request[r] = "verify" => code[r] \in Codes /\ (Present(code[r]) => codeLived[r])

\* What concerns the licenses, what concerns the access token, and the keys.
LicenseInv == LicenseTypeOK /\ CodeLastsAsPromised /\ Looked
WechatInv  == WechatTypeOK /\ StaleTokenLeaves /\ Orderly

\* The inductive invariant.
IInv == KeysTypeOK /\ LicenseInv /\ WechatInv

-----------------------------------------------------------------------------
(* Licenses.                                                               *)

\* What the licenses know is about their codes: it stands when they do.
LEMMA LicenseFrame ==
  ASSUME LicenseInv, UNCHANGED licenseVars, \A c \in Codes : ttl'[c] = ttl[c]
  PROVE  LicenseInv'
  BY DEF LicenseInv, LicenseTypeOK, CodeLastsAsPromised, Looked, licenseVars, Present, IsDebug

\* No call about licenses touches the access token, nor spoils the keys.
LEMMA LicenseKeys ==
  ASSUME KeysTypeOK, LicenseInv, LicenseStep
  PROVE  KeysTypeOK' /\ ttl'[TokenKey] = ttl[TokenKey]
  <1> USE KeysAssumption, LifeAssumption DEF KeysTypeOK, LicenseInv, LicenseTypeOK
  <1>1. ASSUME NEW a \in Admins, StoreCode(a)
        PROVE  KeysTypeOK' /\ ttl'[TokenKey] = ttl[TokenKey]
    <2>1. admin[a] \in Codes  BY <1>1 DEF StoreCode
    <2> QED  BY <1>1, <2>1 DEF StoreCode, SetKey
  <1>2. ASSUME UNCHANGED ttl PROVE KeysTypeOK' /\ ttl'[TokenKey] = ttl[TokenKey]
    BY <1>2
  <1> QED
    BY <1>1, <1>2
       DEF LicenseStep, AdminCalls, SetCode, SetCodeUnheard, SetCodeFails,
           RequestComes, Verify, Sign, Refused

\* The SET of a code, whoever hears of it, only adds to what clients may find.
LEMMA LicenseStored ==
  ASSUME KeysTypeOK, LicenseInv, NEW a \in Admins, StoreCode(a), UNCHANGED debugMode,
         \/ UNCHANGED promised
         \/ promised' = [promised EXCEPT ![admin[a]] = Life],
         admin' \in [Admins -> Codes \cup {NoCode}]
  PROVE  LicenseInv'
  <1> USE KeysAssumption, LifeAssumption, CodesAssumption DEF LicenseInv, KeysTypeOK
  <1>1. /\ admin[a] \in Codes
        /\ ttl' = [ttl EXCEPT ![admin[a]] = Life]
    <2>1. admin[a] \in Codes  BY DEF StoreCode, LicenseTypeOK
    <2>2. ttl' = [ttl EXCEPT ![admin[a]] = IF Life > 0 THEN Life ELSE Forever]
      BY DEF StoreCode, SetKey
    <2>3. (IF Life > 0 THEN Life ELSE Forever) = Life  OBVIOUS
    <2> QED  BY <2>1, <2>2, <2>3
  <1>2. LicenseTypeOK'
    BY <1>1 DEF LicenseTypeOK, StoreCode
  <1>3. CodeLastsAsPromised'
    BY <1>1 DEF LicenseTypeOK, CodeLastsAsPromised
  <1>4. Looked'
    BY <1>1 DEF LicenseTypeOK, Looked, StoreCode, Present, IsDebug
  <1> QED  BY <1>2, <1>3, <1>4

\* Calls about licenses keep what is known of them.
LEMMA LicenseSteps ==
  ASSUME KeysTypeOK, LicenseInv, LicenseStep
  PROVE  LicenseInv'
  <1> USE KeysAssumption, LifeAssumption, CodesAssumption
      DEF LicenseInv, LicenseTypeOK, CodeLastsAsPromised, Looked, Present, IsDebug
  <1>0. UNCHANGED debugMode  BY DEF LicenseStep
  <1>1. ASSUME NEW a \in Admins, AdminCalls(a) PROVE LicenseInv'
    BY <1>0, <1>1 DEF AdminCalls
  <1>2. ASSUME NEW a \in Admins, SetCode(a) PROVE LicenseInv'
    BY <1>0, <1>2, LicenseStored DEF SetCode
  <1>3. ASSUME NEW a \in Admins, SetCodeUnheard(a) PROVE LicenseInv'
    BY <1>0, <1>3, LicenseStored DEF SetCodeUnheard
  <1>4. ASSUME NEW a \in Admins, SetCodeFails(a) PROVE LicenseInv'
    BY <1>0, <1>4 DEF SetCodeFails
  <1>5. ASSUME NEW r \in Clients, RequestComes(r) PROVE LicenseInv'
    <2>1. PICK c \in Codes : /\ code' = [code EXCEPT ![r] = c]
                             /\ codeLived' = [codeLived EXCEPT ![r] = ttl[c] # 0]
      BY <1>5 DEF RequestComes
    <2>2. request' = [request EXCEPT ![r] = "verify"] /\ UNCHANGED <<ttl, admin, promised>>
      BY <1>5 DEF RequestComes, Goto
    <2> QED  BY <1>0, <2>1, <2>2
  <1>6. ASSUME NEW r \in Clients, Verify(r) PROVE LicenseInv'
    BY <1>0, <1>6 DEF Verify, Valid, Goto
  <1>7. ASSUME NEW r \in Clients, Sign(r) PROVE LicenseInv'
    BY <1>0, <1>7 DEF Sign, Goto
  <1>8. ASSUME NEW r \in Clients, Refused(r) PROVE LicenseInv'
    BY <1>0, <1>8 DEF Refused, Goto
  <1> QED
    BY <1>1, <1>2, <1>3, <1>4, <1>5, <1>6, <1>7, <1>8 DEF LicenseStep

-----------------------------------------------------------------------------
(* The access token.                                                       *)

\* What the fields of a token hold.
LEMMA TokenFields ==
  ASSUME NEW t \in Tokens
  PROVE  /\ t.lasts \in Lifetimes /\ t.lasts \in Nat \ {0} /\ t.lasts <= Oldest
         /\ t.age \in 0..Oldest /\ t.age \in Nat
         /\ t.dropped \in BOOLEAN
         /\ t # NoToken
  <1>1. t.lasts \in Lifetimes /\ t.age \in 0..Oldest /\ t.dropped \in BOOLEAN
    BY DEF Tokens
  <1>2. t.lasts \in 1..Oldest /\ Oldest \in Nat
    BY <1>1, LifetimesAssumption
  <1>3. NoToken.lasts = 0  BY DEF NoToken
  <1>4. t.lasts \in Nat \ {0} /\ t.lasts <= Oldest /\ t.age \in Nat
    BY <1>1, <1>2
  <1> QED  BY <1>1, <1>3, <1>4

\* Time and a new token keep a token one; only real tokens grow old.
LEMMA TokenFacts ==
  ASSUME NEW t \in Tokens \cup {NoToken}
  PROVE  /\ Drop(t) \in Tokens \cup {NoToken}
         /\ Older(t) \in Tokens \cup {NoToken}
         /\ Drop(t) = NoToken <=> t = NoToken
         /\ Older(t) = NoToken <=> t = NoToken
         /\ Drop(t).lasts = t.lasts /\ Drop(t).age = t.age
         /\ Older(t).lasts = t.lasts /\ Older(t).dropped = t.dropped
         /\ t \in Tokens /\ t.age < t.lasts => Older(t).age = t.age + 1
  <1>1. CASE t \in Tokens
    <2>1. t = [lasts |-> t.lasts, age |-> t.age, dropped |-> t.dropped]
      BY <1>1 DEF Tokens
    <2>2. Drop(t) = [lasts |-> t.lasts, age |-> t.age, dropped |-> TRUE]
      BY <2>1 DEF Drop
    <2>3. Drop(t) \in Tokens
      BY <2>2, <1>1, TokenFields DEF Tokens
    <2>4. Older(t) = [lasts |-> t.lasts, dropped |-> t.dropped,
                      age |-> IF t.age < Oldest THEN t.age + 1 ELSE t.age]
      BY <2>1, <1>1, TokenFields DEF Older
    <2>5. (IF t.age < Oldest THEN t.age + 1 ELSE t.age) \in 0..Oldest
      BY <1>1, TokenFields, LifetimesAssumption
    <2>6. Older(t) \in Tokens
      BY <2>4, <2>5, <1>1, TokenFields DEF Tokens
    <2>7. t.age < t.lasts => Older(t).age = t.age + 1
      BY <2>4, <1>1, TokenFields, LifetimesAssumption
    <2>8. t # NoToken /\ Drop(t) # NoToken /\ Older(t) # NoToken
      BY <1>1, <2>3, <2>6, TokenFields
    <2>9. Drop(t).lasts = t.lasts /\ Drop(t).age = t.age
      BY <2>2
    <2>10. Older(t).lasts = t.lasts /\ Older(t).dropped = t.dropped
      BY <2>4
    <2> QED  BY <2>3, <2>6, <2>7, <2>8, <2>9, <2>10
  <1>2. CASE t = NoToken
    <2>1. Older(t) = t  BY <1>2 DEF Older
    <2>2. Drop(t) = t  BY <1>2 DEF Drop, NoToken
    <2>3. t \notin Tokens  BY <1>2, TokenFields
    <2> QED  BY <1>2, <2>1, <2>2, <2>3
  <1> QED  BY <1>1, <1>2

\* What is known of the token is about its key: it stands when that does.
LEMMA WechatFrame ==
  ASSUME WechatInv, UNCHANGED wechatVars, ttl'[TokenKey] = ttl[TokenKey]
  PROVE  WechatInv'
  BY DEF WechatInv, WechatTypeOK, StaleTokenLeaves, Orderly, Refreshing, wechatVars, Present

\* The SET of the token: within the conditions it ends before the token does.
LEMMA TokenStored ==
  ASSUME KeysTypeOK, WechatInv, NEW c \in Senders, StoreToken(c)
  PROVE  /\ KeysTypeOK' /\ \A k \in Codes : ttl'[k] = ttl[k]
         /\ held[c] \in Tokens /\ Present(TokenKey)'
         /\ StaleTokenLeaves'
  <1> USE KeysAssumption, MarginAssumption, LifetimesAssumption DEF KeysTypeOK, WechatInv
  <1>1. /\ held[c] \in Tokens
        /\ ttl' = [ttl EXCEPT ![TokenKey] =
                     IF held[c].lasts - Margin > 0 THEN held[c].lasts - Margin ELSE Forever]
    BY DEF StoreToken, SetKey, WechatTypeOK
  <1>2. held[c].lasts \in Nat /\ held[c].age \in Nat
    BY <1>1, TokenFields
  <1>3. KeysTypeOK' /\ \A k \in Codes : ttl'[k] = ttl[k]
    BY <1>1, <1>2 DEF Forever
  <1>4. Present(TokenKey)'
    BY <1>1, <1>2 DEF Present, Forever
  <1>5. ASSUME "slow" \notin trouble'
        PROVE  held[c].age <= Margin /\ held[c].lasts > Margin
    BY <1>2, <1>5 DEF StoreToken, Happens
  <1>6. StaleTokenLeaves'
    BY <1>1, <1>2, <1>5 DEF StaleTokenLeaves, StoreToken
  <1> QED  BY <1>1, <1>3, <1>4, <1>6

\* No call about the token touches a code, nor spoils the keys.
LEMMA WechatKeys ==
  ASSUME KeysTypeOK, WechatInv, WechatStep
  PROVE  KeysTypeOK' /\ \A k \in Codes : ttl'[k] = ttl[k]
  <1>1. ASSUME UNCHANGED ttl PROVE KeysTypeOK' /\ \A k \in Codes : ttl'[k] = ttl[k]
    BY <1>1 DEF KeysTypeOK
  <1> QED
    BY <1>1, TokenStored
       DEF WechatStep, GetCached, GetMisses, GetFails, Fetch, FetchUnheard, FetchFails,
           Store, StoreUnheard, StoreFails, Send

\* The variables of the calls keep their types.
LEMMA WechatTypes ==
  ASSUME KeysTypeOK, WechatInv, WechatStep
  PROVE  WechatTypeOK'
  <1> USE DEF WechatInv, WechatTypeOK, CallGoto, Present
  <1>1. ASSUME NEW c \in Senders, GetCached(c) PROVE WechatTypeOK'
    BY <1>1 DEF GetCached
  <1>2. ASSUME NEW c \in Senders, GetMisses(c) PROVE WechatTypeOK'
    BY <1>2 DEF GetMisses, Happens
  <1>3. ASSUME NEW c \in Senders, GetFails(c) PROVE WechatTypeOK'
    BY <1>3 DEF GetFails
  <1>4. ASSUME NEW c \in Senders, Fetch(c) PROVE WechatTypeOK'
    <2>1. PICK n \in Lifetimes :
            held' = [d \in Senders |-> IF d = c THEN [lasts |-> n, age |-> 0, dropped |-> FALSE]
                                       ELSE Drop(held[d])]
      BY <1>4 DEF Fetch
    <2>2. /\ [lasts |-> n, age |-> 0, dropped |-> FALSE] \in Tokens
          /\ [lasts |-> n, age |-> 0, dropped |-> FALSE] # NoToken
      BY LifetimesAssumption DEF Tokens, NoToken
    <2>3. held' \in [Senders -> Tokens \cup {NoToken}]
      BY <2>1, <2>2, TokenFacts
    <2>4. \A d \in Senders : call'[d] = "store" => held'[d] # NoToken
      BY <1>4, <2>1, <2>2, TokenFacts DEF Fetch
    <2> QED  BY <1>4, <2>3, <2>4, TokenFacts DEF Fetch
  <1>5. ASSUME NEW c \in Senders, FetchUnheard(c) PROVE WechatTypeOK'
    BY <1>5, TokenFacts DEF FetchUnheard
  <1>6. ASSUME NEW c \in Senders, FetchFails(c) PROVE WechatTypeOK'
    BY <1>6 DEF FetchFails
  <1>7. ASSUME NEW c \in Senders, StoreToken(c),
               call' \in [Senders -> {"idle", "fetch", "store", "send"}],
               \A d \in Senders : call'[d] = "store" => call[d] = "store"
        PROVE  WechatTypeOK'
    <2>1. held[c] \in Tokens \ {NoToken} /\ Present(TokenKey)'
      BY <1>7, TokenStored DEF StoreToken
    <2> QED  BY <1>7, <2>1 DEF StoreToken, Happens
  <1>8. ASSUME NEW c \in Senders, Store(c) PROVE WechatTypeOK'
    BY <1>7, <1>8 DEF Store
  <1>9. ASSUME NEW c \in Senders, StoreUnheard(c) PROVE WechatTypeOK'
    BY <1>7, <1>9 DEF StoreUnheard
  <1>10. ASSUME NEW c \in Senders, StoreFails(c) PROVE WechatTypeOK'
    BY <1>10 DEF StoreFails
  <1>11. ASSUME NEW c \in Senders, Send(c) PROVE WechatTypeOK'
    BY <1>11 DEF Send
  <1> QED
    BY <1>1, <1>2, <1>3, <1>4, <1>5, <1>6, <1>8, <1>9, <1>10, <1>11 DEF WechatStep

\* Only a SET, and a token that WeChat drops, change what is stored.
LEMMA StaleStep ==
  ASSUME KeysTypeOK, WechatInv, WechatStep
  PROVE  StaleTokenLeaves'
  <1> USE DEF WechatInv, WechatTypeOK, StaleTokenLeaves, Present
  <1>1. ASSUME UNCHANGED ttl, cached' \in {cached, Drop(cached)},
               trouble \subseteq trouble'
        PROVE  StaleTokenLeaves'
    BY <1>1, TokenFacts
  <1> QED
    BY <1>1, TokenStored
       DEF WechatStep, GetCached, GetMisses, GetFails, Fetch, FetchUnheard, FetchFails,
           Store, StoreUnheard, StoreFails, Send, Happens

\* Without a race, the call that refreshes is alone with the newest token.
LEMMA OrderlyStep ==
  ASSUME KeysTypeOK, WechatInv, WechatStep
  PROVE  Orderly'
  <1> USE DEF WechatInv, WechatTypeOK, Orderly, Refreshing, CallGoto, Present
  <1>1. ASSUME NEW c \in Senders, GetCached(c) PROVE Orderly'
    BY <1>1 DEF GetCached
  <1>2. ASSUME NEW c \in Senders, GetMisses(c) PROVE Orderly'
    BY <1>2 DEF GetMisses, Happens
  <1>3. ASSUME NEW c \in Senders, GetFails(c) PROVE Orderly'
    BY <1>3 DEF GetFails
  <1>4. ASSUME NEW c \in Senders, Fetch(c) PROVE Orderly'
    <2>1. ~held'[c].dropped  BY <1>4 DEF Fetch
    <2> QED  BY <1>4, <2>1 DEF Fetch
  <1>5. ASSUME NEW c \in Senders, FetchUnheard(c) PROVE Orderly'
    BY <1>5 DEF FetchUnheard
  <1>6. ASSUME NEW c \in Senders, FetchFails(c) PROVE Orderly'
    BY <1>6 DEF FetchFails
  <1>7. ASSUME NEW c \in Senders, Store(c) PROVE Orderly'
    BY <1>7 DEF Store, StoreToken, Happens
  <1>8. ASSUME NEW c \in Senders, StoreUnheard(c) PROVE Orderly'
    BY <1>8 DEF StoreUnheard, StoreToken, Happens
  <1>9. ASSUME NEW c \in Senders, StoreFails(c) PROVE Orderly'
    BY <1>9 DEF StoreFails
  <1>10. ASSUME NEW c \in Senders, Send(c) PROVE Orderly'
    BY <1>10 DEF Send
  <1> QED
    BY <1>1, <1>2, <1>3, <1>4, <1>5, <1>6, <1>7, <1>8, <1>9, <1>10 DEF WechatStep

-----------------------------------------------------------------------------
(* Both, with time and short memory.                                       *)

\* A key that is there after a moment was there before it.
LEMMA EvictStep == ASSUME IInv, NEW e \in Keys, Evict(e) PROVE IInv'
  <1> USE KeysAssumption, CodesAssumption
      DEF IInv, KeysTypeOK, Evict, EvictKey, LicenseEvict, WechatEvict, Present
  <1>1. KeysTypeOK'  OBVIOUS
  <1>2. LicenseInv'
    BY LifeAssumption DEF LicenseInv, LicenseTypeOK, CodeLastsAsPromised, Looked, IsDebug
  <1>3. WechatInv'
    BY DEF WechatInv, WechatTypeOK, StaleTokenLeaves, Orderly, Refreshing
  <1> QED  BY <1>1, <1>2, <1>3

\* A promise, a key and a token grow old together.
LEMMA TickStep == ASSUME IInv, Tick PROVE IInv'
  <1> USE KeysAssumption, CodesAssumption
      DEF IInv, KeysTypeOK, Tick, KeysTick, LicenseTick, WechatTick, Less, Present
  <1>1. KeysTypeOK'  BY DEF Forever
  <1>2. LicenseInv'
    BY LifeAssumption DEF LicenseInv, LicenseTypeOK, CodeLastsAsPromised, Looked, IsDebug
  <1>3. WechatTypeOK'
    BY TokenFacts DEF WechatInv, WechatTypeOK, Forever
  <1>4. StaleTokenLeaves'
    <2>1. SUFFICES ASSUME "slow" \notin trouble, ttl'[TokenKey] # 0
                   PROVE  ttl'[TokenKey] \in 1..(cached'.lasts - cached'.age)
      BY DEF StaleTokenLeaves
    <2>2. /\ ttl[TokenKey] # 0 /\ ttl[TokenKey] \in 1..(cached.lasts - cached.age)
          /\ cached \in Tokens
      BY <2>1 DEF WechatInv, WechatTypeOK, StaleTokenLeaves, Forever
    <2>3. cached.lasts \in Nat /\ cached.age \in Nat
      BY <2>2, TokenFields
    <2>4. ttl'[TokenKey] = ttl[TokenKey] - 1 /\ cached' = Older(cached)
      BY <2>1, <2>2, <2>3
    <2>5. cached'.lasts = cached.lasts /\ cached'.age = cached.age + 1
      BY <2>2, <2>3, <2>4, TokenFacts
    <2> QED  BY <2>1, <2>2, <2>3, <2>4, <2>5
  <1>5. Orderly'
    BY TokenFacts DEF WechatInv, WechatTypeOK, Orderly, Refreshing, Forever
  <1> QED  BY <1>2, <1>1, <1>3, <1>4, <1>5 DEF WechatInv

\* Nothing is stored or asked at first.
LEMMA IInvInit == Init => IInv
  <1> SUFFICES ASSUME Init PROVE IInv  OBVIOUS
  <1> USE KeysAssumption, CodesAssumption, TokenKeyAssumption DEF Init, KeysInit, IInv
  <1>1. KeysTypeOK  BY DEF KeysTypeOK
  <1>2. LicenseInv
    BY LifeAssumption
       DEF LicenseInit, LicenseInv, LicenseTypeOK, CodeLastsAsPromised, Looked
  <1>3. WechatInv
    BY DEF WechatInit, WechatInv, WechatTypeOK, StaleTokenLeaves, Orderly, Refreshing, Present
  <1> QED  BY <1>1, <1>2, <1>3

\* Every step keeps the invariant.
LEMMA IInvStep == IInv /\ [Next]_vars => IInv'
  <1> SUFFICES ASSUME IInv, [Next]_vars PROVE IInv'  OBVIOUS
  <1>1. CASE LicenseStep /\ UNCHANGED wechatVars
    BY <1>1, LicenseKeys, LicenseSteps, WechatFrame DEF IInv
  <1>2. CASE WechatStep /\ UNCHANGED licenseVars
    <2>1. KeysTypeOK' /\ \A k \in Codes : ttl'[k] = ttl[k]
      BY <1>2, WechatKeys DEF IInv
    <2>2. WechatInv'
      BY <1>2, WechatTypes, StaleStep, OrderlyStep DEF IInv, WechatInv
    <2> QED  BY <1>2, <2>1, <2>2, LicenseFrame DEF IInv
  <1>3. ASSUME NEW k \in Keys, Evict(k) PROVE IInv'
    BY <1>3, EvictStep
  <1>4. CASE Tick
    BY <1>4, TickStep
  <1>5. CASE UNCHANGED vars
    BY <1>5, LicenseFrame, WechatFrame DEF vars, IInv, KeysTypeOK
  <1> QED  BY <1>1, <1>2, <1>3, <1>4, <1>5 DEF Next

\* The invariant holds throughout.
LEMMA Invariant == Spec => []IInv
  BY IInvInit, IInvStep, PTL DEF Spec

-----------------------------------------------------------------------------
(* The theorems.                                                           *)

\* Keys, licenses and the token are well typed, in every state.
THEOREM TypeCorrect == Spec => []TypeOK
  <1>1. IInv => TypeOK  BY DEF IInv, LicenseInv, WechatInv, TypeOK
  <1> QED  BY <1>1, Invariant, PTL

\* A certificate is granted only for a code that was live while the request
\* was handled, or for a debug code.
THEOREM CertificatesNeedCodes == Spec => []CertificateNeedsCode
  <1>1. IInv => CertificateNeedsCode
    BY DEF IInv, LicenseInv, Looked, CertificateNeedsCode
  <1> QED  BY <1>1, Invariant, PTL

\* A code lasts as long as the last answer about it promised.
THEOREM CodesLastAsPromised == Spec => []CodeLastsAsPromised
  <1>1. IInv => CodeLastsAsPromised  BY DEF IInv, LicenseInv
  <1> QED  BY <1>1, Invariant, PTL

\* A stored token leaves Redis no later than it ends, races or not.
THEOREM StaleTokensLeave == Spec => []StaleTokenLeaves
  <1>1. IInv => StaleTokenLeaves  BY DEF IInv, WechatInv
  <1> QED  BY <1>1, Invariant, PTL

\* Without a race and a slow reply, WeChat accepts the stored token.
THEOREM CachedTokensAreAccepted == Spec => []CachedTokenIsAccepted
  <1>1. ASSUME IInv, trouble = {}, Present(TokenKey) PROVE Accepted(cached)
    <2>1. cached \in Tokens /\ ttl[TokenKey] \in 1..(cached.lasts - cached.age)
      BY <1>1 DEF IInv, WechatInv, WechatTypeOK, StaleTokenLeaves
    <2>2. cached.lasts \in Nat /\ cached.age \in Nat
      BY <2>1, TokenFields
    <2>3. ~cached.dropped
      BY <1>1 DEF IInv, WechatInv, Orderly
    <2> QED  BY <2>1, <2>2, <2>3 DEF Accepted
  <1>2. IInv => CachedTokenIsAccepted
    BY <1>1 DEF CachedTokenIsAccepted
  <1> QED  BY <1>2, Invariant, PTL
=============================================================================
