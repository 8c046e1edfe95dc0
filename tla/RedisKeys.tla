------------------------------ MODULE RedisKeys -------------------------------
(***************************************************************************)
(* Keys of Redis that live for a time, as LicenseService and WechatService *)
(* use them: SET with a time to live, eviction, and the passing of time.   *)
(***************************************************************************)
EXTENDS Integers

CONSTANT Keys

VARIABLE ttl  \* the time each key has left: 0 when it is absent, or Forever

Forever == -1

KeysTypeOK == ttl \in [Keys -> Nat \cup {Forever}]
KeysInit   == ttl = [k \in Keys |-> 0]

Present(k) == ttl[k] # 0

\* The duration is left out.
SetKeyForever(k, duration) == ttl' = [ttl EXCEPT ![k] = Forever]

\* go-redis sends no time to live when the duration is not positive.
SetKey(k, duration) ==
    ttl' = [ttl EXCEPT ![k] = IF duration > 0 THEN duration ELSE Forever]

\* redis.conf: when memory is short, any key may go (allkeys-lru).
EvictKey(k) == Present(k) /\ ttl' = [ttl EXCEPT ![k] = 0]

Less(n)  == IF n > 0 THEN n - 1 ELSE n
KeysTick == ttl' = [k \in Keys |-> Less(ttl[k])]
=============================================================================
