----------------------------- MODULE VerifyCode -----------------------------
(***************************************************************************)
(* The verification codes that gate /query, /commit, /delete and /vote.    *)
(*                                                                         *)
(* HandleMessage (controllers/wechat_controller.go) stores a code in Redis *)
(* with the value 0 and a lifetime of 24 hours; the value counts the uses. *)
(* VerifyService.VerifyCode (services/verify_service.go) spends one use    *)
(* with four separate Redis commands, EXISTS, GET, DEL or INCR, and no     *)
(* lock.  Every command is one atomic step here, so the calls of           *)
(* concurrent requests interleave between commands, and keys vanish (by    *)
(* expiry or eviction) between any two of them.                            *)
(*                                                                         *)
(* An element of Codes is one Redis key "icey:subject:<subject>:<code>".   *)
(***************************************************************************)
EXTENDS Integers, FiniteSets

CONSTANTS
    Codes,        \* the Redis keys
    Calls,        \* the calls of VerifyCode that may be in flight at once
    MaxAttempts,  \* config.Verification.MaxAttempts (15 in config.yaml)
    MaxSends      \* how often the Redis client sends one command before it
                  \* gives up waiting for a reply (1 + its retries)

ASSUME MaxAttemptsAssumption == MaxAttempts \in Nat \ {0}
ASSUME MaxSendsAssumption == MaxSends \in Nat \ {0}
ASSUME CallsAssumption == IsFiniteSet(Calls)

VARIABLES
    present,   \* the keys that exist in Redis
    expiring,  \* the keys that carry a time to live
    count,     \* the integer stored under a key; 0 when it is absent
    pc,        \* where each call is in VerifyCode
    code,      \* the key each call checks
    sends,     \* the sends left for the INCR of a call
    uses       \* history: calls accepted during the present life of a key

redis == <<present, expiring, count>>
vars  == <<present, expiring, count, pc, code, sends, uses>>

Running  == {"exists", "get", "del", "incr"}
Returned == {"accepted", "rejected", "failed"}

TypeOK ==
    /\ present \subseteq Codes
    /\ expiring \subseteq present
    /\ count \in [Codes -> Nat]
    /\ pc \in [Calls -> {"idle"} \cup Running \cup Returned]
    /\ code \in [Calls -> Codes]
    /\ sends \in [Calls -> 1..MaxSends]
    /\ uses \in [Codes -> Nat]

Init ==
    /\ present = {}
    /\ expiring = {}
    /\ count = [c \in Codes |-> 0]
    /\ pc = [r \in Calls |-> "idle"]
    /\ code \in [Calls -> Codes]
    /\ sends = [r \in Calls |-> MaxSends]
    /\ uses = [c \in Codes |-> 0]

Goto(r, label) == pc' = [pc EXCEPT ![r] = label]

-----------------------------------------------------------------------------
(* The keys: issued by HandleMessage, lost by expiry or by eviction.       *)

\* SET key 0 EX 24h.  A code drawn twice for one subject starts over.
Issue(c) ==
    /\ present' = present \cup {c}
    /\ expiring' = expiring \cup {c}
    /\ count' = [count EXCEPT ![c] = 0]
    /\ uses' = [uses EXCEPT ![c] = 0]
    /\ UNCHANGED <<pc, code, sends>>

Forget(c) ==
    /\ present' = present \ {c}
    /\ expiring' = expiring \ {c}
    /\ count' = [count EXCEPT ![c] = 0]
    /\ uses' = [uses EXCEPT ![c] = 0]

\* The 24 hours of the key are over.
Expire(c) ==
    /\ c \in expiring
    /\ Forget(c)
    /\ UNCHANGED <<pc, code, sends>>

\* Redis evicts a key when it reaches its memory limit (allkeys-lru).
Evict(c) ==
    /\ c \in present
    /\ Forget(c)
    /\ UNCHANGED <<pc, code, sends>>

-----------------------------------------------------------------------------
(* VerifyCode(subject, code), one action per Redis command.                *)

\* A request arrives with some code, issued or not.
Call(r, c) ==
    /\ pc[r] = "idle"
    /\ Goto(r, "exists")
    /\ code' = [code EXCEPT ![r] = c]
    /\ sends' = [sends EXCEPT ![r] = MaxSends]
    /\ UNCHANGED <<redis, uses>>

\* EXISTS key
CheckExists(r) ==
    /\ pc[r] = "exists"
    /\ Goto(r, IF code[r] \in present THEN "get" ELSE "rejected")
    /\ UNCHANGED <<redis, code, sends, uses>>

\* count >= MaxAttempts
ExhaustedOffByOne(c) == count[c] > MaxAttempts
Exhausted(c) == count[c] >= MaxAttempts

\* What follows the GET: an absent key is an error of the client (redis.Nil).
AfterReadNilIsZero(c) == IF Exhausted(c) THEN "del" ELSE "incr"
AfterRead(c) ==
    IF c \notin present THEN "failed"
    ELSE IF Exhausted(c) THEN "del" ELSE "incr"

\* GET key
ReadCount(r) ==
    /\ pc[r] = "get"
    /\ Goto(r, AfterRead(code[r]))
    /\ UNCHANGED <<redis, code, sends, uses>>

\* DEL key.  Its error is logged only: the call is rejected either way.
DeleteCodeRetried(r) ==
    /\ pc[r] = "del"
    /\ \/ Forget(code[r]) /\ Goto(r, "rejected")
       \/ UNCHANGED <<redis, uses>> /\ Goto(r, "exists")
    /\ UNCHANGED <<code, sends>>
DeleteCode(r) ==
    /\ pc[r] = "del"
    /\ Goto(r, "rejected")
    /\ \/ Forget(code[r])
       \/ UNCHANGED <<redis, uses>>
    /\ UNCHANGED <<code, sends>>

\* What INCR does to the store: an absent key counts as 0 and is created,
\* without a time to live.
IncrKeyIfPresent(c) ==
    /\ count' = IF c \in present THEN [count EXCEPT ![c] = @ + 1] ELSE count
    /\ UNCHANGED <<present, expiring>>
IncrKey(c) ==
    /\ present' = present \cup {c}
    /\ count' = [count EXCEPT ![c] = @ + 1]
    /\ UNCHANGED expiring

\* INCR whose reply arrives: VerifyCode returns true.
Increment(r) ==
    /\ pc[r] = "incr"
    /\ IncrKey(code[r])
    /\ uses' = [uses EXCEPT ![code[r]] = @ + 1]
    /\ Goto(r, "accepted")
    /\ UNCHANGED <<code, sends>>

\* After a lost reply the client sends the command again, or gives up.
RetryOffByOne(r) ==
    IF sends[r] >= 1 THEN /\ sends' = [sends EXCEPT ![r] = @ - 1]
                          /\ UNCHANGED pc
                     ELSE Goto(r, "failed") /\ UNCHANGED sends
Retry(r) ==
    IF sends[r] > 1 THEN /\ sends' = [sends EXCEPT ![r] = @ - 1]
                         /\ UNCHANGED pc
                    ELSE Goto(r, "failed") /\ UNCHANGED sends

\* INCR that Redis executes but whose reply is lost.
IncrementUnheard(r) ==
    /\ pc[r] = "incr"
    /\ IncrKey(code[r])
    /\ Retry(r)
    /\ UNCHANGED <<code, uses>>

\* A command that never reaches Redis: VerifyCode returns its error.
RedisFails(r) ==
    /\ pc[r] \in {"exists", "get", "incr"}
    /\ Goto(r, "failed")
    /\ UNCHANGED <<redis, code, sends, uses>>

\* The handler has its answer and the request ends.
Return(r) ==
    /\ pc[r] \in Returned
    /\ Goto(r, "idle")
    /\ UNCHANGED <<redis, code, sends, uses>>

Step(r) ==
    \/ CheckExists(r)
    \/ ReadCount(r)
    \/ DeleteCode(r)
    \/ Increment(r)
    \/ IncrementUnheard(r)
    \/ RedisFails(r)
    \/ Return(r)

Next ==
    \/ \E c \in Codes : Issue(c) \/ Expire(c) \/ Evict(c)
    \/ \E r \in Calls, c \in Codes : Call(r, c)
    \/ \E r \in Calls : Step(r)

Spec == Init /\ [][Next]_vars

\* A started handler keeps running, and the client bounds every wait.
FairSpec == Spec /\ \A r \in Calls : WF_vars(Step(r))

-----------------------------------------------------------------------------
(* Properties.                                                             *)

\* The calls that have passed the limit check for c and not yet counted.
Pending(c) == {r \in Calls : pc[r] = "incr" /\ code[r] = c}

\* No accepted use of a code escapes its counter: whatever interleaving,
\* lost reply or revival of the key, the stored number is at least the
\* number of calls accepted since the key was last created (INCR is atomic
\* and creates the key).
NoUseUncounted == \A c \in Codes : uses[c] <= count[c]

\* The check and the INCR are two commands, so concurrent calls may pass
\* the same last use.  The excess is bounded: in one life of a key fewer
\* than MaxAttempts + Cardinality(Calls) uses are spent or about to be.
BoundedOvershoot ==
    \A c \in Codes :
        uses[c] + Cardinality(Pending(c)) < MaxAttempts + Cardinality(Calls)

\* A code is dead when its key is gone and no call is past the check of it.
Dead(c) == c \notin present /\ Pending(c) = {}

\* A dead code stays dead until HandleMessage issues it again: neither a
\* call that saw the key before it vanished nor a new one brings it back.
DeadStaysDead == [][\A c \in Codes : Dead(c) => Dead(c)' \/ c \in expiring']_vars

\* Every call returns to its handler: retries of the INCR are bounded.
CallReturns == \A r \in Calls : pc[r] # "idle" ~> pc[r] = "idle"

\* What the code says of itself: codes are stored for 24 hours and become
\* "invalid or expired" (vote_service.go:39); every key has a time to live.
EveryCodeExpires == present \subseteq expiring
=============================================================================
