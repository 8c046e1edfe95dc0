-------------------------- MODULE VerifyCodeProofs --------------------------
(***************************************************************************)
(* What VerifyCode guarantees for every set of keys, every number of       *)
(* concurrent calls and every limit.                                       *)
(*                                                                         *)
(* NoUseUncounted is not inductive: a call may count a use of a key that   *)
(* vanished, so the invariant must also say that a vanished key has        *)
(* neither a count nor uses.  BoundedOvershoot rests on it: a call passes  *)
(* the check only below the limit, and what is stored is never below what  *)
(* was spent.                                                              *)
(***************************************************************************)
EXTENDS VerifyCode, FiniteSetTheorems, TLAPS

\* A key that is gone has no count and no uses of its present life.
GoneIsZero == \A c \in Codes \ present : count[c] = 0 /\ uses[c] = 0

\* The inductive invariant.
IInv == TypeOK /\ GoneIsZero /\ NoUseUncounted /\ BoundedOvershoot

-----------------------------------------------------------------------------

\* The calls in flight are finitely many, whatever they have passed.
LEMMA PendingBound ==
    ASSUME NEW c \in Codes
    PROVE  /\ IsFiniteSet(Pending(c))
           /\ Cardinality(Pending(c)) \in Nat
           /\ Cardinality(Pending(c)) <= Cardinality(Calls)
           /\ Cardinality(Calls) \in Nat
  <1>1. Pending(c) \subseteq Calls  BY DEF Pending
  <1> QED  BY <1>1, CallsAssumption, FS_Subset, FS_CardinalityType

\* The variables of a call and of the store keep their types (TypeOK).
LEMMA TypeInit == Init => TypeOK
  BY MaxSendsAssumption DEF Init, TypeOK, Running, Returned

LEMMA TypeStep == TypeOK /\ [Next]_vars => TypeOK'
  <1> SUFFICES ASSUME TypeOK, [Next]_vars PROVE TypeOK'  OBVIOUS
  <1> USE MaxSendsAssumption DEF TypeOK, Running, Returned, Goto
  <1>1. ASSUME NEW c \in Codes, Issue(c) PROVE TypeOK'
    BY <1>1 DEF Issue
  <1>2. ASSUME NEW c \in Codes, Expire(c) PROVE TypeOK'
    BY <1>2 DEF Expire, Forget
  <1>3. ASSUME NEW c \in Codes, Evict(c) PROVE TypeOK'
    BY <1>3 DEF Evict, Forget
  <1>4. ASSUME NEW r \in Calls, NEW c \in Codes, Call(r, c) PROVE TypeOK'
    BY <1>4 DEF Call, redis
  <1>5. ASSUME NEW r \in Calls, CheckExists(r) PROVE TypeOK'
    BY <1>5 DEF CheckExists, redis
  <1>6. ASSUME NEW r \in Calls, ReadCount(r) PROVE TypeOK'
    BY <1>6 DEF ReadCount, AfterRead, redis
  <1>7. ASSUME NEW r \in Calls, DeleteCode(r) PROVE TypeOK'
    BY <1>7 DEF DeleteCode, Forget, redis
  <1>8. ASSUME NEW r \in Calls, Increment(r) PROVE TypeOK'
    BY <1>8 DEF Increment, IncrKey
  <1>9. ASSUME NEW r \in Calls, IncrementUnheard(r) PROVE TypeOK'
    BY <1>9 DEF IncrementUnheard, IncrKey, Retry
  <1>10. ASSUME NEW r \in Calls, RedisFails(r) PROVE TypeOK'
    BY <1>10 DEF RedisFails, redis
  <1>11. ASSUME NEW r \in Calls, Return(r) PROVE TypeOK'
    BY <1>11 DEF Return, redis
  <1>12. CASE UNCHANGED vars
    BY <1>12 DEF vars
  <1> QED
    BY <1>1, <1>2, <1>3, <1>4, <1>5, <1>6, <1>7, <1>8, <1>9, <1>10, <1>11,
       <1>12 DEF Next, Step

\* Every state of the service's codes is well typed.
THEOREM TypeCorrect == Spec => []TypeOK
  BY TypeInit, TypeStep, PTL DEF Spec

-----------------------------------------------------------------------------

\* A step that leaves the calls alone does not change who is pending, and a
\* step of a call that does not end at the INCR adds nobody.
LEMMA PendingShrinks ==
    ASSUME TypeOK, NEW r \in Calls, NEW label,
           Goto(r, label), label # "incr", code' = code, NEW c \in Codes
    PROVE  /\ Cardinality(Pending(c)') <= Cardinality(Pending(c))
           /\ pc[r] = "incr" /\ code[r] = c =>
                Cardinality(Pending(c)') = Cardinality(Pending(c)) - 1
  <1>1. Pending(c)' = Pending(c) \ {r}
    BY DEF Goto, TypeOK, Pending
  <1>2. r \in Pending(c) <=> pc[r] = "incr" /\ code[r] = c
    BY DEF Pending
  <1>3. IsFiniteSet(Pending(c)) /\ Cardinality(Pending(c)) \in Nat
    BY PendingBound
  <1>4. CASE r \in Pending(c)
    <2>1. Cardinality(Pending(c) \ {r}) = Cardinality(Pending(c)) - 1
      BY <1>3, <1>4, FS_RemoveElement
    <2> QED  BY <1>1, <1>3, <2>1
  <1>5. CASE r \notin Pending(c)
    <2>1. Pending(c)' = Pending(c)  BY <1>1, <1>5
    <2> QED  BY <1>2, <1>3, <1>5, <2>1
  <1> QED  BY <1>4, <1>5

\* The counting half of the invariant, for the steps that touch the store.
LEMMA CountStep ==
    ASSUME IInv, [Next]_vars
    PROVE  GoneIsZero' /\ NoUseUncounted'
  <1> USE DEF IInv, GoneIsZero, NoUseUncounted, TypeOK
  <1>1. ASSUME NEW c \in Codes, Issue(c) PROVE GoneIsZero' /\ NoUseUncounted'
    BY <1>1 DEF Issue
  <1>2. ASSUME NEW c \in Codes, Forget(c) PROVE GoneIsZero' /\ NoUseUncounted'
    BY <1>2 DEF Forget
  <1>3. ASSUME NEW r \in Calls, Increment(r)
        PROVE  GoneIsZero' /\ NoUseUncounted'
    BY <1>3 DEF Increment, IncrKey
  <1>4. ASSUME NEW r \in Calls, IncrementUnheard(r)
        PROVE  GoneIsZero' /\ NoUseUncounted'
    BY <1>4 DEF IncrementUnheard, IncrKey
  <1>5. ASSUME UNCHANGED <<redis, uses>>
        PROVE  GoneIsZero' /\ NoUseUncounted'
    BY <1>5 DEF redis
  <1>t. \A r \in Calls : code[r] \in Codes  OBVIOUS
  <1> HIDE DEF IInv, GoneIsZero, NoUseUncounted, TypeOK
  <1>6. ASSUME NEW r \in Calls, Step(r)
        PROVE  GoneIsZero' /\ NoUseUncounted'
    BY <1>t, <1>2, <1>3, <1>4, <1>5, <1>6
       DEF Step, redis, CheckExists, ReadCount, DeleteCode, RedisFails, Return
  <1> QED
    BY <1>1, <1>2, <1>5, <1>6 DEF Next, Expire, Evict, Call, vars, redis

\* The bound on what is spent or about to be.
LEMMA BoundStep ==
    ASSUME IInv, [Next]_vars
    PROVE  BoundedOvershoot'
  <1> DEFINE Bound == MaxAttempts + Cardinality(Calls)
             Load(c) == uses[c] + Cardinality(Pending(c))
  <1>0. SUFFICES ASSUME NEW c \in Codes
                 PROVE  Load(c)' < MaxAttempts + Cardinality(Calls)
    BY DEF BoundedOvershoot
  <1>t. TypeOK /\ TypeOK'  BY TypeStep DEF IInv
  <1>n. /\ Cardinality(Pending(c)) \in Nat
        /\ Cardinality(Pending(c)') \in Nat
        /\ Cardinality(Pending(c)') <= Cardinality(Calls)
        /\ Cardinality(Calls) \in Nat
        /\ uses[c] \in Nat /\ uses'[c] \in Nat
    BY <1>t, PendingBound, FS_Subset, FS_CardinalityType, CallsAssumption
       DEF TypeOK, Pending
  <1>b. Load(c) < Bound  BY DEF IInv, BoundedOvershoot
  <1>1. ASSUME UNCHANGED <<pc, code>>, uses'[c] <= uses[c]
        PROVE  Load(c)' < Bound
    <2>1. Pending(c)' = Pending(c)  BY <1>1 DEF Pending
    <2> QED  BY <1>b, <1>n, <1>1, <2>1, MaxAttemptsAssumption
  <1>2. ASSUME NEW r \in Calls, NEW label, Goto(r, label), label # "incr",
               code' = code, uses'[c] <= uses[c]
        PROVE  Load(c)' < Bound
    BY <1>b, <1>n, <1>t, <1>2, PendingShrinks, MaxAttemptsAssumption
  <1>3. ASSUME NEW r \in Calls, ReadCount(r)
        PROVE  Load(c)' < Bound
    <2>1. CASE AfterRead(code[r]) = "incr" /\ code[r] = c
      \* The check has just read a count below the limit.
      <3>1. count[c] < MaxAttempts
        BY <2>1, <1>t, MaxAttemptsAssumption DEF AfterRead, Exhausted, TypeOK
      <3>2. uses'[c] <= count[c]
        BY <1>3 DEF IInv, NoUseUncounted, ReadCount
      <3> QED  BY <3>1, <3>2, <1>n, <1>t, MaxAttemptsAssumption DEF TypeOK
    <2>2. CASE AfterRead(code[r]) = "incr" /\ code[r] # c
      <3>1. Pending(c)' = Pending(c)
        BY <2>2, <1>3, <1>t DEF ReadCount, Goto, Pending, TypeOK
      <3> QED  BY <3>1, <1>b, <1>3, <1>n DEF ReadCount
    <2>3. CASE AfterRead(code[r]) # "incr"
      BY <2>3, <1>2, <1>3, <1>n DEF ReadCount
    <2> QED  BY <2>1, <2>2, <2>3
  <1>4. ASSUME NEW r \in Calls, Increment(r)
        PROVE  Load(c)' < Bound
    <2>1. Goto(r, "accepted") /\ code' = code /\ pc[r] = "incr"
      BY <1>4 DEF Increment
    <2>2. CASE code[r] = c
      <3>1. uses'[c] = uses[c] + 1
        BY <2>2, <1>4, <1>t DEF Increment, TypeOK
      <3>2. Cardinality(Pending(c)') = Cardinality(Pending(c)) - 1
        BY <2>1, <2>2, <1>t, PendingShrinks
      <3> QED  BY <3>1, <3>2, <1>b, <1>n, MaxAttemptsAssumption
    <2>3. CASE code[r] # c
      BY <2>1, <2>3, <1>2, <1>4, <1>t, <1>n DEF Increment, TypeOK
    <2> QED  BY <2>2, <2>3
  <1>5. ASSUME NEW r \in Calls, IncrementUnheard(r)
        PROVE  Load(c)' < Bound
    BY <1>1, <1>2, <1>5, <1>n DEF IncrementUnheard, Retry
  <1>6. ASSUME NEW r \in Calls, NEW d \in Codes, Call(r, d)
        PROVE  Load(c)' < Bound
    <2>1. Pending(c)' = Pending(c)
      BY <1>6, <1>t DEF Call, Goto, Pending, TypeOK
    <2> QED  BY <2>1, <1>b, <1>6, <1>n DEF Call
  <1>7. ASSUME NEW r \in Calls, DeleteCode(r)
        PROVE  Load(c)' < Bound
    <2>1. uses'[c] <= uses[c]
      BY <1>7, <1>t, <1>n DEF DeleteCode, Forget, TypeOK
    <2> QED  BY <2>1, <1>2, <1>7 DEF DeleteCode
  <1>8. ASSUME NEW r \in Calls,
               CheckExists(r) \/ RedisFails(r) \/ Return(r)
        PROVE  Load(c)' < Bound
    <2>1. uses' = uses /\ code' = code
      BY <1>8 DEF CheckExists, RedisFails, Return
    <2>2. \E label : label # "incr" /\ Goto(r, label)
      BY <1>8 DEF CheckExists, RedisFails, Return
    <2> QED  BY <2>1, <2>2, <1>2, <1>n
  <1>9. ASSUME NEW d \in Codes, Issue(d) \/ Expire(d) \/ Evict(d)
        PROVE  Load(c)' < Bound
    <2>1. uses'[c] <= uses[c]
      BY <1>9, <1>t, <1>n DEF Issue, Expire, Evict, Forget, TypeOK
    <2> QED  BY <2>1, <1>1, <1>9 DEF Issue, Expire, Evict
  <1>10. CASE UNCHANGED vars
    BY <1>10, <1>1, <1>n DEF vars
  <1> QED
    BY <1>3, <1>4, <1>5, <1>6, <1>7, <1>8, <1>9, <1>10 DEF Next, Step

LEMMA InvInit == Init => IInv
  <1> SUFFICES ASSUME Init PROVE IInv  OBVIOUS
  <1>1. TypeOK  BY TypeInit
  <1>2. GoneIsZero /\ NoUseUncounted
    BY DEF Init, GoneIsZero, NoUseUncounted
  <1>3. ASSUME NEW c \in Codes
        PROVE  uses[c] + Cardinality(Pending(c))
                 < MaxAttempts + Cardinality(Calls)
    <2>1. Pending(c) = {}  BY DEF Init, Pending
    <2>2. Cardinality(Pending(c)) = 0  BY <2>1, FS_EmptySet
    <2>3. uses[c] = 0  BY DEF Init
    <2> QED
      BY <2>2, <2>3, PendingBound, MaxAttemptsAssumption
  <1> QED  BY <1>1, <1>2, <1>3 DEF IInv, BoundedOvershoot

LEMMA InvStep == IInv /\ [Next]_vars => IInv'
  BY TypeStep, CountStep, BoundStep DEF IInv

THEOREM Invariance == Spec => []IInv
  BY InvInit, InvStep, PTL DEF Spec

\* However many calls race, and whichever replies and keys are lost, no
\* accepted use of a code is missing from its counter (VerifyCode's INCR).
THEOREM UsesAreCounted == Spec => []NoUseUncounted
  <1>1. IInv => NoUseUncounted  BY DEF IInv
  <1> QED  BY Invariance, <1>1, PTL

\* The race between VerifyCode's check and its INCR lets at most one use per
\* concurrent call slip past max_attempts.
THEOREM OvershootIsBounded == Spec => []BoundedOvershoot
  <1>1. IInv => BoundedOvershoot  BY DEF IInv
  <1> QED  BY Invariance, <1>1, PTL

-----------------------------------------------------------------------------

\* Only HandleMessage brings back a code whose key is gone and that no call
\* has already passed the check of.
THEOREM DeadCodesStayDead == Spec => DeadStaysDead
  <1> DEFINE Keeps == \A c \in Codes : Dead(c) => Dead(c)' \/ c \in expiring'
  <1>1. TypeOK /\ [Next]_vars => Keeps
    <2> SUFFICES ASSUME TypeOK, [Next]_vars, NEW c \in Codes, Dead(c),
                        c \notin expiring'
                 PROVE  Dead(c)'
      OBVIOUS
    <2> USE DEF Dead, Pending, TypeOK, Goto
    <2>1. ASSUME NEW d \in Codes, Issue(d) PROVE Dead(c)'
      BY <2>1 DEF Issue
    <2>2. ASSUME NEW d \in Codes, Expire(d) \/ Evict(d) PROVE Dead(c)'
      BY <2>2 DEF Expire, Evict, Forget
    <2>3. ASSUME NEW r \in Calls, NEW d \in Codes, Call(r, d) PROVE Dead(c)'
      BY <2>3 DEF Call, redis
    <2>4. ASSUME NEW r \in Calls, ReadCount(r) PROVE Dead(c)'
      BY <2>4 DEF ReadCount, AfterRead, redis
    <2>5. ASSUME NEW r \in Calls, DeleteCode(r) PROVE Dead(c)'
      BY <2>5 DEF DeleteCode, Forget, redis
    <2>6. ASSUME NEW r \in Calls, Increment(r) PROVE Dead(c)'
      BY <2>6 DEF Increment, IncrKey
    <2>7. ASSUME NEW r \in Calls, IncrementUnheard(r) PROVE Dead(c)'
      BY <2>7 DEF IncrementUnheard, IncrKey, Retry
    <2>8. ASSUME NEW r \in Calls,
                 CheckExists(r) \/ RedisFails(r) \/ Return(r)
          PROVE  Dead(c)'
      BY <2>8 DEF CheckExists, RedisFails, Return, redis
    <2>9. CASE UNCHANGED vars
      BY <2>9 DEF vars
    <2> QED
      BY <2>1, <2>2, <2>3, <2>4, <2>5, <2>6, <2>7, <2>8, <2>9 DEF Next, Step
  <1>2. TypeOK /\ [Next]_vars => [Keeps]_vars  BY <1>1
  <1> QED  BY TypeCorrect, <1>2, PTL DEF Spec, DeadStaysDead
=============================================================================
