---------------------------- MODULE VoteLockProofs -----------------------------
(***************************************************************************)
(* What the locks of votes guarantee for every number of votes, whoever    *)
(* the third field of "git lfs locks" is, and whichever faults occur.      *)
(*                                                                         *)
(* None of the properties is inductive.  HeldWhileVoting rests on the lock *)
(* of .bm being held while .bmi is locked (Held), which a second vote      *)
(* would take away (Alone).  LeftoversDoNotRefuse rests on what            *)
(* LockBitmaps has unlocked before (Cleared), OthersKeepTheirLocks on why  *)
(* --force is used (Forcing), and NothingLeftLocked, for votes that        *)
(* overlap at will, on somebody having yet to unlock each lock (Owed).     *)
(***************************************************************************)
EXTENDS VoteLock, TLAPS

Apart == "overlap" \notin past

\* Votes that do not overlap are in flight one at a time.
Alone == Apart => \A v, w \in Votes : v \in InFlight /\ w \in InFlight => v = w

Held ==
    Apart => \A v \in Votes : /\ pc[v] \in {"lockbmi"} \cup Holding => owner["bm"] = "us"
                              /\ pc[v] \in Holding => owner["bmi"] = "us"

\* --force follows upon an unlock that found uncommitted changes.
Forcing == Apart => \A v \in Votes : cmd[v] = "force" => FileOf(v) \in dirty

\* A file that LockFile has before it was unlocked by LockBitmaps.
Cleared ==
    past \cap {"call", "overlap"} = {} =>
        \A v \in Votes :
            /\ pc[v] \in {"clearbmi", "lockbm"} => owner["bm"] # "us"
            /\ pc[v] \in Locking => owner["bmi"] # "us"

\* Where a vote stands that has yet to unlock the file.
Owing(f) ==
    IF f = "bm" THEN {"lockbmi", "rollback", "freebm"} \cup Holding
                ELSE {"freebm", "freebmi"} \cup Holding
Owed ==
    past \cap {"call", "crash"} = {} =>
        \A f \in Files : owner[f] = "us" => \E v \in Votes : pc[v] \in Owing(f)

\* The inductive invariant.
IInv == TypeOK /\ Alone /\ Held /\ Forcing /\ Cleared /\ Owed

-----------------------------------------------------------------------------
(* What the commands of git lfs amount to.                                 *)

\* UnlockFile returns.
Returns(v) ==
    \/ pc[v] = "clearbm" /\ Goto(v, "clearbmi")
    \/ pc[v] = "clearbmi" /\ (Goto(v, "lockbm") \/ Goto(v, "failed"))
    \/ pc[v] = "rollback" /\ Goto(v, "refused")
    \/ pc[v] = "freebm" /\ Goto(v, "freebmi")
    \/ pc[v] = "freebmi" /\ Goto(v, "failed")
    \/ pc[v] = "freebmi" /\ v \in saved /\ Goto(v, "answered")

\* UnlockFile returns, and a lock of ours is gone unless a command failed.
Unlocks(v) ==
    /\ Returns(v)
    /\ \/ owner' = owner /\ (owner[FileOf(v)] = "us" => "call" \in past')
       \/ /\ owner' = [owner EXCEPT ![FileOf(v)] = "nobody"]
          /\ owner[FileOf(v)] = "us" \/ cmd[v] = "force"
    /\ past' \in {past, past \cup {"call"}}
    /\ UNCHANGED <<dirty, saved>>

\* UnlockFile goes on with --force.
Insists(v) ==
    /\ pc[v] \in Unlocking /\ FileOf(v) \in dirty
    /\ Then(v, "force")
    /\ UNCHANGED <<owner, dirty, saved, past>>

\* LockFile goes on, and may have removed a lock of ours.
Retries(v) ==
    /\ pc[v] \in Locking
    /\ \E c \in {"locks", "own", "again"} : Then(v, c)
    /\ owner' \in {owner, [owner EXCEPT ![FileOf(v)] = "nobody"]}
    /\ owner' # owner => owner[FileOf(v)] = "us"
    /\ UNCHANGED <<dirty, saved, past>>

\* LockFile has the lock.
Locks(v) ==
    /\ pc[v] \in Locking /\ owner[FileOf(v)] = "nobody"
    /\ Take(v) /\ Locked(v)
    /\ UNCHANGED <<dirty, saved, past>>

\* LockFile has an error; the lock may be taken if a command failed.
GivesUp(v) ==
    /\ pc[v] \in Locking /\ NotLocked(v)
    /\ \/ owner' = owner
       \/ owner[FileOf(v)] = "nobody" /\ Take(v) /\ "call" \in past'
    /\ past' \in {past, past \cup {"call"}}
    /\ UNCHANGED <<dirty, saved>>

LEMMA UnlockReturnsSomewhere ==
  ASSUME NEW v \in Votes, pc[v] \in Unlocking, UnlockReturns(v)
  PROVE  Returns(v)
  BY DEF Unlocking, UnlockReturns, AfterUnlock, Gone, Outcome, Returns

\* Each step of a vote is one of seven.
LEMMA StepsOfVotes ==
  ASSUME TypeOK, NEW v \in Votes, Step(v)
  PROVE  \/ Start(v) \/ AddBit(v) \/ Commit(v)
         \/ Unlocks(v) \/ Insists(v) \/ Retries(v) \/ Locks(v) \/ GivesUp(v)
  <1>0. FileOf(v) \in Files /\ owner \in [Files -> {"nobody", "us", "other"}]
    BY DEF TypeOK, FileOf, Files
  <1>1. CASE Unlock(v)
    <2>1. CASE Then(v, "force")
      BY <1>1, <2>1, UnlockReturnsSomewhere DEF Unlock, Insists, Unlocks, Unlocking
    <2>2. CASE ~Then(v, "force")
      BY <1>1, <2>2, <1>0, UnlockReturnsSomewhere DEF Unlock, Unlocks
    <2> QED  BY <2>1, <2>2
  <1>2. CASE ForceUnlock(v)
    <2>1. pc[v] \in Unlocking  BY <1>2 DEF ForceUnlock, TypeOK
    <2> QED  BY <1>2, <2>1, <1>0, UnlockReturnsSomewhere DEF ForceUnlock, Unlocks
  <1>3. CASE Lock(v)
    BY <1>3, <1>0 DEF Lock, Locks, Retries
  <1>4. CASE ListLocks(v)
    <2>1. pc[v] \in Locking  BY <1>4 DEF ListLocks, TypeOK
    <2> QED  BY <1>4, <2>1 DEF ListLocks, Retries, GivesUp
  <1>5. CASE UnlockOwn(v)
    <2>1. pc[v] \in Locking  BY <1>5 DEF UnlockOwn, TypeOK
    <2> QED  BY <1>5, <2>1 DEF UnlockOwn, Retries, GivesUp
  <1>6. CASE LockAgain(v)
    <2>1. pc[v] \in Locking  BY <1>6 DEF LockAgain, TypeOK
    <2> QED  BY <1>6, <2>1 DEF LockAgain, Locks, GivesUp
  <1>7. CASE CallFails(v)
    <2>1. CASE pc[v] \in Unlocking /\ UnlockReturns(v) /\ UNCHANGED owner
      BY <1>7, <2>1, UnlockReturnsSomewhere DEF CallFails, Unlocks
    <2>2. CASE pc[v] \in Locking /\ NotLocked(v)
      BY <1>7, <2>2 DEF CallFails, GivesUp, Locking, Unlocking
    <2> QED  BY <1>7, <2>1, <2>2 DEF CallFails
  <1> QED  BY <1>1, <1>2, <1>3, <1>4, <1>5, <1>6, <1>7 DEF Step

\* What a step of a vote leaves alone: the other votes, and the other file.
LEMMA StepsAreLocal ==
  ASSUME TypeOK, NEW v \in Votes, Step(v)
  PROVE  /\ \A w \in Votes : w # v => pc'[w] = pc[w] /\ cmd'[w] = cmd[w]
         /\ \A f \in Files : f # FileOf(v) => owner'[f] = owner[f]
         /\ past \subseteq past' /\ saved \subseteq saved'
  <1> USE DEF TypeOK, Goto, Then, FileOf
  <1>1. CASE Start(v)  BY <1>1 DEF Start
  <1>2. CASE AddBit(v)  BY <1>2 DEF AddBit
  <1>3. CASE Commit(v)  BY <1>3 DEF Commit
  <1>4. CASE Unlocks(v)  BY <1>4 DEF Unlocks, Returns
  <1>5. CASE Insists(v)  BY <1>5 DEF Insists
  <1>6. CASE Retries(v)  BY <1>6 DEF Retries
  <1>7. CASE Locks(v)  BY <1>7 DEF Locks, Locked, Take
  <1>8. CASE GivesUp(v)  BY <1>8 DEF GivesUp, NotLocked, Take
  <1> QED  BY <1>1, <1>2, <1>3, <1>4, <1>5, <1>6, <1>7, <1>8, StepsOfVotes

-----------------------------------------------------------------------------
(* The variables keep their types.                                         *)

LEMMA TypeInit == Init => TypeOK
  BY DEF Init, TypeOK, Files

\* Where a vote may be, and with which command.
Placed(label, command) ==
    /\ label \in {"new"} \cup Handling \cup Ended
    /\ command \in {"first", "force", "locks", "own", "again"}
    /\ command # "first" => label \in IF command = "force" THEN Unlocking ELSE Locking

LEMMA TypeStep ==
  ASSUME TypeOK, NEW v \in Votes, Step(v)
  PROVE  TypeOK'
  <1> USE DEF Handling, Ended, Unlocking, Locking, Holding
  <1> DEFINE Good == /\ pc' \in [Votes -> {"new"} \cup Handling \cup Ended]
                     /\ cmd' \in [Votes -> {"first", "force", "locks", "own", "again"}]
                     /\ Placed(pc'[v], cmd'[v])
                     /\ pc'[v] = "answered" => v \in saved'
             Kept == /\ owner' \in [Files -> {"nobody", "us", "other"}]
                     /\ dirty' \subseteq Files /\ saved' \subseteq Votes
                     /\ past' \subseteq Events
  <1>0. FileOf(v) \in Files  BY DEF FileOf, Files
  <1>1. CASE Start(v)
    <2>1. Good  BY <1>1 DEF Start, Goto, TypeOK, Placed
    <2>2. Kept  BY <1>1 DEF Start, TypeOK, Events
    <2> QED  BY <2>1, <2>2, StepsAreLocal DEF TypeOK, Placed
  <1>2. CASE AddBit(v)
    <2>1. Good  BY <1>2 DEF AddBit, Goto, TypeOK, Placed
    <2>2. Kept  BY <1>2 DEF AddBit, TypeOK, Files
    <2> QED  BY <2>1, <2>2, StepsAreLocal DEF TypeOK, Placed
  <1>3. CASE Commit(v)
    <2>1. Good  BY <1>3 DEF Commit, Goto, TypeOK, Placed
    <2>2. Kept  BY <1>3 DEF Commit, TypeOK
    <2> QED  BY <2>1, <2>2, StepsAreLocal DEF TypeOK, Placed
  <1>4. CASE Unlocks(v)
    <2>1. Good  BY <1>4 DEF Unlocks, Returns, Goto, TypeOK, Placed
    <2>2. Kept  BY <1>0, <1>4 DEF Unlocks, TypeOK, Events
    <2> QED  BY <2>1, <2>2, StepsAreLocal DEF TypeOK, Placed
  <1>5. CASE Insists(v)
    <2>1. Good  BY <1>5 DEF Insists, Then, TypeOK, Placed
    <2>2. Kept  BY <1>5 DEF Insists, TypeOK
    <2> QED  BY <2>1, <2>2, StepsAreLocal DEF TypeOK, Placed
  <1>6. CASE Retries(v)
    <2>1. Good  BY <1>6 DEF Retries, Then, TypeOK, Placed
    <2>2. Kept  BY <1>0, <1>6 DEF Retries, TypeOK
    <2> QED  BY <2>1, <2>2, StepsAreLocal DEF TypeOK, Placed
  <1>7. CASE Locks(v)
    <2>1. Good  BY <1>7 DEF Locks, Locked, Goto, TypeOK, Placed
    <2>2. Kept  BY <1>0, <1>7 DEF Locks, Take, TypeOK
    <2> QED  BY <2>1, <2>2, StepsAreLocal DEF TypeOK, Placed
  <1>8. CASE GivesUp(v)
    <2>1. Good  BY <1>8 DEF GivesUp, NotLocked, Goto, TypeOK, Placed
    <2>2. Kept  BY <1>0, <1>8 DEF GivesUp, Take, TypeOK, Events
    <2> QED  BY <2>1, <2>2, StepsAreLocal DEF TypeOK, Placed
  <1> QED  BY <1>1, <1>2, <1>3, <1>4, <1>5, <1>6, <1>7, <1>8, StepsOfVotes

LEMMA TypeNext == TypeOK /\ [Next]_vars => TypeOK'
  <1> SUFFICES ASSUME TypeOK, [Next]_vars PROVE TypeOK'
    OBVIOUS
  <1>1. CASE \E v \in Votes : Step(v)  BY <1>1, TypeStep
  <1>2. CASE \E f \in Files : OtherLocks(f)  BY <1>2 DEF OtherLocks, TypeOK
  <1>3. CASE Crash  BY <1>3 DEF Crash, TypeOK, Handling, Ended, Events
  <1>4. CASE UNCHANGED vars  BY <1>4 DEF vars, TypeOK
  <1> QED  BY <1>1, <1>2, <1>3, <1>4 DEF Next, AllVoted

-----------------------------------------------------------------------------
(* What the properties rest on.                                            *)

\* When a vote moves and there is no overlap, no other vote is in flight.
LEMMA OthersRest ==
  ASSUME TypeOK, Alone, NEW v \in Votes, Step(v), Apart', NEW w \in Votes, w # v
  PROVE  pc'[w] = pc[w] /\ cmd'[w] = cmd[w] /\ w \notin InFlight /\ Apart
  <1>1. Apart /\ pc'[w] = pc[w] /\ cmd'[w] = cmd[w]
    BY StepsAreLocal DEF Apart
  <1>2. CASE Start(v)
    BY <1>1, <1>2 DEF Start, Apart
  <1>3. CASE ~Start(v)
    <2>1. v \in InFlight
      BY <1>3, StepsOfVotes DEF AddBit, Commit, Unlocks, Returns, Insists, Retries,
         Locks, GivesUp, Unlocking, Locking, InFlight, Handling, Holding
    <2> QED  BY <1>1, <2>1 DEF Alone
  <1> QED  BY <1>2, <1>3

\* A vote that starts while another is in flight is an overlap.
LEMMA AloneStep ==
  ASSUME TypeOK, Alone, NEW v \in Votes, Step(v)
  PROVE  Alone'
  <1> SUFFICES ASSUME Apart', NEW w \in Votes, w \in InFlight', w # v
               PROVE  FALSE
    BY DEF Alone
  <1> QED  BY OthersRest DEF InFlight

\* Both locks are held where the vote is past LockBitmaps.
LEMMA HeldStep ==
  ASSUME TypeOK, Alone, Held, NEW v \in Votes, Step(v)
  PROVE  Held'
  <1> USE DEF Holding, FileOf, Files
  <1> SUFFICES ASSUME Apart', NEW w \in Votes
               PROVE  /\ pc'[w] \in {"lockbmi"} \cup Holding => owner'["bm"] = "us"
                      /\ pc'[w] \in Holding => owner'["bmi"] = "us"
    BY DEF Held
  <1>1. CASE w # v
    BY <1>1, OthersRest DEF InFlight, Handling, Locking
  <1>2. CASE w = v
    <2>0. Apart /\ pc \in [Votes -> {"new"} \cup Handling \cup Ended]
          /\ owner \in [Files -> {"nobody", "us", "other"}]
      BY StepsAreLocal DEF Apart, TypeOK
    <2>1. CASE Start(v)  BY <1>2, <2>0, <2>1 DEF Start, Goto
    <2>2. CASE AddBit(v)  BY <1>2, <2>0, <2>2 DEF AddBit, Goto, Held
    <2>3. CASE Commit(v)  BY <1>2, <2>0, <2>3 DEF Commit, Goto
    <2>4. CASE Unlocks(v)  BY <1>2, <2>0, <2>4 DEF Unlocks, Returns, Goto
    <2>5. CASE Insists(v)  BY <1>2, <2>0, <2>5 DEF Insists, Then, Held
    <2>6. CASE Retries(v)  BY <1>2, <2>0, <2>6 DEF Retries, Then, Held, Locking
    <2>7. CASE Locks(v)  BY <1>2, <2>0, <2>7 DEF Locks, Locked, Take, Goto, Held, Locking
    <2>8. CASE GivesUp(v)  BY <1>2, <2>0, <2>8 DEF GivesUp, NotLocked, Goto, Locking
    <2> QED  BY <2>1, <2>2, <2>3, <2>4, <2>5, <2>6, <2>7, <2>8, StepsOfVotes
  <1> QED  BY <1>1, <1>2

\* Uncommitted changes stay until the vote that insists has gone on.
LEMMA ForcingStep ==
  ASSUME TypeOK, Alone, Forcing, NEW v \in Votes, Step(v)
  PROVE  Forcing'
  <1> SUFFICES ASSUME Apart', NEW w \in Votes, cmd'[w] = "force"
               PROVE  FileOf(w)' \in dirty'
    BY DEF Forcing
  <1>1. CASE w # v
    BY <1>1, OthersRest DEF InFlight, Handling, TypeOK
  <1>2. CASE w = v
    <2>0. cmd \in [Votes -> {"first", "force", "locks", "own", "again"}]
      BY DEF TypeOK
    <2>1. ~Start(v) /\ ~AddBit(v) /\ ~Commit(v) /\ ~Unlocks(v) /\ ~Locks(v) /\ ~GivesUp(v)
      BY <1>2, <2>0 DEF Start, AddBit, Commit, Unlocks, Returns, Locks, Locked, GivesUp,
                        NotLocked, Goto
    <2>2. ~Retries(v)  BY <1>2, <2>0 DEF Retries, Then
    <2>3. Insists(v)  BY <2>1, <2>2, StepsOfVotes
    <2> QED  BY <1>2, <2>3 DEF Insists, Then, FileOf
  <1> QED  BY <1>1, <1>2

\* LockBitmaps has unlocked the files it is about to lock.
LEMMA ClearedStep ==
  ASSUME TypeOK, Alone, Cleared, NEW v \in Votes, Step(v)
  PROVE  Cleared'
  <1> USE DEF FileOf, Files, Locking
  <1> SUFFICES ASSUME past' \cap {"call", "overlap"} = {}, NEW w \in Votes
               PROVE  /\ pc'[w] \in {"clearbmi", "lockbm"} => owner'["bm"] # "us"
                      /\ pc'[w] \in Locking => owner'["bmi"] # "us"
    BY DEF Cleared
  <1>0. Apart' /\ past \cap {"call", "overlap"} = {}
    BY StepsAreLocal DEF Apart
  <1>1. CASE w # v
    BY <1>0, <1>1, OthersRest DEF InFlight, Handling, Unlocking
  <1>2. CASE w = v
    <2>0. pc \in [Votes -> {"new"} \cup Handling \cup Ended]
          /\ owner \in [Files -> {"nobody", "us", "other"}]
      BY DEF TypeOK
    <2>1. CASE Start(v)  BY <1>2, <2>0, <2>1 DEF Start, Goto
    <2>2. CASE AddBit(v)  BY <1>2, <2>0, <2>2 DEF AddBit, Goto
    <2>3. CASE Commit(v)  BY <1>2, <2>0, <2>3 DEF Commit, Goto
    <2>4. CASE Unlocks(v)  BY <1>0, <1>2, <2>0, <2>4 DEF Unlocks, Returns, Goto, Cleared
    <2>5. CASE Insists(v)  BY <1>0, <1>2, <2>0, <2>5 DEF Insists, Then, Cleared
    <2>6. CASE Retries(v)  BY <1>0, <1>2, <2>0, <2>6 DEF Retries, Then, Cleared
    <2>7. CASE Locks(v)  BY <1>0, <1>2, <2>0, <2>7 DEF Locks, Locked, Take, Goto, Cleared
    <2>8. CASE GivesUp(v)  BY <1>2, <2>0, <2>8 DEF GivesUp, NotLocked, Goto
    <2> QED  BY <2>1, <2>2, <2>3, <2>4, <2>5, <2>6, <2>7, <2>8, StepsOfVotes
  <1> QED  BY <1>1, <1>2

\* A lock that is taken will be given back by the vote that takes it, if it
\* is not taken away: nothing is assumed about overlaps.
LEMMA OwedStep ==
  ASSUME TypeOK, Owed, NEW v \in Votes, Step(v)
  PROVE  Owed'
  <1> USE DEF Owing, Holding, FileOf, Files
  <1> SUFFICES ASSUME past' \cap {"call", "crash"} = {}, NEW f \in Files, owner'[f] = "us"
               PROVE  \E u \in Votes : pc'[u] \in Owing(f)
    BY DEF Owed
  <1>0. /\ past \cap {"call", "crash"} = {}
        /\ pc \in [Votes -> {"new"} \cup Handling \cup Ended]
        /\ owner \in [Files -> {"nobody", "us", "other"}]
    BY StepsAreLocal DEF TypeOK
  <1>1. CASE owner[f] = "us"
    <2>1. PICK u \in Votes : pc[u] \in Owing(f)
      BY <1>0, <1>1 DEF Owed
    <2>2. CASE u # v
      BY <2>1, <2>2, StepsAreLocal
    <2>3. CASE u = v
      <3>1. CASE Start(v)  BY <2>1, <2>3, <3>1 DEF Start
      <3>2. CASE AddBit(v)  BY <1>0, <2>1, <2>3, <3>2 DEF AddBit, Goto
      <3>3. CASE Commit(v)  BY <1>0, <2>1, <2>3, <3>3 DEF Commit, Goto
      <3>4. CASE Unlocks(v)  BY <1>0, <1>1, <2>1, <2>3, <3>4 DEF Unlocks, Returns, Goto
      <3>5. CASE Insists(v)  BY <2>1, <2>3, <3>5 DEF Insists, Then
      <3>6. CASE Retries(v)  BY <2>1, <2>3, <3>6 DEF Retries, Then
      <3>7. CASE Locks(v)  BY <1>0, <2>1, <2>3, <3>7 DEF Locks, Locked, Goto, Locking
      <3>8. CASE GivesUp(v)  BY <1>0, <2>1, <2>3, <3>8 DEF GivesUp, NotLocked, Goto, Locking
      <3> QED  BY <3>1, <3>2, <3>3, <3>4, <3>5, <3>6, <3>7, <3>8, StepsOfVotes
    <2> QED  BY <2>2, <2>3
  <1>2. CASE owner[f] # "us"
    <2>1. ~Start(v) /\ ~AddBit(v) /\ ~Commit(v) /\ ~Insists(v)
      BY <1>2 DEF Start, AddBit, Commit, Insists
    <2>2. ~Unlocks(v) /\ ~Retries(v) /\ ~GivesUp(v)
      BY <1>0, <1>2 DEF Unlocks, Retries, GivesUp, Take
    <2>3. Locks(v)  BY <2>1, <2>2, StepsOfVotes
    <2>4. f = FileOf(v)  BY <1>2, StepsAreLocal
    <2> QED  BY <1>0, <2>3, <2>4 DEF Locks, Locked, Goto, Locking
  <1> QED  BY <1>1, <1>2

-----------------------------------------------------------------------------
(* The inductive invariant.                                                *)

LEMMA Initially == Init => IInv
  BY TypeInit DEF Init, IInv, Alone, Held, Forcing, Cleared, Owed, InFlight, Handling,
     Unlocking, Locking, Holding

LEMMA StepKeeps ==
  ASSUME IInv, NEW v \in Votes, Step(v)
  PROVE  IInv'
  BY TypeStep, AloneStep, HeldStep, ForcingStep, ClearedStep, OwedStep DEF IInv

\* Another user takes no lock of ours and changes no file.
LEMMA OtherKeeps ==
  ASSUME IInv, NEW f \in Files, OtherLocks(f)
  PROVE  IInv'
  <1> USE DEF OtherLocks, Files, IInv
  <1>0. \A g \in Files : owner'[g] = "us" <=> owner[g] = "us"
    BY DEF TypeOK
  <1>1. TypeOK'  BY TypeNext DEF Next
  <1>2. Alone'  BY DEF Alone, Apart, InFlight
  <1>3. Held'  BY <1>0 DEF Held, Apart
  <1>4. Forcing'  BY DEF Forcing, Apart, FileOf
  <1>5. Cleared'  BY <1>0 DEF Cleared
  <1>6. Owed'  BY <1>0 DEF Owed
  <1> QED  BY <1>1, <1>2, <1>3, <1>4, <1>5, <1>6

\* The process dies: nobody is in flight, and what is owed is not paid.
LEMMA CrashKeeps ==
  ASSUME IInv, Crash
  PROVE  IInv'
  <1> USE DEF Crash, IInv
  <1>0. \A v \in Votes : pc'[v] \notin Handling
    BY DEF TypeOK, InFlight, Handling, Unlocking, Locking, Holding
  <1>1. TypeOK'  BY TypeNext DEF Next
  <1>2. Alone'  BY <1>0 DEF Alone, InFlight
  <1>3. Held'  BY <1>0 DEF Held, Handling, Locking
  <1>4. Forcing'  BY DEF Forcing
  <1>5. Cleared'  BY <1>0 DEF Cleared, Handling, Locking, Unlocking
  <1>6. Owed'  BY DEF Owed
  <1> QED  BY <1>1, <1>2, <1>3, <1>4, <1>5, <1>6

LEMMA Inductive == IInv /\ [Next]_vars => IInv'
  <1> SUFFICES ASSUME IInv, [Next]_vars PROVE IInv'
    OBVIOUS
  <1>1. CASE \E v \in Votes : Step(v)  BY <1>1, StepKeeps
  <1>2. CASE \E f \in Files : OtherLocks(f)  BY <1>2, OtherKeeps
  <1>3. CASE Crash  BY <1>3, CrashKeeps
  <1>4. CASE UNCHANGED vars
    BY <1>4 DEF vars, IInv, TypeOK, Alone, Held, Forcing, Cleared, Owed, Apart, InFlight, FileOf
  <1> QED  BY <1>1, <1>2, <1>3, <1>4 DEF Next, AllVoted

LEMMA Always == Spec => []IInv
  BY Initially, Inductive, PTL DEF Spec

-----------------------------------------------------------------------------
(* What is proved.                                                         *)

\* The types: a command belongs to the function that issues it, and no vote
\* is answered that was not saved.
THEOREM TypeCorrect == Spec => []TypeOK
  <1>1. IInv => TypeOK  BY DEF IInv
  <1> QED  BY <1>1, Always, PTL

\* AddBit and CommitChanges run under both locks, while votes do not overlap.
THEOREM LocksAreHeld == Spec => []HeldWhileVoting
  <1>1. IInv => HeldWhileVoting  BY DEF IInv, Held, HeldWhileVoting, Apart, Files
  <1> QED  BY <1>1, Always, PTL

\* UnlockBitmaps leaves nothing locked, even when votes overlap.
THEOREM LocksAreReturned == Spec => []NothingLeftLocked
  <1>1. IInv => NothingLeftLocked
    BY DEF IInv, Owed, Owing, NothingLeftLocked, InFlight, Handling, Unlocking, Locking, Holding, Files
  <1> QED  BY <1>1, Always, PTL

\* LockFile refuses no vote because of what an earlier one left behind.
THEOREM VotesGetPast == Spec => LeftoversDoNotRefuse
  <1> DEFINE Fine(v) == /\ pc[v] \in Locking /\ pc'[v] \in {"refused", "rollback"}
                        /\ past' \cap {"call", "overlap"} = {}
                        => owner[FileOf(v)] # "us"
  <1>1. ASSUME IInv, [Next]_vars, NEW v \in Votes PROVE Fine(v)
    <2> SUFFICES ASSUME past' \cap {"call", "overlap"} = {}, pc[v] \in Locking
                 PROVE  owner[FileOf(v)] # "us"
      OBVIOUS
    <2>1. past \subseteq past'
      <3>1. CASE \E w \in Votes : Step(w)  BY <1>1, <3>1, StepsAreLocal DEF IInv
      <3>2. CASE ~\E w \in Votes : Step(w)
        BY <1>1, <3>2 DEF Next, OtherLocks, Crash, AllVoted, vars
      <3> QED  BY <3>1, <3>2
    <2> QED  BY <1>1, <2>1 DEF IInv, Cleared, Locking, FileOf
  <1>2. IInv /\ [Next]_vars => [\A v \in Votes : Fine(v)]_vars
    BY <1>1
  <1> QED  BY <1>2, Always, PTL DEF Spec, LeftoversDoNotRefuse

\* UnlockFile takes a lock of another user only for changes of our own.
THEOREM OthersAreLeftAlone == Spec => OthersKeepTheirLocks
  <1> DEFINE Fine(f) == /\ owner[f] = "other" /\ owner'[f] # "other"
                        /\ pc' # pc /\ "overlap" \notin past
                        => f \in dirty
  <1>1. ASSUME IInv, [Next]_vars, NEW f \in Files PROVE Fine(f)
    <2> SUFFICES ASSUME owner[f] = "other", owner'[f] # "other", pc' # pc, Apart
                 PROVE  f \in dirty
      BY DEF Apart
    <2>1. PICK v \in Votes : Step(v)
      BY <1>1 DEF Next, OtherLocks, Crash, AllVoted, vars
    <2>2. f = FileOf(v)  BY <1>1, <2>1, StepsAreLocal DEF IInv
    <2>3. Unlocks(v)
      BY <1>1, <2>1, <2>2, StepsOfVotes
      DEF IInv, Start, AddBit, Commit, Insists, Retries, Locks, GivesUp
    <2>4. cmd[v] = "force"  BY <2>2, <2>3 DEF Unlocks
    <2> QED  BY <1>1, <2>2, <2>4 DEF IInv, Forcing
  <1>2. IInv /\ [Next]_vars => [\A f \in Files : Fine(f)]_vars
    BY <1>1
  <1> QED  BY <1>2, Always, PTL DEF Spec, OthersKeepTheirLocks
=============================================================================
