------------------------------ MODULE VoteLock ------------------------------
(***************************************************************************)
(* The Git LFS locks of a vote: BitmapService.LockBitmaps, UnlockBitmaps   *)
(* (services/bitmap_service.go), GitService.LockFile and UnlockFile        *)
(* (services/git_service.go), for the two bitmaps of one record.           *)
(*                                                                         *)
(* The locks are kept by the LFS server and belong to users, and all votes *)
(* of the service are one user.  Each "git lfs" command is one atomic      *)
(* action; what it does is modelled from how the code uses it.  A command  *)
(* reads whether its file has uncommitted changes: AddBit makes them and   *)
(* CommitChanges commits them.                                             *)
(***************************************************************************)
EXTENDS Naturals, FiniteSets

CONSTANTS
    Votes,        \* the votes on the record, one run of VoteService.Vote each
    MaxInFlight,  \* how many of them are handled at a time
    OwnerShown,   \* whether the third field of "git lfs locks" is the owner
    Faults        \* what may go wrong, among AllFaults

\* "call": a command fails, perhaps after it took effect.  "commit": AddBit
\* or CommitChanges fails.  "missing": a bitmap is gone.  "crash": the process
\* dies.  "other": another user locks the files too.
AllFaults == {"call", "commit", "missing", "crash", "other"}

ASSUME MaxInFlightAssumption == MaxInFlight \in Nat \ {0}
ASSUME OwnerShownAssumption == OwnerShown \in BOOLEAN
ASSUME FaultsAssumption == Faults \subseteq AllFaults

VARIABLES
    owner,  \* who holds the lock of each file: "us", "other" or "nobody"
    dirty,  \* the files with uncommitted changes
    pc,     \* where each vote is
    cmd,    \* the command of LockFile or UnlockFile it issues next
    saved,  \* the votes whose changes CommitChanges has pushed
    past    \* history: what has happened so far, among Events

vars == <<owner, dirty, pc, cmd, saved, past>>

Files == {"bm", "bmi"}

\* A command failed, the process died, two votes were in flight.
Events == {"call", "crash", "overlap"}

Unlocking == {"clearbm", "clearbmi", "rollback", "freebm", "freebmi"}
Locking   == {"lockbm", "lockbmi"}
Holding   == {"add", "commit"}
Ended     == {"answered", "failed", "refused"}
Handling  == Unlocking \cup Locking \cup Holding
InFlight  == {v \in Votes : pc[v] \in Handling}

TypeOK ==
    /\ owner \in [Files -> {"nobody", "us", "other"}]
    /\ dirty \subseteq Files
    /\ pc \in [Votes -> {"new"} \cup Handling \cup Ended]
    /\ cmd \in [Votes -> {"first", "force", "locks", "own", "again"}]
    /\ \A v \in Votes :
          cmd[v] # "first" =>
              pc[v] \in IF cmd[v] = "force" THEN Unlocking ELSE Locking
    /\ saved \subseteq Votes
    /\ \A v \in Votes : pc[v] = "answered" => v \in saved
    /\ past \subseteq Events

Init ==
    /\ owner = [f \in Files |-> "nobody"]
    /\ dirty = {}
    /\ pc = [v \in Votes |-> "new"]
    /\ cmd = [v \in Votes |-> "first"]
    /\ saved = {}
    /\ past = {}

\* The file a vote is at.
FileOf(v) == IF pc[v] \in {"clearbm", "lockbm", "rollback", "freebm"} THEN "bm" ELSE "bmi"

\* LockFile or UnlockFile returns: the vote goes on at a label.
Goto(v, label) ==
    /\ pc' = [pc EXCEPT ![v] = label]
    /\ cmd' = [cmd EXCEPT ![v] = "first"]

\* LockFile or UnlockFile goes on with another command.
Then(v, command) ==
    /\ cmd' = [cmd EXCEPT ![v] = command]
    /\ UNCHANGED pc

-----------------------------------------------------------------------------
(* UnlockFile, whose result LockBitmaps and UnlockBitmaps only report.     *)

\* LockBitmaps unlocks both files before it checks that they exist and locks
\* them, and .bm once more when it cannot lock .bmi.  UnlockBitmaps unlocks
\* both when the vote is over.
OutcomeOptimistic(v) == "answered"
Outcome(v) == IF v \in saved THEN "answered" ELSE "failed"
Gone == IF "missing" \in Faults THEN {"failed"} ELSE {}

AfterUnlock(v) ==
    CASE pc[v] = "clearbm"  -> {"clearbmi"}
      [] pc[v] = "clearbmi" -> {"lockbm"} \cup Gone
      [] pc[v] = "rollback" -> {"refused"}
      [] pc[v] = "freebm"   -> {"freebmi"}
      [] pc[v] = "freebmi"  -> {Outcome(v)}

UnlockReturns(v) == \E label \in AfterUnlock(v) : Goto(v, label)

\* "git lfs unlock": refused when the file has uncommitted changes, or when
\* the lock is not ours; the first is answered with --force.
UnlockNeverForces(v) ==
    LET f == FileOf(v)
    IN  /\ pc[v] \in Unlocking /\ cmd[v] = "first"
        /\ owner' = IF f \notin dirty /\ owner[f] = "us"
                    THEN [owner EXCEPT ![f] = "nobody"] ELSE owner
        /\ UnlockReturns(v)
        /\ UNCHANGED <<dirty, saved, past>>
UnlockAlwaysForces(v) ==
    /\ pc[v] \in Unlocking /\ cmd[v] = "first"
    /\ Then(v, "force")
    /\ UNCHANGED <<owner, dirty, saved, past>>
Unlock(v) ==
    LET f == FileOf(v)
    IN  /\ pc[v] \in Unlocking /\ cmd[v] = "first"
        /\ \/ /\ f \in dirty
              /\ Then(v, "force")
              /\ UNCHANGED owner
           \/ /\ f \notin dirty /\ owner[f] = "us"
              /\ owner' = [owner EXCEPT ![f] = "nobody"]
              /\ UnlockReturns(v)
           \/ /\ f \notin dirty /\ owner[f] # "us"
              /\ UnlockReturns(v)
              /\ UNCHANGED owner
        /\ UNCHANGED <<dirty, saved, past>>

\* "git lfs unlock --force": the server decides whether we may take away the
\* lock of another user.
ForceUnlock(v) ==
    LET f == FileOf(v)
    IN  /\ cmd[v] = "force"
        /\ \/ /\ owner[f] # "nobody"
              /\ owner' = [owner EXCEPT ![f] = "nobody"]
              /\ UnlockReturns(v)
           \/ /\ owner[f] # "us"
              /\ UnlockReturns(v)
              /\ UNCHANGED owner
        /\ UNCHANGED <<dirty, saved, past>>

-----------------------------------------------------------------------------
(* LockFile.                                                               *)

Locked(v) == Goto(v, IF pc[v] = "lockbm" THEN "lockbmi" ELSE "add")

\* LockBitmaps unlocks .bm again when it cannot lock .bmi.
NotLockedNoRollback(v) == Goto(v, "refused")
NotLocked(v) == Goto(v, IF pc[v] = "lockbm" THEN "refused" ELSE "rollback")

Take(v) == owner' = [owner EXCEPT ![FileOf(v)] = "us"]

\* "git lfs lock"
Lock(v) ==
    /\ pc[v] \in Locking /\ cmd[v] = "first"
    /\ \/ owner[FileOf(v)] = "nobody" /\ Take(v) /\ Locked(v)
       \/ owner[FileOf(v)] # "nobody" /\ Then(v, "locks") /\ UNCHANGED owner
    /\ UNCHANGED <<dirty, saved, past>>

\* "git lfs locks": the owner is read from the first line that contains the
\* path, and the path of .bm is a part of that of .bmi.
Lines(f) == {g \in IF f = "bm" THEN Files ELSE {"bmi"} : owner[g] # "nobody"}

ListLocksWaits(v) ==
    LET lines == Lines(FileOf(v))
    IN  /\ cmd[v] = "locks"
        /\ \/ OwnerShown /\ (\E g \in lines : owner[g] = "us") /\ Then(v, "own")
           \/ /\ OwnerShown => lines = {} \/ \E g \in lines : owner[g] = "other"
              /\ Then(v, "first")
        /\ UNCHANGED <<owner, dirty, saved, past>>
ListLocks(v) ==
    LET lines == Lines(FileOf(v))
    IN  /\ cmd[v] = "locks"
        /\ \/ OwnerShown /\ (\E g \in lines : owner[g] = "us") /\ Then(v, "own")
           \/ /\ OwnerShown => lines = {} \/ \E g \in lines : owner[g] = "other"
              /\ NotLocked(v)
        /\ UNCHANGED <<owner, dirty, saved, past>>

\* Our own lock is removed, without --force, and taken again.
UnlockOwnSuffices(v) ==
    LET f == FileOf(v)
    IN  /\ cmd[v] = "own"
        /\ \/ /\ f \notin dirty /\ owner[f] = "us"
              /\ owner' = [owner EXCEPT ![f] = "nobody"]
              /\ Locked(v)
           \/ /\ f \in dirty \/ owner[f] # "us"
              /\ NotLocked(v)
              /\ UNCHANGED owner
        /\ UNCHANGED <<dirty, saved, past>>
UnlockOwn(v) ==
    LET f == FileOf(v)
    IN  /\ cmd[v] = "own"
        /\ \/ /\ f \notin dirty /\ owner[f] = "us"
              /\ owner' = [owner EXCEPT ![f] = "nobody"]
              /\ Then(v, "again")
           \/ /\ f \in dirty \/ owner[f] # "us"
              /\ NotLocked(v)
              /\ UNCHANGED owner
        /\ UNCHANGED <<dirty, saved, past>>

LockAgain(v) ==
    /\ cmd[v] = "again"
    /\ \/ owner[FileOf(v)] = "nobody" /\ Take(v) /\ Locked(v)
       \/ owner[FileOf(v)] # "nobody" /\ NotLocked(v) /\ UNCHANGED owner
    /\ UNCHANGED <<dirty, saved, past>>

-----------------------------------------------------------------------------
(* The vote.                                                               *)

Start(v) ==
    /\ pc[v] = "new" /\ Cardinality(InFlight) < MaxInFlight
    /\ Goto(v, "clearbm")
    /\ past' = IF InFlight = {} THEN past ELSE past \cup {"overlap"}
    /\ UNCHANGED <<owner, dirty, saved>>

\* AddBit writes both files; it may fail before, between or after.
AddBit(v) ==
    /\ pc[v] = "add"
    /\ \/ dirty' = Files /\ Goto(v, "commit")
       \/ /\ "commit" \in Faults
          /\ \E written \in SUBSET Files : dirty' = dirty \cup written
          /\ Goto(v, "freebm")
    /\ UNCHANGED <<owner, saved, past>>

\* CommitChanges commits the changes and pushes; it may fail before or after
\* the commit.  UnlockBitmaps is deferred: it follows in either case.
Commit(v) ==
    /\ pc[v] = "commit"
    /\ \/ dirty' = {} /\ saved' = saved \cup {v}
       \/ "commit" \in Faults /\ dirty' \in {dirty, {}} /\ UNCHANGED saved
    /\ Goto(v, "freebm")
    /\ UNCHANGED <<owner, past>>

-----------------------------------------------------------------------------
(* The environment.                                                        *)

\* A command fails: UnlockFile and LockFile return an error.  A lock that
\* was free may have been taken all the same.
CallFails(v) ==
    /\ "call" \in Faults
    /\ \/ /\ pc[v] \in Unlocking
          /\ UnlockReturns(v)
          /\ UNCHANGED owner
       \/ /\ pc[v] \in Locking
          /\ NotLocked(v)
          /\ \/ UNCHANGED owner
             \/ cmd[v] \in {"first", "again"} /\ owner[FileOf(v)] = "nobody" /\ Take(v)
    /\ past' = past \cup {"call"}
    /\ UNCHANGED <<dirty, saved>>

\* The process dies; the locks and the changes in the files stay.
Crash ==
    /\ "crash" \in Faults
    /\ pc' = [v \in Votes |-> IF v \in InFlight THEN "failed" ELSE pc[v]]
    /\ cmd' = [v \in Votes |-> "first"]
    /\ past' = past \cup {"crash"}
    /\ UNCHANGED <<owner, dirty, saved>>

\* Another user locks a file, and unlocks it.
OtherLocks(f) ==
    /\ "other" \in Faults
    /\ \/ owner[f] = "nobody" /\ owner' = [owner EXCEPT ![f] = "other"]
       \/ owner[f] = "other" /\ owner' = [owner EXCEPT ![f] = "nobody"]
    /\ UNCHANGED <<dirty, pc, cmd, saved, past>>

Step(v) ==
    \/ Start(v) \/ AddBit(v) \/ Commit(v)
    \/ Unlock(v) \/ ForceUnlock(v)
    \/ Lock(v) \/ ListLocks(v) \/ UnlockOwn(v) \/ LockAgain(v)
    \/ CallFails(v)

\* Nobody votes any more.
AllVoted == (\A v \in Votes : pc[v] \in Ended) /\ UNCHANGED vars

Next ==
    \/ \E v \in Votes : Step(v)
    \/ \E f \in Files : OtherLocks(f)
    \/ Crash
    \/ AllVoted

Spec == Init /\ [][Next]_vars

\* A vote that was started goes on: every command ends.
FairSpec == Spec /\ \A v \in Votes : WF_vars(Step(v) /\ pc[v] # "new")

-----------------------------------------------------------------------------
(* Properties.                                                             *)

\* What the code says of itself: LockBitmaps "locks the bitmap files"
\* (bitmap_service.go:175).  At most one vote is between LockBitmaps and
\* UnlockBitmaps, where it changes and commits the files.
LockExcludes == Cardinality({v \in Votes : pc[v] \in Holding}) <= 1

\* Votes that are not concurrent hold both locks while they change the
\* files, whatever locks were left behind and whichever commands failed.
HeldWhileVoting ==
    \A v \in Votes :
        pc[v] \in Holding /\ "overlap" \notin past => \A f \in Files : owner[f] = "us"

\* Locks left behind by a vote that died, and its uncommitted changes, do not
\* keep a later vote out: LockFile never refuses it because of a lock of ours.
LeftoversDoNotRefuse ==
    [][\A v \in Votes :
          /\ pc[v] \in Locking /\ pc'[v] \in {"refused", "rollback"}
          /\ past' \cap {"call", "overlap"} = {}
          => owner[FileOf(v)] # "us"]_vars

\* When no vote is in flight, no lock of ours is left, although concurrent
\* votes take and remove each other's locks, give up, or fail to commit;
\* unless a command failed or the process died.
NothingLeftLocked ==
    InFlight = {} /\ past \cap {"call", "crash"} = {} => \A f \in Files : owner[f] # "us"

\* As long as votes are not concurrent, the lock of another user is only ever
\* taken away from a file that has uncommitted changes of ours.
OthersKeepTheirLocks ==
    [][\A f \in Files :
          /\ owner[f] = "other" /\ owner'[f] # "other"
          /\ pc' # pc /\ "overlap" \notin past
          => f \in dirty]_vars

\* Every vote that starts ends: it does not take and lose its locks forever.
EveryVoteEnds == \A v \in Votes : pc[v] \in Handling ~> pc[v] \in Ended
=============================================================================
