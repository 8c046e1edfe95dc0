--------------------------- MODULE RepositoryClone ----------------------------
(***************************************************************************)
(* How the clone comes into being (services/git_service.go).               *)
(*                                                                         *)
(* There is no clone when the service starts.  Every handler begins with   *)
(* PullRepository, which clones when there is no directory and pulls when  *)
(* there is one; ProcessDelete makes the same choice itself.  A clone is a *)
(* series of steps on the directory, nothing says that it is under way,    *)
(* and no lock keeps a second request away from a half-made one.           *)
(*                                                                         *)
(* RecordStore begins where this module ends: with a whole clone.          *)
(***************************************************************************)
EXTENDS Naturals, FiniteSets

CONSTANTS
    Requests,     \* the requests the service receives
    MaxInFlight,  \* how many requests are handled at a time
    Faults        \* the faults that may occur, among AllFaults

\* "network": the remote does not answer, or the key cannot be read.
\* "crash": the process dies and is started again.
AllFaults == {"network", "crash"}

ASSUME MaxInFlightAssumption == MaxInFlight \in Nat \ {0}
ASSUME FaultsAssumption == Faults \subseteq AllFaults

VARIABLES
    dir,     \* the directory <clonePath>/icey-storage
    pc,      \* where each request is
    cleans,  \* what each clone in flight will remove when it fails
    wiped,   \* a commit removed all records it did not write from the remote
    past     \* what has happened: "overlap", "died", "halfway"

vars == <<dir, pc, cleans, wiped, past>>

\* The directory is not there, is empty, is no repository, or is a repository
\*   init     without a remote and without commits,
\*   origin   with a remote from which nothing was fetched,
\*   stray    whose HEAD is no commit of the remote, or that lost the remote,
\*   fetched  whose HEAD is one, while index and working tree are empty,
\*   indexed  with HEAD and index, and files missing from the working tree,
\*   whole    with HEAD, index and working tree.
NoHead  == {"none", "empty", "bare"}
Fetched == {"fetched", "indexed", "whole"}
Dirs    == {"init", "origin", "stray"} \cup NoHead \cup Fetched

Making   == {"make", "check", "init", "remote", "fetch", "checkout", "files"}
Cloning  == {"clone", "begin"} \cup Making
Handling == {"stat", "pull", "reset", "refill", "returned"} \cup Cloning
Ended    == {"answered", "failed", "cut"}
InFlight == {r \in Requests : pc[r] \in Handling}

TypeOK ==
    /\ dir \in Dirs
    /\ pc \in [Requests -> {"new"} \cup Handling \cup Ended]
    /\ cleans \in [Requests -> {"nothing", "contents", "all"}]
    /\ \A r \in Requests : cleans[r] # "nothing" => pc[r] \in Making
    /\ wiped \in BOOLEAN
    /\ past \subseteq {"overlap", "died", "halfway"}
    /\ Cardinality(InFlight) <= MaxInFlight

Init ==
    /\ dir = "none"
    /\ pc = [r \in Requests |-> "new"]
    /\ cleans = [r \in Requests |-> "nothing"]
    /\ wiped = FALSE
    /\ past = {}

Goto(r, label) == pc' = [pc EXCEPT ![r] = label]
history        == <<wiped, past>>

Arrive(r) ==
    /\ pc[r] = "new"
    /\ Cardinality(InFlight) < MaxInFlight
    /\ past' = IF InFlight # {} /\ dir # "whole" THEN past \cup {"overlap"} ELSE past
    /\ Goto(r, "stat")
    /\ UNCHANGED <<dir, cleans, wiped>>

-----------------------------------------------------------------------------
(* CloneRepository.                                                        *)

\* PullRepository, or ProcessDelete, looks for the directory.
StatLooksForGit(r) ==
    /\ pc[r] = "stat"
    /\ Goto(r, IF dir \in {"none", "empty", "bare"} THEN "clone" ELSE "pull")
    /\ UNCHANGED <<dir, cleans, history>>
Stat(r) ==
    /\ pc[r] = "stat"
    /\ Goto(r, IF dir = "none" THEN "clone" ELSE "pull")
    /\ UNCHANGED <<dir, cleans, history>>

\* CloneRepository looks again, and takes any directory for a clone.
StatAgain(r) ==
    /\ pc[r] = "clone"
    /\ Goto(r, IF dir = "none" THEN "begin" ELSE "returned")
    /\ UNCHANGED <<dir, cleans, history>>

\* The key cannot be read: nothing has been touched.
AuthFails(r) ==
    /\ "network" \in Faults
    /\ pc[r] = "begin"
    /\ Goto(r, "failed")
    /\ UNCHANGED <<dir, cleans, history>>

\* PlainClone looks whether the directory, or what is in it, will be its own
\* to remove: it is when there is nothing yet.
BeginKeepsDirectory(r) ==
    /\ pc[r] = "begin"
    /\ cleans' = [cleans EXCEPT ![r] =
           CASE dir \in {"none", "empty"} -> "contents" [] OTHER -> "nothing"]
    /\ Goto(r, "make")
    /\ UNCHANGED <<dir, history>>
Begin(r) ==
    /\ pc[r] = "begin"
    /\ cleans' = [cleans EXCEPT ![r] =
           CASE dir = "none" -> "all" [] dir = "empty" -> "contents" [] OTHER -> "nothing"]
    /\ Goto(r, "make")
    /\ UNCHANGED <<dir, history>>

\* PlainInit makes the directory and those in it,
MakeDirectory(r) ==
    /\ pc[r] = "make"
    /\ \/ dir = "none" /\ dir' = "empty" /\ UNCHANGED pc
       \/ dir = "empty" /\ dir' = "bare" /\ Goto(r, "check")
       \/ dir \notin {"none", "empty"} /\ Goto(r, "check") /\ UNCHANGED dir
    /\ UNCHANGED <<cleans, history>>

\* looks for a HEAD, with which PlainClone returns and removes nothing,
CheckHead(r) ==
    /\ pc[r] = "check"
    /\ \/ dir \in NoHead /\ Goto(r, "init") /\ UNCHANGED cleans
       \/ dir \notin NoHead /\ Goto(r, "failed") /\ cleans' = [cleans EXCEPT ![r] = "nothing"]
    /\ UNCHANGED <<dir, history>>

\* and writes HEAD and the configuration.  Another clone may be further by
\* then: its HEAD or its remote may be lost.
SetHead(r) ==
    /\ pc[r] = "init"
    /\ \/ dir \in NoHead \cup {"init"} /\ dir' = "init"
       \/ dir = "origin" /\ dir' \in {"origin", "init"}
       \/ dir \in Fetched \cup {"stray"} /\ dir' \in {dir, "stray"}
    /\ Goto(r, "remote")
    /\ UNCHANGED <<cleans, history>>

\* A clone that fails removes what it would have been the first to make.
CleanUpStaysArmed(r) ==
    /\ Goto(r, "failed")
    /\ dir' = CASE cleans[r] = "all" -> "none"
                 [] cleans[r] = "contents" /\ dir # "none" -> "empty"
                 [] OTHER -> dir
    /\ UNCHANGED cleans
CleanUpSkipped(r) ==
    /\ Goto(r, "failed")
    /\ cleans' = [cleans EXCEPT ![r] = "nothing"]
    /\ UNCHANGED dir
CleanUpAlways(r) ==
    /\ Goto(r, "failed")
    /\ cleans' = [cleans EXCEPT ![r] = "nothing"]
    /\ dir' = "none"
CleanUp(r) ==
    /\ Goto(r, "failed")
    /\ cleans' = [cleans EXCEPT ![r] = "nothing"]
    /\ dir' = CASE cleans[r] = "all" -> "none"
                 [] cleans[r] = "contents" /\ dir # "none" -> "empty"
                 [] OTHER -> dir

\* CreateRemote fails when the remote is there, because of another clone.
\* It writes the configuration also when all else was removed meanwhile.
AddRemote(r) ==
    /\ pc[r] = "remote"
    /\ \/ /\ \/ dir \in NoHead /\ dir' = "bare"
             \/ dir = "init" /\ dir' = "origin"
             \/ dir = "stray" /\ dir' \in Fetched \cup {"stray"}
          /\ Goto(r, "fetch")
          /\ UNCHANGED cleans
       \/ dir \in Fetched \cup {"origin", "stray"} /\ CleanUp(r)
    /\ UNCHANGED history

\* The fetch sets HEAD, whatever was committed before.  It fails when there
\* is nothing to fetch, because a pull or another clone has done so, and when
\* the remote was lost; what is removed while it fetches, it writes again.
FetchRefs(r) ==
    /\ pc[r] = "fetch"
    /\ \/ /\ \/ dir \in {"origin", "stray", "bare"} /\ dir' = "fetched"
             \/ dir \in NoHead \cup {"init"} /\ dir' = "stray"
             \/ dir \in Fetched /\ UNCHANGED dir  \* another writer has pushed since
          /\ Goto(r, "checkout")
          /\ UNCHANGED cleans
       \/ dir # "origin" /\ CleanUp(r)
    /\ UNCHANGED history

\* Worktree.Reset writes the index and then the files.  It fails without a
\* HEAD, and when another request has written the index before the files.
Checkout(r) ==
    /\ pc[r] = "checkout"
    /\ \/ /\ \/ dir = "fetched" /\ dir' = "indexed"
             \/ dir \in {"indexed", "whole"} /\ UNCHANGED dir
          /\ Goto(r, "files")
          /\ UNCHANGED cleans
       \/ dir # "fetched" /\ CleanUp(r)
    /\ UNCHANGED history

\* Last, PlainClone creates the branch; that fails when another clone has.
CheckoutFiles(r) ==
    /\ pc[r] = "files"
    /\ \/ /\ \/ dir = "fetched" /\ UNCHANGED dir
             \/ dir \in {"indexed", "whole"} /\ dir' = "whole"
          /\ Goto(r, "returned")
          /\ cleans' = [cleans EXCEPT ![r] = "nothing"]
       \/ dir # "indexed" /\ CleanUp(r)
       \/ /\ dir \in {"none", "empty"} /\ cleans[r] = "nothing"
          /\ dir' = "bare" /\ Goto(r, "failed") /\ UNCHANGED cleans
    /\ UNCHANGED history

CloneFails(r) ==
    /\ "network" \in Faults
    /\ pc[r] \in {"remote", "fetch", "checkout", "files"}
    /\ CleanUp(r)
    /\ UNCHANGED history

-----------------------------------------------------------------------------
(* PullRepository when there is a directory.                               *)

\* Without a repository, a remote or a common history the pull fails.  With
\* a remote it sets HEAD, and with a HEAD that is up to date it is done; the
\* index and the working tree are looked at only when the remote has news.
Pull(r) ==
    /\ pc[r] = "pull"
    /\ \/ dir \in NoHead \cup {"init", "stray"} /\ Goto(r, "failed") /\ UNCHANGED dir
       \/ dir = "origin" /\ Goto(r, "reset") /\ dir' = "fetched"
       \/ dir = "fetched" /\ Goto(r, "reset") /\ UNCHANGED dir   \* there is news
       \/ dir = "indexed" /\ Goto(r, "failed") /\ UNCHANGED dir  \* there is news
       \/ dir \in Fetched /\ Goto(r, "returned") /\ UNCHANGED dir
    /\ UNCHANGED <<cleans, history>>

PullFails(r) ==
    /\ "network" \in Faults
    /\ pc[r] = "pull"
    /\ Goto(r, "failed")
    /\ UNCHANGED <<dir, cleans, history>>

\* The reset of a pull writes the index and then the files.  When the
\* directory was removed meanwhile, it may leave some files; in the repository
\* of a later clone, it leaves a HEAD that is not there.
LeavesFiles == dir' \in IF dir \in {"none", "empty"} THEN {dir, "bare"} ELSE {dir}
Reset(r) ==
    /\ pc[r] = "reset"
    /\ \/ dir = "fetched" /\ Goto(r, "refill") /\ dir' = "indexed"
       \/ dir \in {"indexed", "whole"} /\ Goto(r, "refill") /\ UNCHANGED dir
       \/ dir = "indexed" /\ Goto(r, "failed") /\ UNCHANGED dir
       \/ dir \in NoHead \cup {"stray"} /\ Goto(r, "failed") /\ LeavesFiles
       \/ dir \in {"init", "origin"} /\ Goto(r, "failed") /\ dir' = "stray"
    /\ UNCHANGED <<cleans, history>>

Refill(r) ==
    /\ pc[r] = "refill"
    /\ \/ dir = "fetched" /\ Goto(r, "returned") /\ UNCHANGED dir
       \/ dir \in {"indexed", "whole"} /\ Goto(r, "returned") /\ dir' = "whole"
       \/ dir \notin Fetched /\ Goto(r, "failed") /\ LeavesFiles
    /\ UNCHANGED <<cleans, history>>

-----------------------------------------------------------------------------
(* The handler works in what PullRepository returned.                      *)

\* It reads, or it finds nothing to change.
Read(r) ==
    /\ pc[r] = "returned"
    /\ Goto(r, "answered")
    /\ UNCHANGED <<dir, cleans, history>>

\* It makes directories and files, stages and commits them and pushes.  The
\* commit has what is in the index: when that is empty, only its own files.
Commit(r) ==
    /\ pc[r] = "returned"
    /\ \/ dir \in NoHead /\ dir' = "bare" /\ Goto(r, "failed") /\ UNCHANGED wiped
       \/ dir \in {"init", "origin", "stray"} /\ dir' = "stray" /\ Goto(r, "failed")
          /\ UNCHANGED wiped
       \/ dir = "fetched" /\ dir' = "whole" /\ wiped' = TRUE /\ Goto(r, "answered")
       \/ dir \in {"indexed", "whole"} /\ Goto(r, "answered") /\ UNCHANGED <<dir, wiped>>
    /\ UNCHANGED <<cleans, past>>

\* The process dies and is started again; the directory stays as it is, with
\* HEAD and without index or files when that happens after the fetch.
Crash ==
    /\ "crash" \in Faults
    /\ InFlight # {}
    /\ pc' = [r \in Requests |-> IF r \in InFlight THEN "cut" ELSE pc[r]]
    /\ cleans' = [r \in Requests |-> "nothing"]
    /\ past' = past \cup IF dir \in {"fetched", "indexed"} THEN {"died", "halfway"} ELSE {"died"}
    /\ UNCHANGED <<dir, wiped>>

\* All requests were received and have ended.
Done == (\A r \in Requests : pc[r] \in Ended) /\ UNCHANGED vars

Step(r) ==
    \/ Stat(r) \/ StatAgain(r) \/ AuthFails(r)
    \/ Begin(r) \/ MakeDirectory(r) \/ CheckHead(r) \/ SetHead(r) \/ AddRemote(r)
    \/ FetchRefs(r) \/ Checkout(r) \/ CheckoutFiles(r) \/ CloneFails(r)
    \/ Pull(r) \/ PullFails(r) \/ Reset(r) \/ Refill(r) \/ Read(r) \/ Commit(r)

Next == (\E r \in Requests : Arrive(r) \/ Step(r)) \/ Crash \/ Done

Spec == Init /\ [][Next]_vars

-----------------------------------------------------------------------------
(* What is promised.                                                       *)

\* PullRepository returns nil with a whole clone, its handler finds it so
\* until it has ended, and no commit wipes the remote: what a failed or dead
\* clone leaves behind is never taken for one.  Two things break this: a
\* request that comes while the clone is being made, and a process that dies
\* between the fetch and the end of the checkout.
HandlersUseWhole ==
    past \subseteq {"died"} =>
        ~wiped /\ \A r \in Requests : pc[r] = "returned" => dir = "whole"

\* A clone that fails leaves nothing in the way of the next, which will find a
\* whole clone or nothing, and clone again; unless requests overlapped, or the
\* process has died.
FailuresLeaveNothing == past = {} /\ InFlight = {} => dir \in {"none", "whole"}

\* Whatever overlaps and dies, a whole clone is lost only to a request that
\* began to clone before it was whole: one that may remove the directory when
\* it fails, or that has found no HEAD and is about to write one.
WholeStays ==
    [][/\ dir = "whole"
       /\ \A r \in Requests : cleans[r] = "nothing" /\ pc[r] # "init"
       => dir' = "whole"]_vars

\* The directory is no clone, and nobody is at work in it.
Stuck ==
    /\ dir \in {"empty", "bare", "init", "stray"}
    /\ \A r \in Requests : pc[r] \notin Cloning \cup {"reset", "refill", "returned"}

\* A directory that a failed or dead request has left behind, and that is not
\* a clone, stays: no request after it repairs it or is served.
StuckStays == [][Stuck => Stuck' /\ dir' = dir]_vars
=============================================================================
