---------------------------- MODULE RecordStore -----------------------------
(***************************************************************************)
(* The records of the service and the Git clone they live in.              *)
(*                                                                         *)
(* A record is four files, .sj (content), .bm and .bmi (votes) and .dt     *)
(* (hashed token).  The handlers of /query, /commit, /delete and /vote     *)
(* share one clone of the remote repository and no lock: each pulls, works *)
(* on the files, and ends in GitService.CommitChanges (services/           *)
(* git_service.go), which stages, commits and pushes.                      *)
(*                                                                         *)
(* One action is one access to the files, the index, HEAD or the remote,   *)
(* so concurrent requests interleave between them, and a handler may stop  *)
(* between any two.  The calls into go-git that read the index or HEAD and *)
(* write it back later (Add, Remove, Commit, Pull) are a reading and a     *)
(* writing action, and a file that is written anew is emptied before.      *)
(* Only a file that is created appears with its content at once.           *)
(*                                                                         *)
(* A request that commits names the record it creates: the identifiers are *)
(* fresh (GenerateFileNamePrefix), and no request creates two records.     *)
(***************************************************************************)
EXTENDS Naturals, FiniteSets, Sequences

CONSTANTS
    Requests,     \* the requests the service receives, one run of a handler each
    Foreign,      \* records that other writers of the remote publish
    MaxInFlight,  \* how many requests are handled at a time
    Faults        \* the faults that may occur, among AllFaults

\* "abort": a handler stops between two steps, because a call fails or the
\* process dies.  "unheard": a push lands and its reply is lost.
AllFaults == {"abort", "unheard"}

ASSUME MaxInFlightAssumption == MaxInFlight \in Nat \ {0}
ASSUME FaultsAssumption == Faults \subseteq AllFaults
ASSUME ForeignAssumption == Foreign \cap Requests = {}

\* What a file holds that os.WriteFile has emptied: no votes can be read.
Emptied == {"emptied"}
ASSUME EmptiedAssumption == "emptied" \notin Requests

VARIABLES
    \* the clone and the remote
    wt,       \* the working tree
    index,    \* the staging area
    head,     \* the commit HEAD points to
    remote,   \* the commit the remote branch points to
    seen,     \* the log of the remote that refs/remotes/origin knows
    \* the handlers
    op,       \* what each request asks for
    target,   \* the record it is about
    pc,       \* where its handler is
    at,       \* the position in the list of files it works through
    held,     \* the tree it has read and not yet written back
    base,     \* the commit it has read or built and not yet made HEAD
    removed,  \* whether it has deleted any file
    mutex     \* the requests that hold BitmapService.mu

clone   == <<wt, index, head, seen>>
request == <<op, target>>
local   == <<at, held, base, removed>>
vars    == <<wt, index, head, remote, seen, op, target, pc, at, held, base,
             removed, mutex>>

Records == Requests \cup Foreign
Kinds   == {"sj", "bm", "bmi", "dt"}
Files   == Records \X Kinds
Ops     == {"query", "commit", "delete", "vote"}

\* A tree maps the files it has to the votes they record; a commit is the
\* set of requests and foreign writes in its history, and its tree.
IsTree(t)   ==
    /\ DOMAIN t \subseteq Files
    /\ \A f \in DOMAIN t : t[f] \subseteq Requests \/ t[f] = Emptied
IsCommit(c) == c.log \subseteq Records /\ IsTree(c.tree)

EmptyTree == [f \in {} |-> {}]
NoCommit  == [log |-> {}, tree |-> EmptyTree]

Only(t, S)          == [f \in DOMAIN t \cap S |-> t[f]]
Without(t, S)       == [f \in DOMAIN t \ S |-> t[f]]
Over(u, t)          == [f \in DOMAIN u \cup DOMAIN t |->
                          IF f \in DOMAIN u THEN u[f] ELSE t[f]]
With(t, f, content) == [g \in DOMAIN t \cup {f} |-> IF g = f THEN content ELSE t[g]]
FilesOf(q)          == {q} \X Kinds

\* "torn": cut off while it checked out files.
Ended    == {"succeeded", "failed", "cut", "torn"}
Handling == {"pull", "reset", "resetindex", "checkout", "pulled", "write", "remove",
             "addbit", "emptybm", "writebm", "emptybmi", "writebmi", "stage",
             "add", "commit", "move", "push"}
InFlight == {r \in Requests : pc[r] \in Handling}

TypeOK ==
    /\ IsTree(wt) /\ IsTree(index)
    /\ IsCommit(head) /\ IsCommit(remote)
    /\ seen \subseteq remote.log
    /\ op \in [Requests -> Ops]
    /\ target \in [Requests -> Records]
    /\ pc \in [Requests -> {"new"} \cup Handling \cup Ended]
    /\ at \in [Requests -> 1..Cardinality(Kinds)]
    /\ \A r \in Requests : IsTree(held[r]) /\ IsCommit(base[r])
    /\ removed \in [Requests -> BOOLEAN]
    /\ mutex \subseteq Requests /\ Cardinality(mutex) <= 1
    /\ Cardinality(InFlight) <= MaxInFlight

Init ==
    /\ wt = EmptyTree /\ index = EmptyTree
    /\ head = NoCommit /\ remote = NoCommit /\ seen = {}
    /\ op = [r \in Requests |-> "query"]
    /\ target = [r \in Requests |-> r]
    /\ pc = [r \in Requests |-> "new"]
    /\ at = [r \in Requests |-> 1]
    /\ held = [r \in Requests |-> EmptyTree]
    /\ base = [r \in Requests |-> NoCommit]
    /\ removed = [r \in Requests |-> FALSE]
    /\ mutex = {}

Goto(r, label) == pc' = [pc EXCEPT ![r] = label]

\* The handler returns: it leaves nothing behind but the clone.
Answer(r, label) ==
    /\ Goto(r, label)
    /\ at' = [at EXCEPT ![r] = 1]
    /\ held' = [held EXCEPT ![r] = EmptyTree]
    /\ base' = [base EXCEPT ![r] = NoCommit]
    /\ removed' = [removed EXCEPT ![r] = FALSE]

-----------------------------------------------------------------------------
(* Requests arrive.  The code of the request is already verified.          *)

\* A client deletes a record whose token it was given, and votes for one it
\* was shown.
Targets(r, o) ==
    CASE o = "delete" -> {q \in Requests : op[q] = "commit" /\ pc[q] = "succeeded"}
      [] o = "vote"   -> {q \in Records : <<q, "sj">> \in DOMAIN wt}
      [] OTHER        -> {r}

Arrive(r) ==
    /\ pc[r] = "new"
    /\ Cardinality(InFlight) < MaxInFlight
    /\ \E o \in Ops : \E q \in Targets(r, o) :
          /\ op' = [op EXCEPT ![r] = o]
          /\ target' = [target EXCEPT ![r] = q]
    /\ Goto(r, "pull")
    /\ UNCHANGED <<clone, remote, local, mutex>>

-----------------------------------------------------------------------------
(* PullRepository: go-git fetches, moves HEAD if that is a fast-forward,   *)
(* and then resets the index and the working tree to it (MergeReset), the  *)
(* files of the working tree one after the other.                          *)

\* HEAD has local commits, the remote has others.
Ahead    == ~(head.log \subseteq remote.log)
Behind   == ~(remote.log \subseteq head.log)
Diverged == Ahead /\ Behind

\* A tracked file was changed or is missing in the working tree.
Unstaged ==
    ~ \A f \in DOMAIN index : f \in DOMAIN wt /\ wt[f] = index[f]

FetchForce(r) ==
    /\ pc[r] = "pull"
    /\ seen' = remote.log
    /\ head' = remote
    /\ base' = [base EXCEPT ![r] = remote]
    /\ Goto(r, "reset")
    /\ UNCHANGED <<wt, index, remote, request, at, held, removed, mutex>>
FetchSkipsReset(r) ==
    /\ pc[r] = "pull" /\ ~Ahead
    /\ seen' = remote.log
    /\ head' = remote
    /\ Goto(r, "pulled")
    /\ UNCHANGED <<wt, index, remote, request, local, mutex>>
Fetch(r) ==
    /\ pc[r] = "pull"
    /\ seen' = remote.log
    /\ \/ \* already up to date
          /\ seen = remote.log /\ ~Behind
          /\ Goto(r, "pulled")
          /\ UNCHANGED <<head, local>>
       \/ \* a fast-forward
          /\ seen # remote.log \/ Behind
          /\ ~Ahead
          /\ head' = remote
          /\ base' = [base EXCEPT ![r] = remote]
          /\ Goto(r, "reset")
          /\ UNCHANGED <<at, held, removed>>
       \/ \* not a fast-forward
          /\ seen # remote.log \/ Behind
          /\ Ahead
          /\ Answer(r, "failed")
          /\ UNCHANGED head
    /\ UNCHANGED <<wt, index, remote, request, mutex>>

\* The remote does not answer.
FetchFails(r) ==
    /\ pc[r] = "pull"
    /\ Answer(r, "failed")
    /\ UNCHANGED <<clone, remote, request, mutex>>

\* The files that two trees have differently.
Changed(t, u) ==
    {f \in DOMAIN t \cup DOMAIN u :
        ~(f \in DOMAIN t /\ f \in DOMAIN u /\ t[f] = u[f])}

\* The reset is refused when it would overwrite unstaged changes; HEAD has
\* moved by then.  Otherwise it writes HEAD again and reads the index,
Reset(r) ==
    /\ pc[r] = "reset"
    /\ \/ /\ Unstaged
          /\ Answer(r, "failed")
          /\ UNCHANGED head
       \/ /\ ~Unstaged
          /\ head' = base[r]
          /\ held' = [held EXCEPT ![r] = index]
          /\ Goto(r, "resetindex")
          /\ UNCHANGED <<at, base, removed>>
    /\ UNCHANGED <<wt, index, remote, seen, request, mutex>>

\* writes the index, and goes on with the files that changed in it and that
\* the working tree has differently.  Files nobody tracks stay.
ResetIndex(r) ==
    LET tree    == base[r].tree
        changed == Changed(held[r], tree)
    IN  /\ pc[r] = "resetindex"
        /\ index' = tree
        /\ IF changed = {}
           THEN /\ held' = [held EXCEPT ![r] = EmptyTree]
                /\ base' = [base EXCEPT ![r] = NoCommit]
                /\ Goto(r, "pulled")
           ELSE /\ held' = [held EXCEPT ![r] =
                               [f \in changed \cap Changed(wt, tree) |-> {}]]
                /\ Goto(r, "checkout")
                /\ UNCHANGED base
        /\ UNCHANGED <<wt, head, seen, remote, request, at, removed, mutex>>

\* A file that left the tree is removed; one that changed is removed and then
\* written.  The files of a record come sorted by their names.
SortedBefore(kind) ==
    CASE kind = "bm"  -> {}
      [] kind = "bmi" -> {"bm"}
      [] kind = "dt"  -> {"bm", "bmi"}
      [] kind = "sj"  -> {"bm", "bmi", "dt"}

CheckOut(r) ==
    /\ pc[r] = "checkout"
    /\ \E f \in DOMAIN held[r] :
       /\ ({f[1]} \X SortedBefore(f[2])) \cap DOMAIN held[r] = {}
       /\ \/ /\ f \in DOMAIN wt
             /\ wt' = Without(wt, {f})
             /\ held' = IF f \in DOMAIN base[r].tree THEN held
                        ELSE [held EXCEPT ![r] = Without(@, {f})]
          \/ /\ f \notin DOMAIN wt
             /\ wt' = Over(Only(base[r].tree, {f}), wt)
             /\ held' = [held EXCEPT ![r] = Without(@, {f})]
    /\ UNCHANGED <<index, head, seen, remote, request, pc, at, base, removed, mutex>>

\* All are done: the index is written once more.
CheckedOut(r) ==
    /\ pc[r] = "checkout"
    /\ DOMAIN held[r] = {}
    /\ index' = base[r].tree
    /\ base' = [base EXCEPT ![r] = NoCommit]
    /\ Goto(r, "pulled")
    /\ UNCHANGED <<wt, head, seen, remote, request, at, held, removed, mutex>>

-----------------------------------------------------------------------------
(* What each handler does with the files once it has pulled.               *)

\* The file a handler is at, in the order of a list of kinds.
FileAt(r, kinds) == <<target[r], kinds[at[r]]>>

\* One more file is done: on to the next, or to the next stage of the handler.
Advance(r, kinds, next) ==
    IF at[r] < Len(kinds)
    THEN at' = [at EXCEPT ![r] = @ + 1] /\ UNCHANGED pc
    ELSE at' = [at EXCEPT ![r] = 1] /\ Goto(r, next)

\* /query answers from the working tree.  /delete looks for the .dt file and
\* checks the token; /vote checks that both bitmaps exist and locks them,
\* which may fail.
AfterPull(r) ==
    CASE op[r] = "query"  -> {"succeeded"}
      [] op[r] = "commit" -> {"write"}
      [] op[r] = "delete" ->
            IF <<target[r], "dt">> \in DOMAIN wt THEN {"remove"} ELSE {"failed"}
      [] op[r] = "vote"   ->
            IF {target[r]} \X {"bm", "bmi"} \subseteq DOMAIN wt
            THEN {"addbit", "failed"} ELSE {"failed"}

Proceed(r) ==
    /\ pc[r] = "pulled"
    /\ \E label \in AfterPull(r) : Goto(r, label)
    /\ UNCHANGED <<clone, remote, request, local, mutex>>

\* ProcessCommit writes the four files of the new record in this order.
WriteOrder == <<"sj", "bm", "bmi", "dt">>

WriteFile(r) ==
    /\ pc[r] = "write"
    /\ wt' = With(wt, FileAt(r, WriteOrder), {})
    /\ Advance(r, WriteOrder, "stage")
    /\ UNCHANGED <<index, head, seen, remote, request, held, base, removed, mutex>>

\* ProcessDelete removes the files it finds in this order; it commits only
\* if it removed any.
RemovalOrderTokenFirst == <<"dt", "sj", "bm", "bmi">>
RemovalOrderForgetsBmi == <<"sj", "bm", "dt">>
RemovalOrder == <<"sj", "bm", "bmi", "dt">>

RemoveFile(r) ==
    LET f == FileAt(r, RemovalOrder)
        any == removed[r] \/ f \in DOMAIN wt
    IN  /\ pc[r] = "remove"
        /\ wt' = Without(wt, {f})
        /\ IF at[r] = Len(RemovalOrder) /\ ~any
           THEN Answer(r, "succeeded")
           ELSE /\ removed' = [removed EXCEPT ![r] = any]
                /\ Advance(r, RemovalOrder, "stage")
                /\ UNCHANGED <<held, base>>
        /\ UNCHANGED <<index, head, seen, remote, request, mutex>>

\* AddBit reads both bitmaps under BitmapService.mu (a file that is missing
\* by now reads as an empty bitmap, one that was emptied makes it panic) and
\* writes .bm, then .bmi.
Bitmaps(r) == {target[r]} \X {"bm", "bmi"}

CanAddBit(r) ==
    pc[r] = "addbit" /\ \A f \in Bitmaps(r) \cap DOMAIN wt : wt[f] # Emptied

ReadBitmapsUnlocked(r) ==
    /\ CanAddBit(r)
    /\ held' = [held EXCEPT ![r] = Over(Only(wt, Bitmaps(r)), [f \in Bitmaps(r) |-> {}])]
    /\ Goto(r, "emptybm")
    /\ UNCHANGED <<clone, remote, request, at, base, removed, mutex>>
ReadBitmaps(r) ==
    /\ CanAddBit(r)
    /\ mutex = {}
    /\ mutex' = {r}
    /\ held' = [held EXCEPT ![r] = Over(Only(wt, Bitmaps(r)), [f \in Bitmaps(r) |-> {}])]
    /\ Goto(r, "emptybm")
    /\ UNCHANGED <<clone, remote, request, at, base, removed>>

AddBitPanics(r) ==
    /\ pc[r] = "addbit" /\ ~CanAddBit(r)
    /\ mutex = {}
    /\ Answer(r, "failed")
    /\ UNCHANGED <<clone, remote, request, mutex>>

\* os.WriteFile empties the file, which it creates when it is missing, and
\* then writes it; when it was removed in between it stays so.
EmptyBitmap(r, kind) == wt' = With(wt, <<target[r], kind>>, Emptied)
WriteBitmap(r, kind) ==
    LET f == <<target[r], kind>>
    IN  wt' = IF f \in DOMAIN wt THEN With(wt, f, held[r][f] \cup {r}) ELSE wt

EmptyBm(r) ==
    /\ pc[r] = "emptybm"
    /\ EmptyBitmap(r, "bm")
    /\ Goto(r, "writebm")
    /\ UNCHANGED <<index, head, seen, remote, request, local, mutex>>

WriteBm(r) ==
    /\ pc[r] = "writebm"
    /\ WriteBitmap(r, "bm")
    /\ Goto(r, "emptybmi")
    /\ UNCHANGED <<index, head, seen, remote, request, local, mutex>>

EmptyBmi(r) ==
    /\ pc[r] = "emptybmi"
    /\ EmptyBitmap(r, "bmi")
    /\ Goto(r, "writebmi")
    /\ UNCHANGED <<index, head, seen, remote, request, local, mutex>>

WriteBmi(r) ==
    /\ pc[r] = "writebmi"
    /\ WriteBitmap(r, "bmi")
    /\ mutex' = mutex \ {r}
    /\ held' = [held EXCEPT ![r] = EmptyTree]
    /\ Goto(r, "stage")
    /\ UNCHANGED <<index, head, seen, remote, request, at, base, removed>>

-----------------------------------------------------------------------------
(* CommitChanges: stage each file, commit, push.                           *)

\* The files each handler passes to CommitChanges.
StagedKindsForgetToken(o) ==
    IF o = "vote" THEN <<"bm", "bmi">> ELSE <<"sj", "bm", "bmi">>
StagedKindsForgetBmi(o) ==
    IF o = "vote" THEN <<"bm">> ELSE <<"sj", "bm", "bmi", "dt">>
StagedKinds(o) ==
    IF o = "vote" THEN <<"bm", "bmi">> ELSE <<"sj", "bm", "bmi", "dt">>

\* Worktree.Add and Worktree.Remove read the index ...
ReadIndex(r) ==
    /\ pc[r] = "stage"
    /\ held' = [held EXCEPT ![r] = index]
    /\ Goto(r, "add")
    /\ UNCHANGED <<clone, remote, request, at, base, removed, mutex>>

\* ... and write it back with the file added or taken out.  A file that is
\* unchanged is not written, and one that is not in the index cannot be
\* taken out of it.
WriteIndex(r) ==
    LET kinds == StagedKinds(op[r])
        f     == FileAt(r, kinds)
    IN  /\ pc[r] = "add"
        /\ \/ /\ f \in DOMAIN wt
              /\ f \in DOMAIN held[r] /\ held[r][f] = wt[f]
              /\ UNCHANGED index
           \/ /\ f \in DOMAIN wt
              /\ f \in DOMAIN held[r] => held[r][f] # wt[f]
              /\ index' = With(held[r], f, wt[f])
           \/ /\ f \notin DOMAIN wt /\ f \in DOMAIN held[r]
              /\ index' = Without(held[r], {f})
        /\ IF at[r] < Len(kinds)
           THEN at' = [at EXCEPT ![r] = @ + 1] /\ Goto(r, "stage")
           ELSE at' = [at EXCEPT ![r] = 1] /\ Goto(r, "commit")
        /\ held' = [held EXCEPT ![r] = EmptyTree]
        /\ UNCHANGED <<wt, head, seen, remote, request, base, removed, mutex>>

CannotRemove(r) ==
    LET f == FileAt(r, StagedKinds(op[r]))
    IN  /\ pc[r] = "add"
        /\ f \notin DOMAIN wt \cup DOMAIN held[r]
        /\ Answer(r, "failed")
        /\ UNCHANGED <<clone, remote, request, mutex>>

\* Worktree.Commit builds a commit of the whole index on top of HEAD, and
\* refuses an empty one ...
BuildCommitOwnFiles(r) ==
    /\ pc[r] = "commit"
    /\ base' = [base EXCEPT ![r] = [log  |-> head.log \cup {r},
                                    tree |-> Only(index, FilesOf(target[r]))]]
    /\ Goto(r, "move")
    /\ UNCHANGED <<clone, remote, request, at, held, removed, mutex>>
BuildCommit(r) ==
    /\ pc[r] = "commit"
    /\ IF index = head.tree
       THEN Answer(r, "failed")
       ELSE /\ base' = [base EXCEPT ![r] = [log |-> head.log \cup {r}, tree |-> index]]
            /\ Goto(r, "move")
            /\ UNCHANGED <<at, held, removed>>
    /\ UNCHANGED <<clone, remote, request, mutex>>

\* ... and makes it HEAD, whatever HEAD is by now.
MoveHead(r) ==
    /\ pc[r] = "move"
    /\ head' = base[r]
    /\ base' = [base EXCEPT ![r] = NoCommit]
    /\ Goto(r, "push")
    /\ UNCHANGED <<wt, index, seen, remote, request, at, held, removed, mutex>>

\* The push moves the remote to HEAD if that is a fast-forward.
Push(r) ==
    /\ pc[r] = "push"
    /\ ~Behind
    /\ remote' = head
    /\ seen' = head.log
    /\ Answer(r, "succeeded")
    /\ UNCHANGED <<wt, index, head, request, mutex>>

\* It is refused, or does not reach the remote: the commit stays in HEAD.
PushFailureIgnored(r) ==
    /\ pc[r] = "push"
    /\ Answer(r, "succeeded")
    /\ UNCHANGED <<clone, remote, request, mutex>>
PushFailsTracked(r) ==
    /\ pc[r] = "push"
    /\ seen' = head.log
    /\ Answer(r, "failed")
    /\ UNCHANGED <<wt, index, head, remote, request, mutex>>
PushFails(r) ==
    /\ pc[r] = "push"
    /\ Answer(r, "failed")
    /\ UNCHANGED <<clone, remote, request, mutex>>

\* It lands and the reply is lost.
PushUnheard(r) ==
    /\ "unheard" \in Faults
    /\ pc[r] = "push"
    /\ ~Behind
    /\ remote' = head
    /\ Answer(r, "failed")
    /\ UNCHANGED <<clone, request, mutex>>

-----------------------------------------------------------------------------
(* The environment.                                                        *)

\* A call on the files or on Git fails, or the process dies: the handler is
\* gone, its deferred Unlock has run, and the clone stays as it is.
Abort(r) ==
    /\ "abort" \in Faults
    /\ pc[r] \in Handling
    /\ Answer(r, IF pc[r] = "checkout" THEN "torn" ELSE "cut")
    /\ mutex' = mutex \ {r}
    /\ UNCHANGED <<clone, remote, request>>

\* Another writer publishes a whole record of its own.
Publish(q) ==
    /\ q \notin remote.log
    /\ remote' = [log  |-> remote.log \cup {q},
                  tree |-> Over(remote.tree, [f \in FilesOf(q) |-> {}])]
    /\ UNCHANGED <<clone, request, pc, local, mutex>>

Step(r) ==
    \/ Fetch(r) \/ FetchFails(r)
    \/ Reset(r) \/ ResetIndex(r) \/ CheckOut(r) \/ CheckedOut(r)
    \/ Proceed(r) \/ WriteFile(r) \/ RemoveFile(r)
    \/ ReadBitmaps(r) \/ AddBitPanics(r)
    \/ EmptyBm(r) \/ WriteBm(r) \/ EmptyBmi(r) \/ WriteBmi(r)
    \/ ReadIndex(r) \/ WriteIndex(r) \/ CannotRemove(r)
    \/ BuildCommit(r) \/ MoveHead(r)
    \/ Push(r) \/ PushFails(r) \/ PushUnheard(r)

\* Every request has been answered.
AllAnswered == (\A r \in Requests : pc[r] \in Ended) /\ UNCHANGED vars

Next ==
    \/ \E r \in Requests : Arrive(r) \/ Step(r) \/ Abort(r)
    \/ \E q \in Foreign : Publish(q)
    \/ AllAnswered

Spec == Init /\ [][Next]_vars

-----------------------------------------------------------------------------
(* Properties.                                                             *)

Succeeded(r, o) == op[r] = o /\ pc[r] = "succeeded"

\* A delete of q has begun to remove files.
Removing == {"remove", "stage", "add", "commit", "move", "push"}
DeletionBegun(q) ==
    \E d \in Requests :
        /\ op[d] = "delete" /\ target[d] = q
        /\ pc[d] \in Removing \cup Ended

\* A tree has whole records only.
IsWhole(tree) ==
    \A q \in Records :
        FilesOf(q) \subseteq DOMAIN tree \/ FilesOf(q) \cap DOMAIN tree = {}

\* What a request promises about a tree once CommitChanges is done.
Promised(r, tree) ==
    CASE op[r] = "commit" -> FilesOf(r) \subseteq DOMAIN tree
      [] op[r] = "delete" -> FilesOf(target[r]) \cap DOMAIN tree = {}
      [] op[r] = "vote"   -> \A f \in Bitmaps(r) : f \in DOMAIN tree /\ r \in tree[f]
      [] OTHER            -> TRUE

\* What the code says of itself: "CommitChanges stages, commits and pushes
\* changes to the Git repository" (git_service.go:364).  When /commit, /delete
\* or /vote answers success, its changes have just reached the remote.
SuccessIsPushed ==
    [][\A r \in Requests :
          pc[r] = "push" /\ pc'[r] = "succeeded" => Promised(r, remote'.tree)]_vars

\* Every handler so far has run to its end.
NobodyCut == \A r \in Requests : pc[r] \notin {"cut", "torn"}

\* The remote never holds a part of a record, whichever fetches and pushes
\* failed before.
PublishedWhole == NobodyCut => IsWhole(remote.tree)

\* What the code says of itself: "make sure that all files are committed"
\* (commit_service.go:102), also after handlers were cut off.
EveryFileCommitted == IsWhole(remote.tree)

\* A file leaves the remote only with a delete of its record: what one
\* request or another writer published is not undone by the commit of an
\* unrelated request (which commits the whole index), until a handler is cut
\* off.
PublishedStays ==
    [][\A f \in DOMAIN remote.tree \ DOMAIN remote'.tree :
          NobodyCut =>
              \E d \in remote'.log \cap Requests : op[d] = "delete" /\ target[d] = f[1]]_vars

\* A record whose commit was answered with a token, and a vote that was
\* answered, stay published until a delete of the record begins or a handler
\* is cut off.
AnsweredStaysPublished ==
    \A r \in Requests :
        /\ Succeeded(r, "commit") \/ Succeeded(r, "vote")
        /\ NobodyCut /\ ~DeletionBegun(target[r])
        => Promised(r, remote.tree)

\* A record whose delete was answered is gone from the remote and from the
\* working tree /query reads, and nothing brings it back, as long as no
\* handler is cut off.
WithdrawnStaysAway ==
    \A d \in Requests :
        Succeeded(d, "delete") /\ NobodyCut => Promised(d, remote.tree) /\ Promised(d, wt)

\* A local commit is never dropped: no pull moves HEAD away from it.
HeadKeepsCommits == [][head.log \subseteq head'.log]_vars

\* Once a commit that was not pushed meets a commit of another writer, every
\* later pull fails: the clone is wedged until someone repairs it by hand.
DivergedStaysShut ==
    [][Diverged => Diverged' /\ \A r \in Requests :
             pc[r] = "pull" => pc'[r] \in {"pull", "failed", "cut"}]_vars

\* No pull is checking out files, or was cut off when it did.
NothingTorn == \A r \in Requests : pc[r] \notin {"checkout", "torn"}

\* While any file of an owned record is on disk its .dt file is: a delete
\* that was cut off can be repeated with the same token.  So it is wherever
\* handlers are cut off, except for a pull that has written some of its files:
\* it may have begun to bring a record back whose delete was not committed.
TokenOutlivesFiles ==
    NothingTorn =>
        \A q \in Requests :
            Succeeded(q, "commit") /\ FilesOf(q) \cap DOMAIN wt # {}
                => <<q, "dt">> \in DOMAIN wt

\* PullRepository "pulls the latest code of the Git repository" and "returns
\* nil when the pull succeeded" (git_service.go:158, 165): after it the
\* working tree has every file the fetch brought, with its content, unless
\* a handler was cut off before.
PullIsLatest ==
    \A r \in Requests :
        pc[r] = "pulled" /\ NobodyCut =>
            /\ seen \subseteq head.log
            /\ \A f \in DOMAIN head.tree : f \in DOMAIN wt /\ wt[f] = head.tree[f]

\* What a request has put on disk.
Owed(r) == IF op[r] = "vote" THEN Bitmaps(r) ELSE FilesOf(r)

\* A vote on its record is writing the bitmap f, or was cut off in handling.
BeingWritten(f) ==
    \E v \in Requests :
        /\ op[v] = "vote" /\ f \in Bitmaps(v)
        /\ pc[v] \in {"cut", IF f[2] = "bm" THEN "writebm" ELSE "writebmi"}

\* What was answered is on disk, in what /query reads, until a delete of the
\* record begins: concurrent votes do not overwrite each other (AddBit's
\* mutex), and no request touches the files of another record.  The votes of
\* a file can be read but for the moment in which a later vote writes it, or
\* for good when that vote is cut off there.
AnsweredIsOnDisk ==
    \A r \in Requests :
        (Succeeded(r, "commit") \/ Succeeded(r, "vote")) /\ ~DeletionBegun(target[r]) =>
            \A f \in Owed(r) :
                /\ f \in DOMAIN wt
                /\ wt[f] = Emptied => BeingWritten(f)
                /\ op[r] = "vote" /\ wt[f] # Emptied => r \in wt[f]

-----------------------------------------------------------------------------
(* What the store implements.                                              *)

\* A record as a commit has it.
Entry(c, q) ==
    LET deleted == \E d \in c.log \cap Requests : op[d] = "delete" /\ target[d] = q
        files   == FilesOf(q) \cap DOMAIN c.tree
    IN  CASE files = FilesOf(q) -> [status |-> "live",
                                    votes  |-> c.tree[<<q, "bm">>] \cap c.tree[<<q, "bmi">>]]
          [] files = {}         -> [status |-> IF deleted THEN "withdrawn" ELSE "absent",
                                    votes  |-> {}]
          [] OTHER              -> [status |-> "broken", votes |-> {}]

Registry == INSTANCE RecordRegistry WITH
    Voters    <- Requests,
    known     <- [q \in Records |-> Entry(head, q)],
    published <- [q \in Records |-> Entry(remote, q)],
    owned     <- {q \in Requests : Succeeded(q, "commit")},
    sound     <- NobodyCut

\* One request at a time, RecordStore implements RecordRegistry: each commit
\* changes one record as a whole and nothing else, although it commits the
\* whole index; a push publishes everything known, the commits of requests
\* that failed included; a token is given out for a record that is published,
\* and a record whose token was lost with a failed push stays for ever.
ImplementsRegistry == Registry!Spec
=============================================================================
