--------------------------- MODULE RecordFateProofs ---------------------------
(***************************************************************************)
(* What becomes of a record, one request at a time: where its files can be *)
(* before it is committed, after it was answered, and after it was deleted,*)
(* whose commits take them from the remote, and that the store therefore   *)
(* implements RecordRegistry; and, whichever handlers are cut off, unless  *)
(* one is in checking out files, that the token of a record outlives its   *)
(* other files.                                                            *)
(*                                                                         *)
(* The last section is about any number of requests at a time: what was    *)
(* answered is on disk, as long as nobody else publishes and every push    *)
(* that lands is heard, so that no pull resets the working tree under the  *)
(* handlers.                                                               *)
(***************************************************************************)
EXTENDS RecordStoreProofs

\* No file of the record is anywhere, or on its way.
Gone(q) ==
    \A f \in FilesOf(q) :
        /\ f \notin DOMAIN wt /\ f \notin DOMAIN index
        /\ f \notin DOMAIN head.tree /\ f \notin DOMAIN remote.tree
        /\ \A s \in Requests : pc[s] = "move" => f \notin DOMAIN base[s].tree

\* A record that nobody has written yet.
Unborn(q) ==
    IF q \in Foreign THEN q \notin remote.log
                     ELSE op[q] # "commit" \/ pc[q] \in {"new", "pull"} \cup Pulling

\* What a commit or a vote that succeeded has left in a file.
Holds(r, t, f) == f \in DOMAIN t /\ (op[r] = "vote" => r \in t[f])

\* A handler has removed or emptied the file, and is about to write it.
Unfinished(f) ==
    \E s \in Requests :
        \/ pc[s] = "checkout" /\ f \in DOMAIN held[s]
        \/ pc[s] = "writebm" /\ f = <<target[s], "bm">>
        \/ pc[s] = "writebmi" /\ f = <<target[s], "bmi">>

\* It is everywhere, but for the moment in which it is written anew, in every
\* commit on its way, and in the bitmaps a vote has in memory.
Kept(r) ==
    \A f \in Owed(r) :
        /\ Holds(r, wt, f) \/ Unfinished(f)
        /\ Holds(r, index, f)
        /\ Holds(r, head.tree, f) /\ Holds(r, remote.tree, f)
        /\ \A s \in Requests : pc[s] = "move" => Holds(r, base[s].tree, f)
        /\ \A s \in Requests : pc[s] \in Voting /\ f \in Bitmaps(s) => Holds(r, held[s], f)

\* A delete is about a record whose token was given out.
Entitled(r) ==
    op[r] = "delete" /\ pc[r] # "new" => target[r] \in Requests /\ Succeeded(target[r], "commit")

\* A vote is about a record whose commit has ended.
Settled(r) == op[r] = "vote" /\ pc[r] # "new" /\ target[r] \in Requests => pc[target[r]] \in Ended

Answered(r) == (Succeeded(r, "commit") \/ Succeeded(r, "vote")) /\ ~DeletionBegun(target[r])

Fates ==
    NobodyCut =>
        /\ \A q \in Records : Unborn(q) => Gone(q)
        /\ \A r \in Requests : Settled(r)
        /\ \A d \in Requests : Succeeded(d, "delete") => Gone(target[d])
        /\ \A r \in Requests : Answered(r) => Kept(r)

-----------------------------------------------------------------------------
(* One step of the request in flight.                                      *)

LEMMA StepLeavesRequests ==
  ASSUME NEW r \in Requests, Step(r)
  PROVE  op' = op /\ target' = target
  BY DEF Step, Fetch, FetchFails, Reset, ResetIndex, CheckOut, CheckedOut, Proceed, WriteFile,
     RemoveFile, ReadBitmaps, CanAddBit, AddBitPanics, EmptyBm, WriteBm, EmptyBmi, WriteBmi,
     ReadIndex, WriteIndex, CannotRemove, BuildCommit, MoveHead, Push, PushFails, PushUnheard,
     request

\* The others are at rest: what they do not hold they do not get.
LEMMA OthersRest ==
  ASSUME Serial, NEW r \in Requests, Step(r), NEW s \in Requests, s # r
  PROVE  pc[s] \notin Handling /\ pc'[s] = pc[s]
  BY StepIsInFlight DEF Serial, Alone, InFlight

\* A record that is gone stays so, unless it is the one being written.
LEMMA GoneStep ==
  ASSUME Serial, NEW r \in Requests, Progress(r), Orderly(r), Step(r),
         NEW q \in Records, Gone(q), pc[r] = "write" => r # q
  PROVE  Gone(q)'
  <1> USE DEF Serial, Handlers
  <1>1. ASSUME NEW s \in Requests, s # r PROVE pc'[s] # "move"
    BY <1>1, OthersRest DEF Handling
  <1>2. SUFFICES ASSUME NEW f \in FilesOf(q)
                 PROVE  /\ f \notin DOMAIN wt' /\ f \notin DOMAIN index'
                        /\ f \notin DOMAIN head'.tree /\ f \notin DOMAIN remote'.tree
                        /\ pc'[r] = "move" => f \notin DOMAIN base'[r].tree
    BY <1>1 DEF Gone, FilesOf
  <1>3. /\ f \notin DOMAIN wt /\ f \notin DOMAIN index
        /\ f \notin DOMAIN head.tree /\ f \notin DOMAIN remote.tree
        /\ pc[r] = "move" => f \notin DOMAIN base[r].tree
    BY DEF Gone
  <1>4. CASE Fetch(r)  BY <1>3, <1>4 DEF Fetch, Goto, Answer, local
  <1>5. CASE Reset(r)  BY <1>3, <1>5 DEF Reset, Based, Goto, Answer
  <1>15. CASE ResetIndex(r) \/ CheckedOut(r)
    <2>1. base[r] = head /\ index' = head.tree /\ UNCHANGED <<wt, head, remote>> /\ pc'[r] # "move"
      BY <1>15 DEF ResetIndex, CheckedOut, Based, Goto
    <2> QED  BY <1>3, <2>1
  <1>16. CASE CheckOut(r)
    <2>1. /\ base[r] = head /\ UNCHANGED <<index, head, remote, pc>> /\ pc[r] # "move"
          /\ \E g : \/ wt' = Without(wt, {g})
                   \/ wt' = Over(Only(base[r].tree, {g}), wt)
      BY <1>16 DEF CheckOut, Based
    <2> QED  BY <1>3, <2>1 DEF Without, Over, Only
  <1>6. CASE WriteFile(r)
    <2>1. FileAt(r, WriteOrder) \notin FilesOf(q)
      BY <1>6 DEF WriteFile, Progress, FileAt, FilesOf
    <2> QED  BY <1>3, <1>6, <2>1 DEF WriteFile, With, Advance, Goto
  <1>7. CASE RemoveFile(r)
    BY <1>3, <1>7 DEF RemoveFile, Without, Advance, Goto, Answer
  <1>8. CASE EmptyBm(r) \/ WriteBm(r) \/ EmptyBmi(r) \/ WriteBmi(r)
    <2>1. FilesOf(target[r]) \subseteq DOMAIN wt /\ pc'[r] # "move"
      BY <1>8 DEF EmptyBm, WriteBm, EmptyBmi, WriteBmi, Orderly, Voting, Goto
    <2>2. \A kind \in {"bm", "bmi"} : <<target[r], kind>> # f
      BY <1>3, <2>1 DEF FilesOf, Kinds
    <2> QED
      BY <1>3, <1>8, <2>1, <2>2 DEF EmptyBm, WriteBm, EmptyBmi, WriteBmi, EmptyBitmap, WriteBitmap,
         With
  <1>9. CASE WriteIndex(r)
    <2>1. held[r] = index  BY <1>9 DEF WriteIndex, Progress
    <2> QED  BY <1>3, <1>9, <2>1 DEF WriteIndex, With, Without, Goto
  <1>10. CASE BuildCommit(r)
    BY <1>3, <1>10 DEF BuildCommit, Goto, Answer, clone
  <1>11. CASE MoveHead(r)  BY <1>3, <1>11 DEF MoveHead, Goto
  <1>12. CASE Push(r) \/ PushFails(r) \/ PushUnheard(r)
    BY <1>3, <1>12 DEF Push, PushFails, PushUnheard, Goto, Answer, clone
  <1>13. CASE Proceed(r)
    <2>1. pc'[r] \in AfterPull(r) /\ op[r] \in Ops  BY <1>13 DEF Proceed, Goto
    <2>2. pc'[r] # "move"  BY <2>1 DEF AfterPull, Ops
    <2> QED  BY <1>3, <1>13, <2>2 DEF Proceed, clone
  <1>14. CASE FetchFails(r) \/ ReadBitmaps(r) \/ AddBitPanics(r) \/ ReadIndex(r) \/ CannotRemove(r)
    BY <1>3, <1>14 DEF FetchFails, ReadBitmaps, AddBitPanics, ReadIndex, CannotRemove, Goto,
       Answer, clone
  <1> QED
    BY <1>4, <1>5, <1>6, <1>7, <1>8, <1>9, <1>10, <1>11, <1>12, <1>13, <1>14, <1>15, <1>16 DEF Step

\* What a request left stays, unless a delete is removing its record.
LEMMA KeptStep ==
  ASSUME Serial, NEW s \in Requests, Progress(s), Orderly(s), Step(s),
         NEW r \in Requests, r # s, op[r] \in {"commit", "vote"}, Kept(r), target[r] # s,
         op[r] = "commit" => target[r] = r, pc[s] = "remove" => target[s] # target[r]
  PROVE  Kept(r)'
  <1> USE DEF Serial, Handlers
  <1>1. ASSUME NEW p \in Requests, p # s
        PROVE  pc[p] \notin Handling /\ pc'[p] \notin Voting \cup {"move"}
    BY <1>1, OthersRest DEF Handling, Voting
  <1>0. /\ op' = op /\ target' = target /\ Owed(r)' = Owed(r)
        /\ \A p \in Requests : Bitmaps(p)' = Bitmaps(p)
    BY StepLeavesRequests DEF Owed, Bitmaps
  <1> DEFINE Busy1(c, h, f) == \/ c = "checkout" /\ f \in DOMAIN h
                               \/ c = "writebm" /\ f = <<target[s], "bm">>
                               \/ c = "writebmi" /\ f = <<target[s], "bmi">>
  <1>2. SUFFICES ASSUME NEW f \in Owed(r)
                 PROVE  /\ Holds(r, wt', f) \/ Busy1(pc'[s], held'[s], f)
                        /\ Holds(r, index', f)
                        /\ Holds(r, head'.tree, f) /\ Holds(r, remote'.tree, f)
                        /\ pc'[s] = "move" => Holds(r, base'[s].tree, f)
                        /\ pc'[s] \in Voting /\ f \in Bitmaps(s) => Holds(r, held'[s], f)
    BY <1>0, <1>1 DEF Kept, Holds, Unfinished
  <1>3. /\ Holds(r, wt, f) \/ Busy1(pc[s], held[s], f)
        /\ Holds(r, index, f)
        /\ Holds(r, head.tree, f) /\ Holds(r, remote.tree, f)
        /\ pc[s] = "move" => Holds(r, base[s].tree, f)
        /\ pc[s] \in Voting /\ f \in Bitmaps(s) => Holds(r, held[s], f)
    BY <1>1 DEF Kept, Unfinished, Handling
  <1>15. f \in FilesOf(target[r])
    BY DEF Owed, Bitmaps, FilesOf, Kinds
  <1> USE DEF Voting
  <1>4. CASE Fetch(s)
    BY <1>3, <1>4 DEF Fetch, Goto, Answer, local
  <1>5. CASE Reset(s)
    BY <1>3, <1>5 DEF Reset, Based, Goto, Answer
  <1>16. CASE ResetIndex(s) \/ CheckedOut(s)
    <2>1. base[s] = head /\ index' = head.tree /\ UNCHANGED <<wt, head, remote>>
          /\ pc'[s] \in {"pulled", "checkout"} /\ Holds(r, wt, f)
      BY <1>3, <1>16 DEF ResetIndex, CheckedOut, Based, Goto
    <2> QED  BY <1>3, <2>1
  <1>17. CASE CheckOut(s)
    <2>1. /\ base[s] = head /\ UNCHANGED <<index, head, remote, pc>> /\ pc[s] = "checkout"
          /\ f \in DOMAIN head.tree
      BY <1>3, <1>17 DEF CheckOut, Based, Holds
    <2>2. PICK g : \/ /\ wt' = Without(wt, {g})
                      /\ held'[s] = IF g \in DOMAIN head.tree THEN held[s] ELSE Without(held[s], {g})
                      /\ g \in DOMAIN held[s]
                   \/ /\ wt' = Over(Only(head.tree, {g}), wt)
                      /\ held'[s] = Without(held[s], {g})
      BY <1>17, <2>1 DEF CheckOut
    <2>3. Holds(r, wt', f) \/ f \in DOMAIN held'[s]
      <3>1. CASE f = g  BY <1>3, <2>1, <2>2, <3>1 DEF Without, Over, Only, Holds
      <3>2. CASE f # g
        <4>1. f \in DOMAIN held[s] => f \in DOMAIN held'[s]
          BY <2>2, <3>2 DEF Without
        <4>2. f \in DOMAIN wt => f \in DOMAIN wt' /\ wt'[f] = wt[f]
          BY <2>2, <3>2 DEF Without, Over, Only
        <4> QED  BY <1>3, <2>1, <4>1, <4>2 DEF Holds
      <3> QED  BY <3>1, <3>2
    <2> QED  BY <1>3, <2>1, <2>3
  <1>6. CASE WriteFile(s)
    <2>1. FileAt(s, WriteOrder) # f
      BY <1>6, <1>15 DEF WriteFile, Progress, FileAt, FilesOf
    <2>2. Holds(r, wt', f)  BY <1>3, <1>6, <2>1 DEF WriteFile, With, Holds
    <2> QED  BY <1>3, <1>6, <2>2 DEF WriteFile, Advance, Goto
  <1>7. CASE RemoveFile(s)
    <2>1. FileAt(s, RemovalOrder) # f
      BY <1>7, <1>15 DEF RemoveFile, FileAt, FilesOf
    <2>2. Holds(r, wt', f)  BY <1>3, <1>7, <2>1 DEF RemoveFile, Without, Holds
    <2> QED  BY <1>3, <1>7, <2>2 DEF RemoveFile, Advance, Goto, Answer
  <1>18. CASE ReadBitmaps(s)
    <2>1. /\ Holds(r, wt, f) /\ UNCHANGED <<wt, index, head, remote, base>> /\ pc'[s] = "emptybm"
          /\ held'[s] = Over(Only(wt, Bitmaps(s)), [g \in Bitmaps(s) |-> {}])
      BY <1>3, <1>18 DEF ReadBitmaps, CanAddBit, Goto, clone
    <2>2. f \in Bitmaps(s) => Holds(r, held'[s], f)
      BY <2>1 DEF Over, Only, Holds
    <2> QED  BY <1>3, <2>1, <2>2
  <1>8. CASE EmptyBm(s) \/ EmptyBmi(s)
    <2>1. PICK kind \in {"bm", "bmi"} :
             /\ EmptyBitmap(s, kind)
             /\ pc'[s] = IF kind = "bm" THEN "writebm" ELSE "writebmi"
      BY <1>8 DEF EmptyBm, EmptyBmi, Goto
    <2>2. /\ UNCHANGED <<index, head, remote, held, base>>
          /\ pc[s] \in {"emptybm", "emptybmi"} /\ Holds(r, wt, f)
      BY <1>3, <1>8 DEF EmptyBm, EmptyBmi, local
    <2>3. Holds(r, wt', f) \/ f = <<target[s], kind>>
      BY <2>1, <2>2 DEF EmptyBitmap, With, Holds
    <2> QED  BY <1>3, <2>1, <2>2, <2>3
  <1>19. CASE WriteBm(s) \/ WriteBmi(s)
    <2>1. PICK kind \in {"bm", "bmi"} :
             /\ WriteBitmap(s, kind) /\ <<target[s], kind>> \in DOMAIN wt
             /\ Holds(r, wt, f) \/ f = <<target[s], kind>>
      BY <1>3, <1>19 DEF WriteBm, WriteBmi, Progress
    <2>2. f = <<target[s], kind>> => Holds(r, held[s], f)
      BY <1>3, <1>19 DEF WriteBm, WriteBmi, Bitmaps
    <2>3. Holds(r, wt', f)
      BY <2>1, <2>2 DEF WriteBitmap, With, Holds
    <2> QED  BY <1>3, <1>19, <2>3 DEF WriteBm, WriteBmi, Goto, local
  <1>9. CASE WriteIndex(s)
    <2>1. held[s] = index /\ Holds(r, wt, f)  BY <1>3, <1>9 DEF WriteIndex, Progress
    <2>2. Holds(r, index', f)
      BY <1>3, <1>9, <2>1 DEF WriteIndex, With, Without, Holds
    <2> QED  BY <1>3, <1>9, <2>1, <2>2 DEF WriteIndex, Goto
  <1>10. CASE BuildCommit(s)
    BY <1>3, <1>10 DEF BuildCommit, Goto, Answer, clone
  <1>11. CASE MoveHead(s)  BY <1>3, <1>11 DEF MoveHead, Goto
  <1>12. CASE Push(s) \/ PushFails(s) \/ PushUnheard(s)
    BY <1>3, <1>12 DEF Push, PushFails, PushUnheard, Goto, Answer, clone
  <1>13. CASE Proceed(s)
    <2>1. pc'[s] \in AfterPull(s) /\ op[s] \in Ops  BY <1>13 DEF Proceed, Goto
    <2>2. pc'[s] \notin Voting \cup {"move"}  BY <2>1 DEF AfterPull, Ops
    <2> QED  BY <1>3, <1>13, <2>2 DEF Proceed, clone
  <1>14. CASE FetchFails(s) \/ AddBitPanics(s) \/ ReadIndex(s) \/ CannotRemove(s)
    BY <1>3, <1>14 DEF FetchFails, AddBitPanics, ReadIndex, CannotRemove, Goto, Answer, clone
  <1> QED
    BY <1>4, <1>5, <1>6, <1>7, <1>8, <1>9, <1>10, <1>11, <1>12, <1>13, <1>14, <1>16, <1>17, <1>18,
       <1>19 DEF Step

-----------------------------------------------------------------------------
(* Every step.                                                             *)

\* What has come keeps its name, and what has ended has ended.
LEMMA EndedStays ==
  ASSUME Handlers, [Next]_vars, NEW r \in Requests
  PROVE  /\ pc[r] # "new" => op'[r] = op[r] /\ target'[r] = target[r] /\ pc'[r] # "new"
         /\ pc[r] \in Ended => pc'[r] = pc[r]
  <1> USE DEF Handlers, Goto, Ended
  <1>1. ASSUME NEW s \in Requests, Arrive(s)
        PROVE  /\ pc[r] # "new" => op'[r] = op[r] /\ target'[r] = target[r] /\ pc'[r] # "new"
               /\ pc[r] \in Ended => pc'[r] = pc[r]
    BY <1>1 DEF Arrive
  <1>2. ASSUME NEW s \in Requests, Step(s)
        PROVE  /\ pc[r] # "new" => op'[r] = op[r] /\ target'[r] = target[r] /\ pc'[r] # "new"
               /\ pc[r] \in Ended => pc'[r] = pc[r]
    <2>1. op' = op /\ target' = target  BY <1>2, StepLeavesRequests
    <2>2. CASE s # r  BY <1>2, <2>1, <2>2, StepIsInFlight
    <2>3. CASE s = r
      <3>1. pc[r] \in Handling  BY <1>2, <2>3, StepIsInFlight DEF InFlight
      <3>2. pc'[r] # "new"
        <4>1. CASE Proceed(r)
          <5>1. pc'[r] \in AfterPull(r) /\ op[r] \in Ops  BY <4>1 DEF Proceed
          <5> QED  BY <5>1 DEF AfterPull, Ops
        <4>2. CASE ~Proceed(r)
          BY <1>2, <2>3, <3>1, <4>2 DEF Step, Fetch, FetchFails, Reset, ResetIndex, CheckOut,
             CheckedOut, WriteFile, RemoveFile, ReadBitmaps, CanAddBit, AddBitPanics, EmptyBm,
             WriteBm, EmptyBmi, WriteBmi, ReadIndex, WriteIndex, CannotRemove, BuildCommit,
             MoveHead, Push, PushFails, PushUnheard, Advance, Answer, Handling
        <4> QED  BY <4>1, <4>2
      <3> QED  BY <2>1, <3>1, <3>2 DEF Handling
    <2> QED  BY <2>2, <2>3
  <1>3. ASSUME NEW s \in Requests, Abort(s)
        PROVE  /\ pc[r] # "new" => op'[r] = op[r] /\ target'[r] = target[r] /\ pc'[r] # "new"
               /\ pc[r] \in Ended => pc'[r] = pc[r]
    BY <1>3 DEF Abort, Answer, Handling, request
  <1> QED  BY <1>1, <1>2, <1>3 DEF Next, Publish, AllAnswered, vars, request

LEMMA EntitledNext ==
  ASSUME Handlers, \A r \in Requests : Entitled(r), [Next]_vars
  PROVE  \A r \in Requests : Entitled(r)'
  <1> SUFFICES ASSUME NEW r \in Requests PROVE Entitled(r)'
    OBVIOUS
  <1>1. \A q \in Requests : Succeeded(q, "commit") => Succeeded(q, "commit")'
    BY EndedStays DEF Succeeded, Ended
  <1>2. CASE pc[r] # "new"
    BY <1>1, <1>2, EndedStays DEF Entitled
  <1>3. CASE pc[r] = "new"
    <2>1. CASE Arrive(r)
      <3>1. PICK o \in Ops : \E q \in Targets(r, o) : /\ op' = [op EXCEPT ![r] = o]
                                                      /\ target' = [target EXCEPT ![r] = q]
        BY <2>1 DEF Arrive
      <3>2. op'[r] = "delete" => target'[r] \in Requests /\ Succeeded(target'[r], "commit")
        BY <3>1 DEF Targets, Handlers, Succeeded
      <3> QED  BY <1>1, <3>2 DEF Entitled
    <2>2. CASE ~Arrive(r)
      <3>1. pc'[r] = "new"
        <4>1. ASSUME NEW s \in Requests, Arrive(s) \/ Step(s) \/ Abort(s) PROVE pc'[r] = "new"
          <5>1. s # r
            BY <1>3, <2>2, <4>1, StepIsInFlight DEF Abort, InFlight, Handling
          <5> QED  BY <1>3, <4>1, <5>1, StepIsInFlight DEF Arrive, Abort, Answer, Goto, Handlers
        <4> QED  BY <1>3, <4>1 DEF Next, Publish, AllAnswered, vars
      <3> QED  BY <3>1 DEF Entitled
    <2> QED  BY <2>1, <2>2
  <1> QED  BY <1>2, <1>3

-----------------------------------------------------------------------------
(* Success, when nobody was cut off.                                       *)

\* Only a push makes a commit, a delete or a vote succeed: a delete that has
\* come as far as removing files has found one.
LEMMA SuccessIsAPush ==
  ASSUME Serial, NEW r \in Requests, Progress(r), Orderly(r), Step(r),
         pc'[r] = "succeeded", op[r] # "query"
  PROVE  Push(r)
  <1> USE DEF Serial, Handlers, Goto, Answer
  <1>1. ~RemoveFile(r)
    <2> SUFFICES ASSUME RemoveFile(r) PROVE FALSE
      OBVIOUS
    <2>1. removed[r] \/ (at[r] = 1 /\ <<target[r], "sj">> \in DOMAIN wt)
      BY DEF RemoveFile, Orderly
    <2>2. removed[r] \/ FileAt(r, RemovalOrder) \in DOMAIN wt
      BY <2>1 DEF FileAt, RemovalOrder
    <2>3. Advance(r, RemovalOrder, "stage") /\ pc[r] = "remove"
      BY <2>2 DEF RemoveFile
    <2> QED  BY <2>3 DEF Advance
  <1>2. ~Proceed(r)
    <2> SUFFICES ASSUME Proceed(r) PROVE FALSE
      OBVIOUS
    <2>1. pc'[r] \in AfterPull(r) /\ op[r] \in Ops  BY DEF Proceed
    <2> QED  BY <2>1 DEF AfterPull, Ops
  <1> QED
    BY <1>1, <1>2 DEF Step, Fetch, FetchFails, Reset, ResetIndex, CheckOut, CheckedOut, WriteFile,
       Advance, ReadBitmaps, CanAddBit, AddBitPanics, EmptyBm, WriteBm, EmptyBmi, WriteBmi,
       ReadIndex, WriteIndex, CannotRemove, BuildCommit, MoveHead, PushFails, PushUnheard

\* Then all stores are alike, and have what was asked for.
LEMMA PushedEverywhere ==
  ASSUME Serial, NEW r \in Requests, Progress(r), Sound(r), Push(r)
  PROVE  /\ Promised(r, head.tree)
         /\ UNCHANGED <<wt, index, head, op, target>> /\ remote' = head
         /\ \A f : /\ Alike(wt, head.tree, f)
                   /\ Alike(index, head.tree, f)
         /\ \A s \in Requests : pc'[s] \notin Voting \cup {"move"}
  <1>1. Promised(r, head.tree)  BY DEF Progress, Push
  <1>2. UNCHANGED <<wt, index, head, op, target>> /\ remote' = head
    BY DEF Push, request
  <1>3. Level  BY DEF Sound, Push, Busy, Changing, Staging, Voting
  <1>4. ASSUME NEW s \in Requests PROVE pc'[s] \notin Voting \cup {"move"}
    <2>1. CASE s = r  BY <2>1 DEF Push, Answer, Goto, Serial, Handlers, Voting
    <2>2. CASE s # r
      <3>1. Step(r)  BY DEF Step
      <3> QED  BY <2>2, <3>1, OthersRest DEF Handling, Voting
    <2> QED  BY <2>1, <2>2
  <1> QED  BY <1>1, <1>2, <1>3, <1>4 DEF Level, Alike

LEMMA DeletedIsGone ==
  ASSUME Serial, NEW r \in Requests, Progress(r), Sound(r), Push(r), op[r] = "delete"
  PROVE  Gone(target[r])'
  BY PushedEverywhere DEF Gone, Promised, Alike, FilesOf

LEMMA AnsweredIsKept ==
  ASSUME Serial, NEW r \in Requests, Progress(r), Sound(r), Push(r), op[r] \in {"commit", "vote"}
  PROVE  Kept(r)'
  <1>1. Owed(r)' = Owed(r) /\ op' = op
    BY PushedEverywhere DEF Owed, Bitmaps
  <1>2. ASSUME NEW f \in Owed(r)
        PROVE  Holds(r, head.tree, f) /\ Holds(r, wt, f) /\ Holds(r, index, f)
    BY <1>2, PushedEverywhere DEF Owed, Promised, Alike, Holds
  <1> QED  BY <1>1, <1>2, PushedEverywhere DEF Kept, Holds

-----------------------------------------------------------------------------
(* The fates of records.                                                   *)

LEMMA FatesStep ==
  ASSUME OneAtATime, \A s \in Requests : Entitled(s), Fates,
         NEW r \in Requests, Step(r)
  PROVE  Fates'
  <1> SUFFICES ASSUME NobodyCut' PROVE Fates'
    BY DEF Fates
  <1> USE DEF OneAtATime
  <1>1. /\ r \in InFlight /\ pc[r] \in Handling
        /\ \A s \in Requests \ {r} : pc'[s] = pc[s] /\ pc[s] \notin Handling
        /\ op' = op /\ target' = target
    BY StepIsInFlight, StepLeavesRequests, OthersRest DEF Serial, InFlight
  <1>2. NobodyCut
    BY <1>1 DEF NobodyCut, Handling
  <1>3. Serial /\ Progress(r) /\ Orderly(r) /\ Sound(r)
    BY <1>1, <1>2, SoundInFlight DEF Serial, Tidy
  <1>4. [Next]_vars  BY DEF Next
  <1>5. ASSUME NEW q \in Records, Unborn(q)' PROVE Gone(q)'
    <2>1. CASE q \in Foreign
      <3>1. remote.log \subseteq remote'.log  BY <1>3, LogsStep
      <3>2. Gone(q)  BY <1>2, <1>5, <2>1, <3>1 DEF Fates, Unborn
      <3>3. r # q  BY <2>1, ForeignAssumption
      <3> QED  BY <1>3, <3>2, <3>3, GoneStep
    <2>2. CASE q \notin Foreign
      <3>1. ASSUME op[r] = "commit", pc'[r] \in {"new", "pull"} \cup Pulling
            PROVE  pc[r] \in {"new", "pull"} \cup Pulling
        BY <3>1, <1>3 DEF Step, Fetch, FetchFails, Reset, ResetIndex, CheckOut, CheckedOut,
           Proceed, AfterPull, WriteFile, RemoveFile, ReadBitmaps, CanAddBit, AddBitPanics,
           EmptyBm, WriteBm, EmptyBmi, WriteBmi, ReadIndex, WriteIndex, CannotRemove, BuildCommit,
           MoveHead, Push, PushFails, PushUnheard, Advance, Answer, Goto, Serial, Handlers,
           Pulling
      <3>2. Unborn(q)
        BY <1>1, <1>5, <2>2, <3>1 DEF Unborn, Records
      <3>3. Gone(q)  BY <1>2, <3>2 DEF Fates
      <3>4. pc[r] = "write" => r # q
        BY <1>3, <2>2, <3>2 DEF Progress, Unborn, Pulling
      <3> QED  BY <1>3, <3>3, <3>4, GoneStep
    <2> QED  BY <2>1, <2>2
  <1>6. ASSUME NEW s \in Requests PROVE Settled(s)'
    <2>1. pc'[s] # "new" => pc[s] # "new"
      BY <1>1 DEF Handling
    <2> QED  BY <1>1, <1>2, <1>3, <1>4, <2>1, EndedStays DEF Fates, Settled, Serial
  <1>7. ASSUME NEW d \in Requests, Succeeded(d, "delete")' PROVE Gone(target[d])'
    <2>1. CASE d = r
      <3>1. Push(r)
        BY <1>1, <1>3, <1>7, <2>1, SuccessIsAPush DEF Succeeded
      <3> QED  BY <1>1, <1>3, <1>7, <2>1, <3>1, DeletedIsGone DEF Succeeded
    <2>2. CASE d # r
      <3>1. Succeeded(d, "delete")  BY <1>1, <1>7, <2>2 DEF Succeeded
      <3>2. Gone(target[d])  BY <1>2, <3>1 DEF Fates
      <3>3. target[d] \in Requests /\ pc[target[d]] = "succeeded"
        BY <3>1 DEF Entitled, Succeeded
      <3>4. target[d] \in Records /\ r # target[d]
        BY <1>1, <3>3 DEF Records, Handling
      <3>5. \A q \in Records : Gone(q) /\ r # q => Gone(q)'
        BY <1>3, GoneStep
      <3>6. Gone(target[d])'  BY <1>1, <3>2, <3>4, <3>5 DEF Gone
      <3> QED  BY <3>6
    <2> QED  BY <2>1, <2>2
  <1>8. ASSUME NEW s \in Requests, Answered(s)' PROVE Kept(s)'
    <2>1. CASE s = r
      <3>1. Push(r) /\ op[r] \in {"commit", "vote"}
        BY <1>1, <1>3, <1>8, <2>1, SuccessIsAPush DEF Answered, Succeeded
      <3> QED  BY <1>3, <2>1, <3>1, AnsweredIsKept
    <2>2. CASE s # r
      <3>1. ASSUME op[r] = "delete", pc[r] \in Removing PROVE pc'[r] \in Removing \cup Ended
        BY <1>3, <3>1 DEF Step, Fetch, FetchFails, Reset, ResetIndex, CheckOut, CheckedOut,
           Proceed, WriteFile, RemoveFile, ReadBitmaps, CanAddBit, AddBitPanics, EmptyBm, WriteBm,
           EmptyBmi, WriteBmi, ReadIndex, WriteIndex, CannotRemove, BuildCommit, MoveHead, Push,
           PushFails, PushUnheard, Advance, Answer, Goto, Serial, Handlers, Removing, Ended
      <3>2. Answered(s)
        <4>1. DeletionBegun(target[s]) => DeletionBegun(target[s])'
          BY <1>1, <3>1 DEF DeletionBegun, Handling, Ended
        <4> QED  BY <1>1, <1>8, <2>2, <4>1 DEF Answered, Succeeded
      <3>3. Kept(s)  BY <1>2, <3>2 DEF Fates
      <3>4. op[s] \in {"commit", "vote"} /\ pc[s] = "succeeded"
        BY <3>2 DEF Answered, Succeeded
      <3>5. op[s] = "commit" => target[s] = s  BY DEF Progress
      <3>6. target[s] # r
        <4>1. CASE op[s] = "commit"  BY <2>2, <3>5, <4>1
        <4>2. CASE op[s] = "vote"
          BY <1>1, <1>2, <3>4, <4>2 DEF Fates, Settled, Ended, Handling
        <4> QED  BY <3>4, <4>1, <4>2
      <3>7. pc[r] = "remove" => target[r] # target[s]
        BY <1>3, <3>2 DEF Progress, Answered, DeletionBegun, Removing
      <3> QED  BY <1>3, <2>2, <3>3, <3>4, <3>5, <3>6, <3>7, KeptStep
    <2> QED  BY <2>1, <2>2
  <1> QED  BY <1>5, <1>6, <1>7, <1>8 DEF Fates

LEMMA FatesNext ==
  ASSUME OneAtATime, OneAtATime', \A s \in Requests : Entitled(s), Fates,
         [Next]_vars
  PROVE  Fates'
  <1> SUFFICES ASSUME NobodyCut' PROVE Fates'
    BY DEF Fates
  <1> USE DEF OneAtATime, Serial, Handlers
  <1>1. ASSUME NEW r \in Requests, Step(r) PROVE Fates'
    BY <1>1, FatesStep
  <1>2. ASSUME NEW r \in Requests, Arrive(r) PROVE Fates'
    <2>1. /\ pc[r] = "new" /\ pc' = [pc EXCEPT ![r] = "pull"]
          /\ UNCHANGED <<wt, index, head, remote, held, base>>
          /\ \A s \in Requests \ {r} : op'[s] = op[s] /\ target'[s] = target[s]
      BY <1>2 DEF Arrive, Goto, clone, local
    <2>2. NobodyCut
      BY <2>1 DEF NobodyCut
    <2>3. \A s \in Requests \ {r} : pc[s] \in {"new"} \cup Ended
      BY <2>1 DEF Alone, InFlight, Handling
    <2>4. \A q \in Records : Gone(q) => Gone(q)'
      BY <2>1 DEF Gone, FilesOf
    <2>5. ASSUME NEW s \in Requests \ {r}, Kept(s) PROVE Kept(s)'
      <3>1. Owed(s)' = Owed(s) /\ op'[s] = op[s]  BY <2>1 DEF Owed, Bitmaps
      <3>2. ASSUME NEW f, Unfinished(f) PROVE Unfinished(f)'
        BY <2>1, <3>2 DEF Unfinished
      <3>3. ASSUME NEW p \in Requests, pc'[p] \in Voting \cup {"move"}
            PROVE  p # r
        BY <2>1, <3>3 DEF Voting
      <3>4. \A p \in Requests \ {r} : Bitmaps(p)' = Bitmaps(p) /\ pc'[p] = pc[p]
        BY <2>1 DEF Bitmaps
      <3> QED  BY <2>1, <2>5, <3>1, <3>2, <3>3, <3>4 DEF Kept, Holds
    <2>6. ASSUME NEW q \in Records, Unborn(q)' PROVE Gone(q)'
      <3>1. Unborn(q)  BY <2>1, <2>6 DEF Unborn, Records, Pulling
      <3> QED  BY <2>2, <2>4, <3>1 DEF Fates
    <2>7. ASSUME NEW s \in Requests PROVE Settled(s)'
      <3>1. CASE s # r
        <4>1. Settled(s)  BY <2>2 DEF Fates
        <4> QED  BY <2>1, <3>1, <4>1 DEF Settled, Ended
      <3>2. CASE s = r
        <4> SUFFICES ASSUME op'[r] = "vote", target'[r] \in Requests
                     PROVE  pc'[target'[r]] \in Ended
          BY <3>2 DEF Settled
        <4>1. PICK o \in Ops : \E q \in Targets(r, o) : /\ op' = [op EXCEPT ![r] = o]
                                                        /\ target' = [target EXCEPT ![r] = q]
          BY <1>2 DEF Arrive
        <4>2. <<target'[r], "sj">> \in DOMAIN wt /\ target'[r] \in Records
          BY <4>1 DEF Targets
        <4>3. ~Unborn(target'[r])
          BY <2>2, <4>2 DEF Fates, Gone, FilesOf, Kinds
        <4>4. pc[target'[r]] # "new" /\ target'[r] # r
          BY <2>1, <4>3, ForeignAssumption DEF Unborn
        <4> QED  BY <2>1, <2>3, <4>4
      <3> QED  BY <3>1, <3>2
    <2>8. ASSUME NEW d \in Requests, Succeeded(d, "delete")' PROVE Gone(target[d])'
      <3>1. d # r /\ Succeeded(d, "delete") /\ target'[d] = target[d]
        BY <2>1, <2>8 DEF Succeeded
      <3>2. Gone(target[d])  BY <2>2, <3>1 DEF Fates
      <3> QED  BY <2>1, <3>1, <3>2 DEF Gone
    <2>9. ASSUME NEW s \in Requests, Answered(s)' PROVE Kept(s)'
      <3>1. s # r /\ op'[s] = op[s] /\ pc[s] = "succeeded" /\ target'[s] = target[s]
        BY <2>1, <2>9 DEF Answered, Succeeded
      <3>2. DeletionBegun(target[s]) => DeletionBegun(target[s])'
        <4> SUFFICES ASSUME NEW d \in Requests, op[d] = "delete", target[d] = target[s],
                            pc[d] \in Removing \cup Ended
                     PROVE  DeletionBegun(target[s])'
          BY DEF DeletionBegun
        <4>1. d # r  BY <2>1 DEF Removing, Ended
        <4> QED  BY <2>1, <3>1, <4>1 DEF DeletionBegun
      <3>3. Answered(s)
        BY <2>1, <2>9, <3>1, <3>2 DEF Answered, Succeeded
      <3> QED  BY <2>2, <2>5, <3>1, <3>3 DEF Fates
    <2> QED  BY <2>6, <2>7, <2>8, <2>9 DEF Fates
  <1>3. ASSUME NEW r \in Requests, Abort(r) PROVE FALSE
    BY <1>3 DEF Abort, Answer, Goto, NobodyCut
  <1>4. ASSUME NEW q \in Foreign, Publish(q) PROVE Fates'
    <2>1. /\ UNCHANGED <<wt, index, head, held, base, pc, op, target>> /\ q \notin remote.log
          /\ remote'.log = remote.log \cup {q}
          /\ remote'.tree = Over(remote.tree, [f \in FilesOf(q) |-> {}])
      BY <1>4 DEF Publish, clone, request, local
    <2>2. NobodyCut  BY <2>1 DEF NobodyCut
    <2>3. \A p \in Records : p # q /\ Gone(p) => Gone(p)'
      BY <2>1 DEF Gone, Over, FilesOf
    <2>4. \A s \in Requests : Kept(s) => Kept(s)'
      BY <2>1 DEF Kept, Owed, Holds, Bitmaps, Over, Unfinished
    <2>5. ASSUME NEW p \in Records, Unborn(p)' PROVE Gone(p)'
      <3>1. p # q /\ Unborn(p)  BY <2>1, <2>5 DEF Unborn
      <3> QED  BY <2>2, <2>3, <3>1 DEF Fates
    <2>6. \A s \in Requests : Settled(s)'
      BY <2>1, <2>2 DEF Fates, Settled
    <2>7. ASSUME NEW d \in Requests, Succeeded(d, "delete")' PROVE Gone(target[d])'
      <3>1. Succeeded(d, "delete")  BY <2>1, <2>7 DEF Succeeded
      <3>2. target[d] \in Requests  BY <3>1 DEF Entitled, Succeeded
      <3>3. Gone(target[d]) /\ target[d] # q /\ target[d] \in Records
        BY <2>2, <3>1, <3>2, ForeignAssumption DEF Fates, Records
      <3>4. target'[d] = target[d]  BY <2>1
      <3> QED  BY <2>1, <3>3 DEF Gone, Over, FilesOf
    <2>8. ASSUME NEW s \in Requests, Answered(s)' PROVE Kept(s)'
      <3>1. Answered(s)  BY <2>1, <2>8 DEF Answered, Succeeded, DeletionBegun
      <3> QED  BY <2>2, <2>4, <3>1 DEF Fates
    <2> QED  BY <2>5, <2>6, <2>7, <2>8 DEF Fates
  <1>5. CASE UNCHANGED vars
    BY <1>5 DEF vars, Fates, NobodyCut, Unborn, Gone, Settled, Succeeded, Answered, DeletionBegun,
       Kept, Owed, Holds, Bitmaps, Unfinished
  <1> QED  BY <1>1, <1>2, <1>3, <1>4, <1>5 DEF Next, AllAnswered

Fated ==
    /\ OneAtATime /\ Fates
    /\ \A s \in Requests : Entitled(s)

LEMMA FatedAlways ==
  ASSUME MaxInFlight = 1
  PROVE  Spec => []Fated
  <1>1. Init /\ OneAtATime => Fated
    BY DEF Init, Fated, Fates, Entitled, Unborn, Gone, Settled, Succeeded, Answered,
       NoCommit, EmptyTree
  <1>2. Fated /\ OneAtATime' /\ [Next]_vars => Fated'
    <2> SUFFICES ASSUME Fated, OneAtATime', [Next]_vars PROVE Fated'
      OBVIOUS
    <2>1. \A s \in Requests : Entitled(s)'
      BY EntitledNext DEF Fated, OneAtATime, Serial
    <2>2. Fates'  BY FatesNext DEF Fated
    <2> QED  BY <2>1, <2>2 DEF Fated
  <1> QED  BY <1>1, <1>2, OneAtATimeAlways, PTL DEF Spec

\* One request at a time, a record whose delete was answered is gone from the
\* remote and from what /query reads, and nothing brings it back: not a vote
\* that arrived with it, nor another delete, nor a pull.
THEOREM WithdrawnIsGone ==
  ASSUME MaxInFlight = 1
  PROVE  Spec => []WithdrawnStaysAway
  <1>1. Fated => WithdrawnStaysAway
    BY DEF Fated, Fates, WithdrawnStaysAway, Succeeded, Gone, Promised
  <1> QED  BY <1>1, FatedAlways, PTL

\* One request at a time, what a commit or a vote was answered for stays
\* published until a delete of its record begins.
THEOREM AnsweredIsPublished ==
  ASSUME MaxInFlight = 1
  PROVE  Spec => []AnsweredStaysPublished
  <1>1. Fated => AnsweredStaysPublished
    <2> SUFFICES ASSUME Fated, NEW r \in Requests, Answered(r), NobodyCut
                 PROVE  Promised(r, remote.tree)
      BY DEF AnsweredStaysPublished, Answered
    <2>1. Kept(r) /\ op[r] \in {"commit", "vote"}
      BY DEF Fated, Fates, Answered, Succeeded
    <2> QED  BY <2>1 DEF Kept, Owed, Holds, Promised
  <1> QED  BY <1>1, FatedAlways, PTL

-----------------------------------------------------------------------------
(* Nothing leaves the remote with somebody else's commit.                  *)

\* A commit changes the files of its request, although it takes the whole index.
Framed(r) ==
    /\ pc[r] \in {"stage", "add", "commit"} =>
          \A f : f \notin Touched(r) => Alike(index, head.tree, f)
    /\ pc[r] = "move" => \A f : f \notin Touched(r) => Alike(base[r].tree, head.tree, f)

DeletedIn(log, f) == \E d \in log \cap Requests : op[d] = "delete" /\ target[d] = f[1]

\* What a push would remove, somebody has deleted.
Accounted ==
    remote.log \subseteq head.log =>
        \A f \in DOMAIN remote.tree \ DOMAIN head.tree : DeletedIn(head.log, f)

Attributed == NobodyCut => (\A r \in Requests : Framed(r)) /\ Accounted

LEMMA FramedStep ==
  ASSUME Serial, NEW r \in Requests, Progress(r), Orderly(r), Framed(r), Step(r)
  PROVE  Framed(r)'
  <1> USE DEF Serial, Handlers, Goto
  <1>1. Touched(r)' = Touched(r)
    BY StepLeavesRequests DEF Touched, Bitmaps
  <1>2. CASE WriteFile(r) \/ RemoveFile(r) \/ WriteBmi(r)
    <2>1. UNCHANGED <<index, head>> /\ pc'[r] # "move" /\ pc[r] \in Changing
      BY <1>2 DEF WriteFile, RemoveFile, WriteBmi, Advance, Answer, Changing, Voting
    <2> QED  BY <1>1, <2>1 DEF Orderly, Framed
  <1>3. CASE ReadIndex(r)
    BY <1>1, <1>3 DEF ReadIndex, Framed, clone
  <1>4. CASE WriteIndex(r)
    <2> DEFINE kinds == StagedKinds(op[r])
    <2>1. /\ pc[r] = "add" /\ head' = head /\ pc'[r] \in {"stage", "commit"}
          /\ op[r] \in {"commit", "delete", "vote"} /\ at[r] <= Len(kinds)
      BY <1>4 DEF WriteIndex, Progress, Saving, Orderly, Staging
    <2>2. at[r] \in 1..Len(kinds)
      BY <2>1 DEF StagedKinds
    <2>3. FileAt(r, kinds) \in Touched(r)
      BY <2>1, <2>2 DEF FileAt, StagedKinds, Touched, Bitmaps, FilesOf, Kinds
    <2>4. ASSUME NEW f, f \notin Touched(r) PROVE Alike(index', head.tree, f)
      <3>1. Alike(index, index', f)  BY <1>4, <2>3, <2>4, OneMoreStaged
      <3>2. Alike(index, head.tree, f)  BY <2>1, <2>4 DEF Framed
      <3> QED  BY <3>1, <3>2 DEF Alike
    <2> QED  BY <1>1, <2>1, <2>4 DEF Framed
  <1>5. CASE BuildCommit(r)
    BY <1>1, <1>5 DEF BuildCommit, Answer, Framed, clone
  <1>6. CASE Proceed(r)
    <2>1. pc'[r] \in AfterPull(r) /\ op[r] \in Ops  BY <1>6 DEF Proceed
    <2> QED  BY <2>1 DEF AfterPull, Ops, Framed
  <1>7. CASE \/ Fetch(r) \/ FetchFails(r)
             \/ Reset(r) \/ ResetIndex(r) \/ CheckOut(r) \/ CheckedOut(r)
             \/ ReadBitmaps(r) \/ AddBitPanics(r) \/ EmptyBm(r) \/ WriteBm(r) \/ EmptyBmi(r)
             \/ CannotRemove(r) \/ MoveHead(r) \/ Push(r) \/ PushFails(r) \/ PushUnheard(r)
    BY <1>7 DEF Fetch, FetchFails, Reset, ResetIndex, CheckOut, CheckedOut, ReadBitmaps, CanAddBit,
       AddBitPanics, EmptyBm, WriteBm, EmptyBmi, CannotRemove, MoveHead, Push, PushFails,
       PushUnheard, Answer, Framed
  <1> QED  BY <1>2, <1>3, <1>4, <1>5, <1>6, <1>7 DEF Step

LEMMA AccountedStep ==
  ASSUME Serial, NEW r \in Requests, Progress(r), Framed(r), Accounted, Step(r)
  PROVE  Accounted'
  <1> USE DEF Serial, Handlers
  <1>1. op' = op /\ target' = target  BY StepLeavesRequests
  <1>2. CASE MoveHead(r)
    <2>1. /\ head' = base[r] /\ remote' = remote /\ base[r].log = head.log \cup {r}
          /\ pc[r] = "move" /\ r \notin remote.log
      BY <1>2 DEF MoveHead, Based, Origins, Ended
    <2> SUFFICES ASSUME remote.log \subseteq head'.log,
                        NEW f \in DOMAIN remote.tree \ DOMAIN head'.tree
                 PROVE  DeletedIn(head'.log, f)
      BY <1>1, <2>1 DEF Accounted, DeletedIn
    <2>2. remote.log \subseteq head.log  BY <2>1
    <2>3. CASE f \notin DOMAIN head.tree
      <3>1. DeletedIn(head.log, f)  BY <2>1, <2>2, <2>3 DEF Accounted
      <3> QED  BY <2>1, <3>1 DEF DeletedIn
    <2>4. CASE f \in DOMAIN head.tree
      <3>1. f \in Touched(r)
        BY <2>1, <2>4 DEF Framed, Alike
      <3>2. Promised(r, base[r].tree) /\ op[r] \in {"commit", "delete", "vote"}
            /\ (op[r] = "commit" => target[r] = r)
        BY <2>1 DEF Progress, Saving
      <3>3. op[r] = "delete"
        BY <2>1, <3>1, <3>2 DEF Touched, Promised
      <3>4. target[r] = f[1]
        BY <3>1, <3>3 DEF Touched, FilesOf
      <3> QED  BY <2>1, <3>3, <3>4 DEF DeletedIn
    <2> QED  BY <2>3, <2>4
  <1>3. CASE head' = remote' \/ (head' = head /\ remote' = remote)
    BY <1>1, <1>3 DEF Accounted, DeletedIn
  <1>4. CASE ~MoveHead(r)
    <2>1. head' = remote' \/ (head' = head /\ remote' = remote)
      BY <1>4 DEF Step, Fetch, FetchFails, Reset, ResetIndex, CheckOut, CheckedOut, Proceed,
         WriteFile, RemoveFile, ReadBitmaps, CanAddBit, AddBitPanics, EmptyBm, WriteBm, EmptyBmi,
         WriteBmi, ReadIndex, WriteIndex, CannotRemove, BuildCommit, Push, PushFails, PushUnheard,
         Based, clone
    <2> QED  BY <1>3, <2>1
  <1> QED  BY <1>2, <1>4

LEMMA AttributedNext ==
  ASSUME OneAtATime, OneAtATime', Attributed, [Next]_vars
  PROVE  Attributed'
  <1> SUFFICES ASSUME NobodyCut' PROVE (\A r \in Requests : Framed(r)') /\ Accounted'
    BY DEF Attributed
  <1> USE DEF OneAtATime, Serial, Handlers
  <1>1. ASSUME NEW r \in Requests, Step(r)
        PROVE  (\A s \in Requests : Framed(s)') /\ Accounted'
    <2>1. r \in InFlight /\ \A s \in Requests \ {r} : pc'[s] = pc[s] /\ pc[s] \notin Handling
      BY <1>1, StepIsInFlight, OthersRest
    <2>2. NobodyCut  BY <2>1 DEF NobodyCut, InFlight, Handling
    <2>3. Framed(r)' /\ Accounted'
      BY <1>1, <2>2, FramedStep, AccountedStep DEF Attributed, Tidy
    <2>4. \A s \in Requests \ {r} : Framed(s)'
      BY <2>1 DEF Framed, Handling
    <2> QED  BY <2>3, <2>4
  <1>2. ASSUME NEW r \in Requests, Arrive(r)
        PROVE  (\A s \in Requests : Framed(s)') /\ Accounted'
    <2>1. /\ pc[r] = "new" /\ pc' = [pc EXCEPT ![r] = "pull"] /\ UNCHANGED <<head, remote>>
          /\ \A s \in Requests \ {r} : op'[s] = op[s] /\ target'[s] = target[s]
      BY <1>2 DEF Arrive, Goto, clone
    <2>2. NobodyCut /\ r \notin head.log
      BY <2>1 DEF NobodyCut, Origins, Ended
    <2>3. \A s \in Requests : pc'[s] \notin {"stage", "add", "commit", "move"}
      BY <2>1 DEF Alone, InFlight, Handling
    <2>4. Accounted'
      BY <2>1, <2>2 DEF Attributed, Accounted, DeletedIn
    <2> QED  BY <2>3, <2>4 DEF Framed
  <1>3. ASSUME NEW r \in Requests, Abort(r) PROVE FALSE
    BY <1>3 DEF Abort, Answer, Goto, NobodyCut
  <1>4. ASSUME NEW q \in Foreign, Publish(q)
        PROVE  (\A s \in Requests : Framed(s)') /\ Accounted'
    <2>1. NobodyCut  BY <1>4 DEF Publish, NobodyCut
    <2>2. ~(remote'.log \subseteq head'.log)
      BY <1>4 DEF Publish, Origins, clone
    <2>3. \A s \in Requests : Framed(s)'
      BY <1>4, <2>1 DEF Publish, Attributed, Framed, Touched, Bitmaps, clone, request, local
    <2> QED  BY <2>2, <2>3 DEF Accounted
  <1>5. CASE UNCHANGED vars
    <2>1. NobodyCut  BY <1>5 DEF vars, NobodyCut
    <2> QED  BY <1>5, <2>1 DEF vars, Attributed, Framed, Touched, Bitmaps, Accounted, DeletedIn
  <1> QED  BY <1>1, <1>2, <1>3, <1>4, <1>5 DEF Next, AllAnswered

\* One request at a time, a file leaves the remote with a delete of its record
\* and not otherwise: also when the commit of that delete failed to be pushed
\* and goes out with another.
THEOREM PublishedStaysPublished ==
  ASSUME MaxInFlight = 1
  PROVE  Spec => PublishedStays
  <1> DEFINE Left == \A f \in DOMAIN remote.tree \ DOMAIN remote'.tree :
                        NobodyCut => \E d \in remote'.log \cap Requests :
                                        op[d] = "delete" /\ target[d] = f[1]
  <1>1. Init => Attributed
    BY DEF Init, Attributed, Framed, Accounted, NoCommit, EmptyTree
  <1>2. (OneAtATime /\ OneAtATime' /\ Attributed) /\ [Next]_vars => Attributed'
    BY AttributedNext
  <1>3. OneAtATime /\ Attributed /\ [Next]_vars => [Left]_vars
    <2> SUFFICES ASSUME OneAtATime, Attributed, Next PROVE Left
      OBVIOUS
    <2>1. ASSUME NEW r \in Requests, Step(r) PROVE Left
      <3>1. remote' = remote \/ (remote' = head /\ remote.log \subseteq head.log)
        BY <2>1 DEF Step, Fetch, FetchFails, Reset, ResetIndex, CheckOut, CheckedOut, Proceed,
           WriteFile, RemoveFile, ReadBitmaps, CanAddBit, AddBitPanics, EmptyBm, WriteBm,
           EmptyBmi, WriteBmi, ReadIndex, WriteIndex, CannotRemove, BuildCommit, MoveHead, Push,
           PushFails, PushUnheard, Behind
      <3> QED  BY <3>1 DEF Attributed, Accounted, DeletedIn
    <2>2. ASSUME NEW q \in Foreign, Publish(q) PROVE Left
      BY <2>2 DEF Publish, Over
    <2>3. ASSUME remote' = remote PROVE Left
      BY <2>3
    <2> QED  BY <2>1, <2>2, <2>3 DEF Next, Arrive, Abort, AllAnswered, vars
  <1> QED  BY <1>1, <1>2, <1>3, OneAtATimeAlways, PTL DEF Spec, PublishedStays

-----------------------------------------------------------------------------
(* The store implements the registry.                                      *)

Saved == {"stage", "add", "commit", "move"}

\* What a request has made of HEAD's files so far, in the working tree.
Started(r) ==
    /\ op[r] = "commit" /\ pc[r] \in {"write"} \cup Saved => FilesOf(r) \cap DOMAIN head.tree = {}
    /\ pc[r] = "write" => \A i \in 1..(at[r] - 1) : wt[Nth(r, WriteOrder, i)] = {}
    /\ op[r] = "commit" /\ pc[r] \in Saved => \A f \in FilesOf(r) : wt[f] = {}
    /\ op[r] = "delete" /\ pc[r] \in Saved => FilesOf(target[r]) \subseteq DOMAIN head.tree
    /\ op[r] = "vote" /\ pc[r] \in Voting \cup Saved => FilesOf(target[r]) \subseteq DOMAIN head.tree
    /\ pc[r] \in Voting => \A f \in Bitmaps(r) : held[r][f] = head.tree[f]
    /\ pc[r] \in {"emptybmi", "writebmi"} =>
          wt[<<target[r], "bm">>] = head.tree[<<target[r], "bm">>] \cup {r}
    /\ op[r] = "vote" /\ pc[r] \in Saved => \A f \in Bitmaps(r) : wt[f] = head.tree[f] \cup {r}

LEMMA StartedStep ==
  ASSUME Serial, NEW r \in Requests, Progress(r), Sound(r),
         pc[r] = "pulled" /\ op[r] = "commit" => Gone(r), Started(r), Step(r)
  PROVE  Started(r)'
  <1> USE DEF Serial, Handlers, Goto, Saved
  <1>1. op' = op /\ target' = target  BY StepLeavesRequests
  <1>2. CASE Proceed(r)
    <2>1. pc'[r] \in AfterPull(r) /\ op[r] \in Ops /\ UNCHANGED <<wt, head, at>> /\ pc[r] = "pulled"
          /\ at[r] = 1
      BY <1>2 DEF Proceed, Progress, Before, clone, local
    <2>2. CASE op[r] = "commit"
      <3>1. FilesOf(r) \cap DOMAIN head.tree = {}  BY <2>1, <2>2 DEF Gone
      <3> QED  BY <1>1, <2>1, <2>2, <3>1 DEF AfterPull, Started, Voting
    <2>3. CASE op[r] # "commit"
      <3>1. pc'[r] \notin Saved \cup Voting \cup {"write"}
        BY <2>1, <2>3 DEF AfterPull, Ops, Voting
      <3> QED  BY <3>1 DEF Started, Voting
    <2> QED  BY <2>2, <2>3
  <1>3. CASE WriteFile(r)
    <2> USE DEF Voting
    <2>1. /\ op[r] = "commit" /\ target[r] = r /\ head' = head /\ pc[r] = "write"
          /\ FilesOf(r) \cap DOMAIN head.tree = {}
      BY <1>3 DEF WriteFile, Progress, Started
    <2>2. \A i \in 1..at[r] : wt'[Nth(r, WriteOrder, i)] = {}
      <3>1. \A i \in 1..(at[r] - 1) : /\ Nth(r, WriteOrder, i) \in DOMAIN wt
                                      /\ wt[Nth(r, WriteOrder, i)] = {}
        BY <2>1 DEF Progress, Started
      <3> QED  BY <1>3, <3>1 DEF WriteFile, With, FileAt, Nth
    <2>3. CASE at[r] < 4
      <3>1. at'[r] = at[r] + 1 /\ pc'[r] = "write"
        BY <1>3, <2>3 DEF WriteFile, Advance, WriteOrder
      <3> QED  BY <1>1, <2>1, <2>2, <3>1 DEF Started, Nth
    <2>4. CASE at[r] = 4
      <3>1. pc'[r] = "stage"
        BY <1>3, <2>4 DEF WriteFile, Advance, WriteOrder
      <3>2. \A f \in FilesOf(r) : wt'[f] = {}
        BY <2>1, <2>2, <2>4 DEF Nth, FilesOf, Kinds, WriteOrder
      <3> QED  BY <1>1, <2>1, <3>1, <3>2 DEF Started
    <2> QED  BY <2>3, <2>4
  <1>4. CASE RemoveFile(r)
    <2>1. /\ op[r] = "delete" /\ head' = head /\ pc'[r] \in {"remove", "stage", "succeeded"}
          /\ FilesOf(target[r]) \subseteq DOMAIN head.tree
      BY <1>4 DEF RemoveFile, Progress, Sound, Orderly, Changing, Advance, Answer, Alike
    <2> QED  BY <1>1, <2>1 DEF Started, Voting
  <1>5. CASE ReadBitmaps(r)
    <2>1. /\ Level /\ FilesOf(target[r]) \subseteq DOMAIN wt /\ op[r] = "vote"
          /\ UNCHANGED <<wt, head>> /\ pc'[r] = "emptybm"
          /\ held'[r] = Over(Only(wt, Bitmaps(r)), [f \in Bitmaps(r) |-> {}])
      BY <1>5 DEF ReadBitmaps, CanAddBit, Sound, Orderly, Progress, Busy, Changing, Staging, Voting,
         clone
    <2>2. \A f \in FilesOf(target[r]) : f \in DOMAIN head.tree /\ wt[f] = head.tree[f]
      BY <2>1 DEF Level, Alike
    <2>3. Bitmaps(r) \subseteq FilesOf(target[r])
      BY DEF Bitmaps, FilesOf, Kinds
    <2>4. Bitmaps(r)' = Bitmaps(r)  BY <1>1 DEF Bitmaps
    <2>5. \A f \in Bitmaps(r) : held'[r][f] = head.tree[f]
      BY <2>1, <2>2, <2>3 DEF Over, Only
    <2> QED  BY <1>1, <2>1, <2>2, <2>4, <2>5 DEF Started
  <1>6. CASE EmptyBm(r) \/ WriteBm(r) \/ EmptyBmi(r) \/ WriteBmi(r)
    <2> DEFINE bm == <<target[r], "bm">>
               bmi == <<target[r], "bmi">>
    <2>1. /\ op[r] = "vote" /\ head' = head /\ pc[r] \in Voting
          /\ FilesOf(target[r]) \subseteq DOMAIN head.tree
          /\ held[r][bm] = head.tree[bm] /\ held[r][bmi] = head.tree[bmi]
      BY <1>6 DEF EmptyBm, WriteBm, EmptyBmi, WriteBmi, Voting, Bitmaps, Progress, Started
    <2>2. bm # bmi /\ Bitmaps(r) = {bm, bmi} /\ Bitmaps(r)' = Bitmaps(r)
      BY <1>1 DEF Bitmaps
    <2>3. CASE EmptyBm(r)
      <3>1. pc'[r] = "writebm" /\ held' = held  BY <2>3 DEF EmptyBm, local
      <3> QED  BY <1>1, <2>1, <2>2, <3>1 DEF Started
    <2>4. CASE WriteBm(r)
      <3>1. pc'[r] = "emptybmi" /\ held' = held  BY <2>4 DEF WriteBm, local
      <3>2. wt'[bm] = head.tree[bm] \cup {r}
        BY <2>1, <2>4 DEF WriteBm, Progress, WriteBitmap, With
      <3> QED  BY <1>1, <2>1, <2>2, <3>1, <3>2 DEF Started
    <2>5. CASE EmptyBmi(r)
      <3>1. pc[r] = "emptybmi" /\ pc'[r] = "writebmi" /\ held' = held  BY <2>5 DEF EmptyBmi, local
      <3>2. bm \in DOMAIN wt /\ wt[bm] = head.tree[bm] \cup {r}
        BY <3>1 DEF Progress, Started
      <3>3. wt'[bm] = wt[bm]
        BY <2>2, <2>5, <3>2 DEF EmptyBmi, EmptyBitmap, With
      <3> QED  BY <1>1, <2>1, <2>2, <3>1, <3>2, <3>3 DEF Started
    <2>6. CASE WriteBmi(r)
      <3>1. pc[r] = "writebmi" /\ pc'[r] = "stage"  BY <2>6 DEF WriteBmi
      <3>2. /\ bm \in DOMAIN wt /\ bmi \in DOMAIN wt /\ wt[bm] = head.tree[bm] \cup {r}
        BY <3>1 DEF Progress, Started
      <3>3. wt'[bm] = head.tree[bm] \cup {r} /\ wt'[bmi] = head.tree[bmi] \cup {r}
        BY <2>1, <2>2, <2>6, <3>2 DEF WriteBmi, WriteBitmap, With
      <3> QED  BY <1>1, <2>1, <2>2, <3>1, <3>3 DEF Started, Voting
    <2> QED  BY <1>6, <2>3, <2>4, <2>5, <2>6
  <1>8. CASE ReadIndex(r) \/ WriteIndex(r) \/ BuildCommit(r)
    <2>1. /\ UNCHANGED <<wt, head>> /\ pc[r] \in Saved
          /\ pc'[r] \in Saved \cup {"failed"}
      BY <1>8 DEF ReadIndex, WriteIndex, BuildCommit, Answer, clone
    <2>2. Bitmaps(r)' = Bitmaps(r)  BY <1>1 DEF Bitmaps
    <2> QED  BY <1>1, <2>1, <2>2 DEF Started, Voting
  <1>9. CASE \/ Fetch(r) \/ FetchFails(r)
             \/ Reset(r) \/ ResetIndex(r) \/ CheckOut(r) \/ CheckedOut(r)
             \/ AddBitPanics(r) \/ CannotRemove(r) \/ MoveHead(r)
             \/ Push(r) \/ PushFails(r) \/ PushUnheard(r)
    <2>1. pc'[r] \notin Saved \cup Voting \cup {"write"}
      BY <1>9 DEF Fetch, FetchFails, Reset, ResetIndex, CheckOut, CheckedOut, AddBitPanics,
         CannotRemove, MoveHead, Push, PushFails, PushUnheard, Answer, Voting
    <2> QED  BY <2>1 DEF Started, Voting
  <1> QED  BY <1>2, <1>3, <1>4, <1>5, <1>6, <1>8, <1>9 DEF Step

Deleted(c, q) == \E d \in c.log \cap Requests : op[d] = "delete" /\ target[d] = q

\* A whole tree has a record or has it not.
LEMMA EntryOfWhole ==
  ASSUME NEW c, NEW q \in Records, IsWhole(c.tree)
  PROVE  \/ /\ FilesOf(q) \subseteq DOMAIN c.tree
            /\ Entry(c, q) = Registry!Live(c.tree[<<q, "bm">>] \cap c.tree[<<q, "bmi">>])
         \/ /\ FilesOf(q) \cap DOMAIN c.tree = {} /\ Deleted(c, q)
            /\ Entry(c, q) = Registry!Withdrawn
         \/ /\ FilesOf(q) \cap DOMAIN c.tree = {} /\ ~Deleted(c, q)
            /\ Entry(c, q) = Registry!Absent
  <1>1. <<q, "bm">> \in FilesOf(q)  BY DEF FilesOf, Kinds
  <1>2. CASE FilesOf(q) \subseteq DOMAIN c.tree
    <2>1. FilesOf(q) \cap DOMAIN c.tree = FilesOf(q)  BY <1>2
    <2> QED  BY <1>1, <1>2, <2>1 DEF Entry, Registry!Live
  <1>3. CASE FilesOf(q) \cap DOMAIN c.tree = {}
    BY <1>1, <1>3 DEF Entry, Deleted, Registry!Withdrawn, Registry!Absent
  <1> QED  BY <1>2, <1>3 DEF IsWhole

LEMMA EntryOfLive ==
  ASSUME NEW c, NEW q \in Records, IsWhole(c.tree), FilesOf(q) \subseteq DOMAIN c.tree
  PROVE  Entry(c, q) = Registry!Live(c.tree[<<q, "bm">>] \cap c.tree[<<q, "bmi">>])
  <1>1. <<q, "bm">> \in FilesOf(q)  BY DEF FilesOf, Kinds
  <1>2. FilesOf(q) \cap DOMAIN c.tree # {}  BY <1>1
  <1> QED  BY <1>2, EntryOfWhole

LEMMA LiveFields ==
  \A S : Registry!Live(S).status = "live" /\ Registry!Live(S).votes = S
  BY DEF Registry!Live

LEMMA StatusOfWhole ==
  ASSUME NEW c, NEW q \in Records, IsWhole(c.tree)
  PROVE  Entry(c, q).status \in {"absent", "live", "withdrawn"}
  <1>1. /\ Registry!Absent.status = "absent" /\ Registry!Withdrawn.status = "withdrawn"
        /\ \A S : Registry!Live(S).status = "live"
    BY LiveFields DEF Registry!Absent, Registry!Withdrawn
  <1>2. \/ \E S : Entry(c, q) = Registry!Live(S)
        \/ Entry(c, q) = Registry!Withdrawn
        \/ Entry(c, q) = Registry!Absent
    BY EntryOfWhole
  <1> QED  BY <1>1, <1>2

LEMMA LaterIsTransitive ==
  ASSUME NEW a, NEW b, NEW c, Registry!Later(a, b), Registry!Later(b, c),
         a.status \in {"absent", "live", "withdrawn"}, b.status \in {"absent", "live", "withdrawn"}
  PROVE  Registry!Later(a, c)
  BY DEF Registry!Later, Registry!Absent, Registry!Withdrawn

LEMMA EntryOfAlike ==
  ASSUME NEW c, NEW e, NEW q \in Records, IsWhole(c.tree), IsWhole(e.tree),
         \A f \in FilesOf(q) : Alike(c.tree, e.tree, f), Deleted(c, q) <=> Deleted(e, q)
  PROVE  Entry(c, q) = Entry(e, q)
  <1>1. /\ <<q, "bm">> \in FilesOf(q) /\ <<q, "bmi">> \in FilesOf(q)
        /\ \A f \in FilesOf(q) : f \in DOMAIN c.tree <=> f \in DOMAIN e.tree
        /\ \A f \in FilesOf(q) \cap DOMAIN c.tree : e.tree[f] = c.tree[f]
    BY DEF FilesOf, Kinds, Alike
  <1>2. CASE FilesOf(q) \subseteq DOMAIN c.tree
    BY <1>1, <1>2, EntryOfWhole
  <1>3. CASE FilesOf(q) \cap DOMAIN c.tree = {}
    BY <1>1, <1>3, EntryOfWhole
  <1> QED  BY <1>2, <1>3 DEF IsWhole

\* Entries depend on what the requests in the history asked for.
LEMMA EntryLater ==
  ASSUME op' = op, target' = target
  PROVE  \A q : Entry(head, q)' = Entry(head', q) /\ Entry(remote, q)' = Entry(remote', q)
  BY DEF Entry

\* What a commit makes of its record.
Becomes(r) ==
    LET a == Entry(head, target[r])
        b == Entry(base[r], target[r])
    IN  CASE op[r] = "commit" -> a = Registry!Absent /\ b = Registry!Live({})
          [] op[r] = "delete" -> a.status = "live" /\ b = Registry!Withdrawn
          [] op[r] = "vote"   -> a.status = "live" /\ b = Registry!Live(a.votes \cup {r})
          [] OTHER            -> FALSE

LEMMA CommitChangesOne ==
  ASSUME OneAtATime, \A s \in Requests : Entitled(s), NEW r \in Requests, Framed(r), Started(r),
         Sound(r), MoveHead(r)
  PROVE  /\ Becomes(r)
         /\ \A q \in Records : q # target[r] => Entry(base[r], q) = Entry(head, q)
  <1> USE DEF OneAtATime, Serial, Handlers
  <1>1. /\ pc[r] = "move" /\ base[r].log = head.log \cup {r}
        /\ IsWhole(head.tree) /\ IsWhole(base[r].tree)
        /\ \A f : Alike(wt, base[r].tree, f)
        /\ Promised(r, base[r].tree) /\ op[r] \in {"commit", "delete", "vote"}
        /\ target[r] \in Records /\ (op[r] = "commit" => target[r] = r)
    BY DEF MoveHead, Based, Sound, Orderly, Progress, Saving, Alike
  <1> DEFINE t == target[r]
             bm == <<t, "bm">>
             bmi == <<t, "bmi">>
  <1>2. bm \in FilesOf(t) /\ bmi \in FilesOf(t)
    BY DEF FilesOf, Kinds
  <1>3. Touched(r) \subseteq FilesOf(t)
    BY DEF Touched, Bitmaps, FilesOf, Kinds
  <1>4. ASSUME NEW q \in Records, q # t PROVE Entry(base[r], q) = Entry(head, q)
    <2>1. \A f \in FilesOf(q) : f \notin Touched(r)
      BY <1>3, <1>4 DEF FilesOf
    <2>2. \A f \in FilesOf(q) : Alike(base[r].tree, head.tree, f)
      BY <1>1, <2>1 DEF Framed
    <2>3. Deleted(base[r], q) <=> Deleted(head, q)
      BY <1>1, <1>4 DEF Deleted
    <2> QED  BY <1>1, <2>2, <2>3, EntryOfAlike
  <1>5. CASE op[r] = "commit"
    <2>1. FilesOf(t) \cap DOMAIN head.tree = {} /\ \A f \in FilesOf(t) : wt[f] = {}
      BY <1>1, <1>5 DEF Started, Saved
    <2>2. ~Deleted(head, t)
      <3> SUFFICES ASSUME NEW d \in head.log \cap Requests, op[d] = "delete", target[d] = t
                   PROVE  FALSE
        BY DEF Deleted
      <3>1. pc[d] # "new"  BY DEF Origins, Ended
      <3> QED  BY <1>1, <1>5, <3>1 DEF Entitled, Succeeded
    <2>3. Entry(head, t) = Registry!Absent
      BY <1>1, <1>2, <2>1, <2>2, EntryOfWhole
    <2>4. FilesOf(t) \subseteq DOMAIN base[r].tree
      BY <1>1, <1>5 DEF Promised
    <2>5. base[r].tree[bm] = {} /\ base[r].tree[bmi] = {}
      BY <1>1, <1>2, <2>1, <2>4 DEF Alike
    <2>6. Entry(base[r], t) = Registry!Live(base[r].tree[bm] \cap base[r].tree[bmi])
      BY <1>1, <2>4, EntryOfLive
    <2>8. base[r].tree[bm] \cap base[r].tree[bmi] = {}
      BY <2>5
    <2>9. Entry(base[r], t) = Registry!Live({})
      BY <2>6, <2>8
    <2>7. Becomes(r)  BY <1>5, <2>3, <2>9 DEF Becomes
    <2> QED  BY <1>4, <2>7
  <1>6. CASE op[r] = "delete"
    <2>1. FilesOf(t) \subseteq DOMAIN head.tree
      BY <1>1, <1>6 DEF Started, Saved
    <2>2. Entry(head, t).status = "live"
      <3>1. Entry(head, t) = Registry!Live(head.tree[bm] \cap head.tree[bmi])
        BY <1>1, <2>1, EntryOfLive
      <3> QED  BY <3>1, LiveFields
    <2>3. FilesOf(t) \cap DOMAIN base[r].tree = {} /\ Deleted(base[r], t)
      BY <1>1, <1>6 DEF Promised, Deleted
    <2>4. Entry(base[r], t) = Registry!Withdrawn
      BY <1>1, <1>2, <2>3, EntryOfWhole
    <2>5. Becomes(r)  BY <1>6, <2>2, <2>4 DEF Becomes
    <2> QED  BY <1>4, <2>5
  <1>7. CASE op[r] = "vote"
    <2>1. FilesOf(t) \subseteq DOMAIN head.tree
      BY <1>1, <1>7 DEF Started, Saved
    <2>2. wt[bm] = head.tree[bm] \cup {r} /\ wt[bmi] = head.tree[bmi] \cup {r}
      BY <1>1, <1>7 DEF Started, Saved, Bitmaps
    <2>3. bm \in DOMAIN base[r].tree /\ bmi \in DOMAIN base[r].tree
      BY <1>1, <1>7 DEF Promised, Bitmaps
    <2>4. base[r].tree[bm] = wt[bm] /\ base[r].tree[bmi] = wt[bmi]
      BY <1>1, <2>3 DEF Alike
    <2>5. Entry(head, t) = Registry!Live(head.tree[bm] \cap head.tree[bmi])
      BY <1>1, <2>1, EntryOfLive
    <2>6. Entry(base[r], t) = Registry!Live(base[r].tree[bm] \cap base[r].tree[bmi])
      <3>1. FilesOf(t) \subseteq DOMAIN base[r].tree
        BY <1>1, <1>2, <2>3 DEF IsWhole
      <3> QED  BY <1>1, <3>1, EntryOfLive
    <2>7. base[r].tree[bm] \cap base[r].tree[bmi] = (head.tree[bm] \cap head.tree[bmi]) \cup {r}
      BY <2>2, <2>4
    <2>8. Entry(head, t).status = "live" /\ Entry(head, t).votes = head.tree[bm] \cap head.tree[bmi]
      BY <2>5, LiveFields
    <2>9. Entry(base[r], t) = Registry!Live(Entry(head, t).votes \cup {r})
      BY <2>6, <2>7, <2>8
    <2>10. Becomes(r)
      BY <1>7, <2>8, <2>9 DEF Becomes
    <2> QED  BY <1>4, <2>10
  <1> QED  BY <1>1, <1>5, <1>6, <1>7

LaterAll(c, e) == \A q \in Records : Registry!Later(Entry(c, q), Entry(e, q))

\* Of two histories the longer one has the later records.
Chain ==
    /\ remote.log \subseteq head.log => LaterAll(remote, head)
    /\ head.log \subseteq remote.log => LaterAll(head, remote)

LEMMA ChainStep ==
  ASSUME OneAtATime, \A s \in Requests : Entitled(s), NEW r \in Requests, Framed(r), Started(r),
         Sound(r), Chain, Step(r)
  PROVE  Chain'
  <1> USE DEF OneAtATime, Serial, Handlers
  <1>1. op' = op /\ target' = target  BY StepLeavesRequests
  <1>2. CASE MoveHead(r)
    <2>1. /\ head' = base[r] /\ remote' = remote /\ base[r].log = head.log \cup {r}
          /\ r \notin remote.log /\ target[r] \in Records
          /\ IsWhole(head.tree) /\ IsWhole(remote.tree)
      BY <1>2 DEF MoveHead, Based, Origins, Ended, Sound
    <2> SUFFICES ASSUME remote.log \subseteq base[r].log, NEW q \in Records
                 PROVE  Registry!Later(Entry(remote, q), Entry(base[r], q))
      BY <1>1, <2>1, EntryLater DEF Chain, LaterAll
    <2>2. Registry!Later(Entry(remote, q), Entry(head, q))
      BY <2>1 DEF Chain, LaterAll
    <2>3. Registry!Later(Entry(head, q), Entry(base[r], q))
      <3>1. CASE q # target[r]
        BY <1>2, <3>1, CommitChangesOne DEF Registry!Later
      <3>2. CASE q = target[r]
        <4>1. Becomes(r)  BY <1>2, CommitChangesOne
        <4>2. op[r] \in Ops  OBVIOUS
        <4>3. CASE op[r] = "commit"  BY <3>2, <4>1, <4>3 DEF Becomes, Registry!Later
        <4>4. CASE op[r] = "delete"  BY <3>2, <4>1, <4>4 DEF Becomes, Registry!Later
        <4>5. CASE op[r] = "vote"
          BY <3>2, <4>1, <4>5 DEF Becomes, Registry!Later, Registry!Live
        <4>6. CASE op[r] = "query"  BY <4>1, <4>6 DEF Becomes
        <4> QED  BY <4>2, <4>3, <4>4, <4>5, <4>6 DEF Ops
      <3> QED  BY <3>1, <3>2
    <2>4. /\ Entry(remote, q).status \in {"absent", "live", "withdrawn"}
          /\ Entry(head, q).status \in {"absent", "live", "withdrawn"}
      BY <2>1, StatusOfWhole
    <2> QED  BY <2>2, <2>3, <2>4, LaterIsTransitive
  <1>3. CASE ~MoveHead(r)
    <2>1. head' = remote' \/ (head' = head /\ remote' = remote)
      BY <1>3 DEF Step, Fetch, FetchFails, Reset, ResetIndex, CheckOut, CheckedOut, Proceed,
         WriteFile, RemoveFile, ReadBitmaps, CanAddBit, AddBitPanics, EmptyBm, WriteBm, EmptyBmi,
         WriteBmi, ReadIndex, WriteIndex, CannotRemove, BuildCommit, Push, PushFails, PushUnheard,
         Based, clone
    <2>2. CASE head' = remote'
      BY <1>1, <2>2, EntryLater DEF Chain, LaterAll, Registry!Later
    <2>3. CASE head' = head /\ remote' = remote
      BY <1>1, <2>3, EntryLater DEF Chain, LaterAll
    <2> QED  BY <2>1, <2>2, <2>3
  <1> QED  BY <1>2, <1>3

Linked == NobodyCut => (\A r \in Requests : Started(r)) /\ Chain

\* A request that arrives is in no history.
LEMMA ArrivalChangesNoEntry ==
  ASSUME Serial, NEW r \in Requests, Arrive(r)
  PROVE  /\ UNCHANGED <<head, remote>>
         /\ \A q : Entry(head, q)' = Entry(head, q) /\ Entry(remote, q)' = Entry(remote, q)
  <1>1. UNCHANGED <<head, remote>> /\ pc[r] = "new"
    BY DEF Arrive, clone
  <1>2. r \notin head.log \cup remote.log
    BY <1>1 DEF Serial, Origins, Ended
  <1>3. \A s \in Requests \ {r} : op'[s] = op[s] /\ target'[s] = target[s]
    BY DEF Arrive, Serial, Handlers
  <1>4. ASSUME NEW q
        PROVE  /\ Deleted(head, q)' <=> Deleted(head, q)
               /\ Deleted(remote, q)' <=> Deleted(remote, q)
    BY <1>1, <1>2, <1>3 DEF Deleted
  <1> QED  BY <1>1, <1>4 DEF Entry, Deleted

LEMMA PublishAnnounces ==
  ASSUME OneAtATime, IsWhole(remote'.tree), \A s \in Requests : Entitled(s), Fates, NobodyCut,
         NEW q \in Foreign, Publish(q)
  PROVE  /\ head' = head /\ remote'.log = remote.log \cup {q} /\ q \notin head.log
         /\ \A p \in Records : Entry(head, p)' = Entry(head, p)
         /\ \A p \in Records : p # q => Entry(remote, p)' = Entry(remote, p)
         /\ Entry(head, q) = Registry!Absent /\ Entry(remote, q) = Registry!Absent
         /\ Entry(remote, q)' = Registry!Live({})
  <1> USE DEF OneAtATime, Serial, Handlers
  <1>1. /\ UNCHANGED <<head, op, target>> /\ q \notin remote.log /\ q \notin Requests
        /\ remote'.log = remote.log \cup {q} /\ q \in Records
        /\ remote'.tree = Over(remote.tree, [f \in FilesOf(q) |-> {}])
        /\ IsWhole(head.tree) /\ IsWhole(remote.tree)
    BY ForeignAssumption DEF Publish, Tidy, Records, clone, request
  <1>2. q \notin head.log
    BY <1>1 DEF Origins
  <1>3. Gone(q)
    BY <1>1 DEF Fates, Unborn
  <1>4. ~Deleted(head, q) /\ ~Deleted(remote, q)
    <2> SUFFICES ASSUME NEW d \in (head.log \cup remote.log) \cap Requests, op[d] = "delete",
                        target[d] = q
                 PROVE  FALSE
      BY DEF Deleted
    <2>1. pc[d] # "new"  BY DEF Origins, Ended
    <2> QED  BY <1>1, <2>1 DEF Entitled
  <1>5. <<q, "bm">> \in FilesOf(q) /\ <<q, "bmi">> \in FilesOf(q)
    BY DEF FilesOf, Kinds
  <1>6. FilesOf(q) \cap DOMAIN head.tree = {} /\ FilesOf(q) \cap DOMAIN remote.tree = {}
    BY <1>3 DEF Gone
  <1>7. Entry(head, q) = Registry!Absent
    BY <1>1, <1>4, <1>5, <1>6, EntryOfWhole
  <1>8. Entry(remote, q) = Registry!Absent
    BY <1>1, <1>4, <1>5, <1>6, EntryOfWhole
  <1>9. ASSUME NEW p \in Records, p # q PROVE Entry(remote', p) = Entry(remote, p)
    <2>1. \A f \in FilesOf(p) : f \notin FilesOf(q)
      BY <1>9 DEF FilesOf
    <2>2. \A f \in FilesOf(p) : Alike(remote'.tree, remote.tree, f)
      BY <1>1, <2>1 DEF Over, Alike
    <2>3. Deleted(remote', p) <=> Deleted(remote, p)
      BY <1>1 DEF Deleted
    <2> QED  BY <1>1, <2>2, <2>3, EntryOfAlike
  <1>10. Entry(remote', q) = Registry!Live({})
    <2>1. FilesOf(q) \subseteq DOMAIN remote'.tree
      BY <1>1 DEF Over
    <2>2. Entry(remote', q) =
             Registry!Live(remote'.tree[<<q, "bm">>] \cap remote'.tree[<<q, "bmi">>])
      BY <1>1, <2>1, EntryOfLive
    <2>3. remote'.tree[<<q, "bm">>] \cap remote'.tree[<<q, "bmi">>] = {}
      BY <1>1, <1>5, <1>6 DEF Over
    <2> QED  BY <2>2, <2>3
  <1> QED  BY <1>1, <1>2, <1>7, <1>8, <1>9, <1>10, EntryLater

LEMMA LinkedNext ==
  ASSUME Fated, OneAtATime', Attributed, Linked, [Next]_vars
  PROVE  Linked'
  <1> SUFFICES ASSUME NobodyCut' PROVE (\A r \in Requests : Started(r)') /\ Chain'
    BY DEF Linked
  <1> DEFINE Working == {"write"} \cup Voting \cup Saved
  <1> USE DEF Fated, OneAtATime, Serial, Handlers
  <1>0. Working \subseteq Handling  BY DEF Saved, Handling, Voting
  <1>1. ASSUME NEW s \in Requests, pc'[s] \notin Working PROVE Started(s)'
    BY <1>1 DEF Started, Saved, Voting
  <1>2. ASSUME NEW r \in Requests, Step(r)
        PROVE  (\A s \in Requests : Started(s)') /\ Chain'
    <2>1. r \in InFlight /\ \A s \in Requests \ {r} : pc'[s] = pc[s] /\ pc[s] \notin Handling
      BY <1>2, StepIsInFlight, OthersRest
    <2>2. NobodyCut  BY <2>1 DEF NobodyCut, InFlight, Handling
    <2>3. Sound(r) /\ Framed(r) /\ Started(r) /\ Chain
      BY <2>1, <2>2, SoundInFlight DEF Attributed, Linked
    <2>4. pc[r] = "pulled" /\ op[r] = "commit" => Gone(r)
      BY <2>2, ForeignAssumption DEF Fates, Unborn, Pulling, Records
    <2>5. Started(r)'  BY <1>2, <2>3, <2>4, StartedStep
    <2>6. Chain'  BY <1>2, <2>3, ChainStep
    <2>7. \A s \in Requests \ {r} : Started(s)'  BY <1>0, <1>1, <2>1
    <2> QED  BY <2>5, <2>6, <2>7
  <1>3. ASSUME NEW r \in Requests, Arrive(r)
        PROVE  (\A s \in Requests : Started(s)') /\ Chain'
    <2>1. pc[r] = "new" /\ pc' = [pc EXCEPT ![r] = "pull"]
      BY <1>3 DEF Arrive, Goto
    <2>2. NobodyCut  BY <2>1 DEF NobodyCut
    <2>3. \A s \in Requests : pc'[s] \notin Working
      BY <2>1 DEF Alone, InFlight, Handling, Saved, Voting
    <2>4. Chain'
      BY <1>3, <2>2, ArrivalChangesNoEntry DEF Linked, Chain, LaterAll
    <2> QED  BY <1>1, <2>3, <2>4
  <1>4. ASSUME NEW r \in Requests, Abort(r) PROVE FALSE
    BY <1>4 DEF Abort, Answer, Goto, NobodyCut
  <1>5. ASSUME NEW q \in Foreign, Publish(q)
        PROVE  (\A s \in Requests : Started(s)') /\ Chain'
    <2>1. NobodyCut /\ IsWhole(remote'.tree)
      BY <1>5 DEF Publish, NobodyCut, Tidy, IsWhole
    <2>2. \A s \in Requests : Started(s)'
      BY <1>5, <2>1 DEF Publish, Linked, Started, Bitmaps, Nth, clone, request, local
    <2>3. /\ ~(remote'.log \subseteq head'.log)
          /\ head'.log \subseteq remote'.log => head.log \subseteq remote.log
      BY <1>5, <2>1, PublishAnnounces
    <2>4. ASSUME head.log \subseteq remote.log, NEW p \in Records
          PROVE  Registry!Later(Entry(head, p)', Entry(remote, p)')
      <3>1. Registry!Later(Entry(head, p), Entry(remote, p))
        BY <2>1, <2>4 DEF Linked, Chain, LaterAll
      <3>2. CASE p # q
        BY <1>5, <2>1, <3>1, <3>2, PublishAnnounces
      <3>3. CASE p = q
        <4>1. Entry(head, p)' = Registry!Absent
          BY <1>5, <2>1, <3>3, PublishAnnounces
        <4> QED  BY <4>1 DEF Registry!Later
      <3> QED  BY <3>2, <3>3
    <2>5. Chain'  BY <2>3, <2>4 DEF Chain, LaterAll
    <2> QED  BY <2>2, <2>5
  <1>6. CASE UNCHANGED vars
    <2>1. NobodyCut  BY <1>6 DEF vars, NobodyCut
    <2>2. \A q : Entry(head, q)' = Entry(head, q) /\ Entry(remote, q)' = Entry(remote, q)
      BY <1>6 DEF vars, Entry
    <2>3. Chain'
      BY <1>6, <2>1, <2>2 DEF vars, Linked, Chain, LaterAll
    <2> QED  BY <1>6, <2>1, <2>3 DEF vars, Linked, Started, Bitmaps, Nth
  <1> QED  BY <1>2, <1>3, <1>4, <1>5, <1>6 DEF Next, AllAnswered

Owned == {q \in Requests : Succeeded(q, "commit")}
Entries(c) == [q \in Records |-> Entry(c, q)]

\* A token is given out with the push of a commit, and never taken back.
LEMMA OwnedStep ==
  ASSUME Serial, NEW r \in Requests, Progress(r), Orderly(r), Step(r)
  PROVE  Owned' = IF Push(r) /\ op[r] = "commit" THEN Owned \cup {r} ELSE Owned
  <1> USE DEF Serial, Handlers
  <1>1. op' = op /\ \A s \in Requests \ {r} : pc'[s] = pc[s]
    BY StepLeavesRequests, StepIsInFlight
  <1>2. pc[r] # "succeeded"
    BY StepIsInFlight DEF InFlight, Handling
  <1>3. op[r] = "commit" => (pc'[r] = "succeeded" <=> Push(r))
    BY SuccessIsAPush DEF Push, Answer, Goto
  <1> QED  BY <1>1, <1>2, <1>3 DEF Owned, Succeeded

LEMMA RegistryStep ==
  ASSUME Fated, Attributed, Linked, NobodyCut, NobodyCut', NEW r \in Requests, Step(r)
  PROVE  \/ \E q \in Records : \/ Registry!Create(q) \/ Registry!Withdraw(q)
                               \/ \E v \in Requests : Registry!Vote(q, v)
         \/ Registry!Push \/ Registry!Pull
         \/ UNCHANGED <<Entries(head), Entries(remote), Owned>>
  <1> USE DEF Fated, OneAtATime, Serial, Handlers
  <1>1. r \in InFlight /\ op' = op /\ target' = target
    BY StepIsInFlight, StepLeavesRequests
  <1>2. Sound(r) /\ Orderly(r) /\ Framed(r) /\ Started(r) /\ Chain
    BY <1>1, SoundInFlight DEF Attributed, Linked, Sound
  <1>3. Owned' = IF Push(r) /\ op[r] = "commit" THEN Owned \cup {r} ELSE Owned
    BY <1>2, OwnedStep
  <1>4. Entries(head)' = Entries(head') /\ Entries(remote)' = Entries(remote')
    BY <1>1, EntryLater DEF Entries
  <1>5. CASE MoveHead(r)
    <2> DEFINE t == target[r]
    <2>1. /\ head' = base[r] /\ remote' = remote /\ t \in Records /\ ~Push(r) /\ op[r] \in Ops
          /\ op[r] = "commit" => t = r
      BY <1>5 DEF MoveHead, Push, Progress
    <2>2. Entries(head)' = [Entries(head) EXCEPT ![t] = Entry(base[r], t)]
      BY <1>2, <1>4, <1>5, <2>1, CommitChangesOne DEF Entries
    <2>3. UNCHANGED <<Entries(remote), Owned>>
      BY <1>3, <1>4, <2>1
    <2>4. Entries(head)[t] = Entry(head, t)
      BY <2>1 DEF Entries
    <2>5. Becomes(r)  BY <1>2, <1>5, CommitChangesOne
    <2>6. CASE op[r] = "commit"
      <3>1. Entry(head, t) = Registry!Absent /\ Entry(base[r], t) = Registry!Live({})
        BY <2>5, <2>6 DEF Becomes
      <3> QED
        BY <2>1, <2>2, <2>3, <2>4, <3>1 DEF Registry!Create, Registry!Change, Entries, Owned
    <2>7. CASE op[r] = "delete"
      <3>1. Entry(head, t).status = "live" /\ Entry(base[r], t) = Registry!Withdrawn
        BY <2>5, <2>7 DEF Becomes
      <3>2. t \in Owned
        BY <1>5, <2>7 DEF MoveHead, Entitled, Owned
      <3> QED
        BY <2>1, <2>2, <2>3, <2>4, <3>1, <3>2 DEF Registry!Withdraw, Registry!Change, Entries,
           Owned
    <2>8. CASE op[r] = "vote"
      <3>1. /\ Entry(head, t).status = "live"
            /\ Entry(base[r], t) = Registry!Live(Entry(head, t).votes \cup {r})
        BY <2>5, <2>8 DEF Becomes
      <3>2. Registry!Vote(t, r)
        BY <2>1, <2>2, <2>3, <2>4, <3>1 DEF Registry!Vote, Registry!Change, Entries, Owned
      <3> QED  BY <2>1, <3>2
    <2>9. CASE op[r] = "query"  BY <2>5, <2>9 DEF Becomes
    <2> QED  BY <2>1, <2>6, <2>7, <2>8, <2>9 DEF Ops
  <1>6. CASE Push(r) \/ PushUnheard(r)
    <2>1. head' = head /\ remote' = head /\ remote.log \subseteq head.log /\ pc[r] = "push"
      BY <1>6 DEF Push, PushUnheard, Behind, clone
    <2>2. \A q \in Records : Registry!Later(Entry(remote, q), Entry(head, q))
      BY <1>2, <2>1 DEF Chain, LaterAll
    <2>3. Entries(head)' = Entries(head) /\ Entries(remote)' = Entries(head)
      BY <1>4, <2>1
    <2>4. \/ Owned' = Owned
          \/ \E q \in Records : Entries(head)[q].status = "live" /\ Owned' = Owned \cup {q}
      <3>1. CASE Push(r) /\ op[r] = "commit"
        <4>1. r \in Records /\ FilesOf(r) \subseteq DOMAIN head.tree /\ IsWhole(head.tree)
          BY <1>2, <2>1, <3>1 DEF Progress, Promised, Sound, Records
        <4>2. Entry(head, r) = Registry!Live(head.tree[<<r, "bm">>] \cap head.tree[<<r, "bmi">>])
          BY <4>1, EntryOfLive
        <4>3. Entry(head, r).status = "live"
          BY <4>2, LiveFields
        <4>4. Owned' = Owned \cup {r}  BY <1>3, <3>1
        <4> QED  BY <4>1, <4>3, <4>4 DEF Entries
      <3>2. CASE ~(Push(r) /\ op[r] = "commit")
        BY <1>3, <3>2
      <3> QED  BY <3>1, <3>2
    <2>5. Registry!Push
      BY <2>2, <2>3, <2>4 DEF Registry!Push, Entries, Owned
    <2> QED  BY <2>5
  <1>7. CASE Fetch(r) /\ head' = remote /\ ~Ahead
    <2>1. /\ remote' = remote /\ ~Push(r)
          /\ \A q \in Records : Registry!Later(Entry(head, q), Entry(remote, q))
      BY <1>2, <1>7 DEF Fetch, Push, Ahead, Chain, LaterAll
    <2>2. Entries(head)' = Entries(remote) /\ UNCHANGED <<Entries(remote), Owned>>
      BY <1>3, <1>4, <1>7, <2>1
    <2>3. Registry!Pull
      BY <2>1, <2>2 DEF Registry!Pull, Entries, Owned
    <2> QED  BY <2>3
  <1>8. CASE ~MoveHead(r) /\ ~Push(r) /\ ~PushUnheard(r) /\ ~(Fetch(r) /\ head' = remote /\ ~Ahead)
    <2>1. head' = head /\ remote' = remote
      BY <1>8 DEF Step, Fetch, FetchFails, Reset, ResetIndex, CheckOut, CheckedOut, Proceed,
         WriteFile, RemoveFile, ReadBitmaps, CanAddBit, AddBitPanics, EmptyBm, WriteBm, EmptyBmi,
         WriteBmi, ReadIndex, WriteIndex, CannotRemove, BuildCommit, PushFails, Based, clone
    <2> QED  BY <1>3, <1>4, <1>8, <2>1
  <1> QED  BY <1>5, <1>6, <1>7, <1>8

\* One request at a time, the store of files and commits implements the
\* registry: each commit changes one record as a whole and nothing else,
\* although it takes the whole index, each push publishes all that is known,
\* and no pull takes a record back in its life.
THEOREM StoreImplementsRegistry ==
  ASSUME MaxInFlight = 1
  PROVE  Spec => ImplementsRegistry
  <1> DEFINE All == Fated /\ Attributed /\ Linked
  <1>1. Init /\ Fated => All /\ Registry!Init
    <2> SUFFICES ASSUME Init, Fated PROVE All /\ Registry!Init
      OBVIOUS
    <2>1. Attributed
      BY DEF Init, Attributed, Framed, Accounted, NoCommit, EmptyTree
    <2>2. ASSUME NEW q \in Records
          PROVE  Entry(head, q) = Registry!Absent /\ Entry(remote, q) = Registry!Absent
      <3>1. IsWhole(head.tree) /\ head = NoCommit /\ remote = NoCommit
        BY DEF Init, IsWhole, NoCommit, EmptyTree
      <3>2. <<q, "bm">> \in FilesOf(q) /\ <<q, "bm">> \notin DOMAIN head.tree /\ ~Deleted(head, q)
        BY <3>1 DEF FilesOf, Kinds, NoCommit, EmptyTree, Deleted
      <3> QED  BY <3>1, <3>2, EntryOfWhole
    <2>3. Chain
      BY <2>2 DEF Chain, LaterAll, Registry!Later
    <2>4. \A r \in Requests : Started(r)
      BY DEF Init, Started, Saved, Voting
    <2>5. NobodyCut /\ {q \in Requests : Succeeded(q, "commit")} = {}
      BY DEF Init, NobodyCut, Succeeded
    <2>6. Registry!Init
      BY <2>2, <2>5 DEF Registry!Init
    <2> QED  BY <2>1, <2>3, <2>4, <2>6 DEF Linked
  <1>2. All /\ Fated' /\ [Next]_vars => All'
    BY AttributedNext, LinkedNext DEF Fated
  <1>3. All /\ Fated' /\ [Next]_vars => [Registry!Next]_(Registry!vars)
    <2> SUFFICES ASSUME All, Fated', [Next]_vars PROVE Registry!Next \/ UNCHANGED Registry!vars
      OBVIOUS
    <2> USE DEF Fated, OneAtATime, Serial, Handlers
    <2>1. CASE ~NobodyCut'
      BY <2>1 DEF Registry!Next
    <2>2. ASSUME NobodyCut', NEW r \in Requests, Step(r)
          PROVE  Registry!Next \/ UNCHANGED Registry!vars
      <3>1. NobodyCut
        BY <2>2, StepIsInFlight DEF NobodyCut, InFlight, Handling
      <3>2. CASE UNCHANGED <<Entries(head), Entries(remote), Owned>>
        BY <2>2, <3>1, <3>2 DEF Registry!vars, Entries, Owned
      <3>3. CASE ~UNCHANGED <<Entries(head), Entries(remote), Owned>>
        BY <2>2, <3>1, <3>3, RegistryStep DEF Registry!Next
      <3> QED  BY <3>2, <3>3
    <2>3. ASSUME NobodyCut', NEW r \in Requests, Arrive(r)
          PROVE  UNCHANGED Registry!vars
      <3>1. pc[r] = "new" /\ pc' = [pc EXCEPT ![r] = "pull"] /\ \A s \in Requests \ {r} : op'[s] = op[s]
        BY <2>3 DEF Arrive, Goto
      <3>2. NobodyCut /\ \A s \in Requests : Succeeded(s, "commit")' <=> Succeeded(s, "commit")
        BY <2>3, <3>1 DEF NobodyCut, Succeeded
      <3>3. \A q : Entry(head, q)' = Entry(head, q) /\ Entry(remote, q)' = Entry(remote, q)
        BY <2>3, ArrivalChangesNoEntry
      <3> QED  BY <2>3, <3>2, <3>3 DEF Registry!vars
    <2>4. ASSUME NobodyCut', NEW r \in Requests, Abort(r) PROVE FALSE
      BY <2>4 DEF Abort, Answer, Goto, NobodyCut
    <2>5. ASSUME NobodyCut', NEW q \in Foreign, Publish(q) PROVE Registry!Next
      <3>1. NobodyCut /\ IsWhole(remote'.tree) /\ q \in Records
        BY <2>5 DEF Publish, NobodyCut, Tidy, IsWhole, Records
      <3>2. /\ \A p \in Records : Entry(head, p)' = Entry(head, p)
            /\ \A p \in Records : p # q => Entry(remote, p)' = Entry(remote, p)
            /\ Entry(remote, q) = Registry!Absent /\ Entry(remote, q)' = Registry!Live({})
        BY <2>5, <3>1, PublishAnnounces
      <3>3. \A s \in Requests : Succeeded(s, "commit")' <=> Succeeded(s, "commit")
        BY <2>5 DEF Publish, Succeeded, request
      <3>4. Registry!Announce(q)
        BY <3>1, <3>2, <3>3 DEF Registry!Announce
      <3> QED  BY <2>5, <3>1, <3>4 DEF Registry!Next
    <2>6. CASE UNCHANGED vars
      BY <2>6 DEF vars, Registry!vars, Entry, Succeeded, NobodyCut
    <2> QED  BY <2>1, <2>2, <2>3, <2>4, <2>5, <2>6 DEF Next, AllAnswered
  <1> HIDE DEF All
  <1> QED  BY <1>1, <1>2, <1>3, FatedAlways, PTL DEF Spec, ImplementsRegistry, Registry!Spec

-----------------------------------------------------------------------------
(* A delete that was cut off can be repeated.                              *)

\* The token file of the record is in the tree as long as any of its files.
Carries(t, q) == FilesOf(q) \cap DOMAIN t # {} => <<q, "dt">> \in DOMAIN t

\* Whatever is read back, pulled or committed, the token comes with it; and no
\* file is left untracked in the working tree, where a pull would leave it.
\* While a handler checks out files, those it is done with are as in HEAD.
Retryable(q) ==
    /\ Carries(index, q) /\ Carries(head.tree, q) /\ Carries(remote.tree, q)
    /\ \A s \in Requests : pc[s] = "move" => Carries(base[s].tree, q)
    /\ (\A s \in Requests : pc[s] # "checkout") =>
          Carries(wt, q) /\ FilesOf(q) \cap DOMAIN wt \subseteq DOMAIN index
    /\ \A s \in Requests : pc[s] = "checkout" =>
          \A f \in FilesOf(q) \ DOMAIN held[s] : f \in DOMAIN wt <=> f \in DOMAIN head.tree

\* A handler stages the files of its list, and a commit has staged all of them
\* when it is built.
Indexed(r) ==
    /\ pc[r] \in {"stage", "add"} => at[r] <= Len(StagedKinds(op[r]))
    /\ pc[r] \in {"commit", "move", "push"} /\ op[r] = "commit" => FilesOf(r) \subseteq DOMAIN index

\* A vote writes bitmaps that are there.
InPlace(r) == pc[r] \in {"addbit"} \cup Voting => Bitmaps(r) \subseteq DOMAIN wt

\* A handler resets an index that the working tree agrees with.
Resetting(r) == pc[r] = "resetindex" => held[r] = index /\ ~Unstaged

NoneTorn == \A r \in Requests : pc[r] # "torn"

Retried ==
    /\ \A r \in Requests : Indexed(r) /\ InPlace(r) /\ Resetting(r)
    /\ NoneTorn => \A q \in Requests : Succeeded(q, "commit") => Retryable(q)

LEMMA IndexedStep ==
  ASSUME Serial, NEW r \in Requests, Progress(r), Indexed(r), Step(r)
  PROVE  Indexed(r)'
  <1> USE DEF Serial, Handlers, Goto, Answer
  <1>1. op' = op  BY StepLeavesRequests
  <1>2. CASE WriteIndex(r)
    <2> DEFINE kinds == StagedKinds(op[r])
    <2>1. Len(kinds) \in {2, 4} /\ pc'[r] \in {"stage", "commit"}
      BY <1>2 DEF WriteIndex, StagedKinds
    <2>2. ASSUME pc'[r] = "stage" PROVE at'[r] <= Len(kinds)
      <3>1. PICK n \in {2, 4} : n = Len(kinds)  BY <2>1
      <3>2. at[r] < n /\ at'[r] = at[r] + 1
        BY <1>2, <2>2, <3>1 DEF WriteIndex
      <3>3. at[r] \in 1..4  OBVIOUS
      <3>4. at'[r] <= n  BY <3>2, <3>3
      <3> QED  BY <3>1, <3>4
    <2>3. ASSUME pc'[r] = "commit", op[r] = "commit" PROVE FilesOf(r) \subseteq DOMAIN index'
      <3>1. kinds = <<"sj", "bm", "bmi", "dt">> /\ target[r] = r /\ pc[r] = "add" /\ Promised(r, wt)
        BY <1>2, <2>3 DEF StagedKinds, Progress, Saving, WriteIndex
      <3>2. at[r] = 4
        <4>1. ~(at[r] < Len(kinds))  BY <1>2, <2>3 DEF WriteIndex
        <4>2. Len(kinds) = 4  BY <3>1
        <4> QED  BY <4>1, <4>2
      <3>3. \A i \in 1..4 : Alike(wt, index', Nth(r, kinds, i))
        BY <1>2, <3>2, OneMoreStaged
      <3>4. FilesOf(r) \subseteq DOMAIN wt  BY <2>3, <3>1 DEF Promised
      <3>5. \A i \in 1..4 : Nth(r, kinds, i) \in DOMAIN wt
        BY <3>1, <3>4 DEF Nth, FilesOf, Kinds
      <3>6. \A i \in 1..4 : Nth(r, kinds, i) \in DOMAIN index'
        BY <3>3, <3>5 DEF Alike
      <3>7. \A i \in 1..4 : <<r, WriteOrder[i]>> \in DOMAIN index'
        BY <3>1, <3>6 DEF Nth, WriteOrder
      <3> QED  BY <3>7, FourFiles
    <2> QED  BY <1>1, <2>1, <2>2, <2>3 DEF Indexed
  <1>3. CASE BuildCommit(r) \/ MoveHead(r)
    BY <1>1, <1>3 DEF BuildCommit, MoveHead, Indexed, clone
  <1>6. CASE WriteFile(r) \/ RemoveFile(r) \/ WriteBmi(r) \/ ReadIndex(r)
    <2>1. pc'[r] \notin {"commit", "move", "push"}
      BY <1>6 DEF WriteFile, RemoveFile, Advance, WriteBmi, ReadIndex
    <2>2. ASSUME pc'[r] \in {"stage", "add"} PROVE at'[r] <= Len(StagedKinds(op[r]))
      <3>1. at'[r] = 1 \/ (ReadIndex(r) /\ at' = at)
        BY <1>6, <2>2 DEF WriteFile, RemoveFile, Advance, WriteBmi, ReadIndex, Progress, Before, Voting
      <3> QED  BY <3>1 DEF ReadIndex, StagedKinds, Indexed
    <2> QED  BY <1>1, <2>1, <2>2 DEF Indexed
  <1>4. CASE Proceed(r)
    <2>1. pc'[r] \in AfterPull(r) /\ op[r] \in Ops  BY <1>4 DEF Proceed
    <2> QED  BY <1>1, <2>1 DEF AfterPull, Ops, Indexed
  <1>5. CASE \/ Fetch(r) \/ FetchFails(r)
             \/ Reset(r) \/ ResetIndex(r) \/ CheckOut(r) \/ CheckedOut(r)
             \/ ReadBitmaps(r) \/ AddBitPanics(r) \/ EmptyBm(r) \/ WriteBm(r) \/ EmptyBmi(r)
             \/ CannotRemove(r) \/ Push(r) \/ PushFails(r) \/ PushUnheard(r)
    <2>1. pc'[r] \notin {"stage", "add", "commit", "move", "push"}
      BY <1>5 DEF Fetch, FetchFails, Reset, ResetIndex, CheckOut, CheckedOut, ReadBitmaps,
         AddBitPanics, EmptyBm, WriteBm, EmptyBmi, CannotRemove, Push, PushFails, PushUnheard
    <2> QED  BY <2>1 DEF Indexed
  <1> QED  BY <1>2, <1>3, <1>4, <1>5, <1>6 DEF Step

LEMMA InPlaceStep ==
  ASSUME Serial, NEW r \in Requests, InPlace(r), Step(r)
  PROVE  InPlace(r)'
  <1> USE DEF Serial, Handlers, Goto, Answer
  <1>1. op' = op /\ target' = target /\ Bitmaps(r)' = Bitmaps(r)
    BY StepLeavesRequests DEF Bitmaps
  <1>2. CASE Proceed(r)
    <2>1. pc'[r] \in AfterPull(r) /\ op[r] \in Ops /\ wt' = wt  BY <1>2 DEF Proceed, clone
    <2>2. pc'[r] \notin Voting  BY <2>1 DEF AfterPull, Ops, Voting
    <2>3. pc'[r] = "addbit" => Bitmaps(r) \subseteq DOMAIN wt
      BY <2>1 DEF AfterPull, Ops, Bitmaps
    <2> QED  BY <1>1, <2>1, <2>2, <2>3 DEF InPlace
  <1>3. CASE ReadBitmaps(r)
    BY <1>1, <1>3 DEF ReadBitmaps, CanAddBit, InPlace, clone
  <1>4. CASE EmptyBm(r) \/ WriteBm(r) \/ EmptyBmi(r)
    <2>1. DOMAIN wt \subseteq DOMAIN wt' /\ pc[r] \in Voting
      BY <1>4 DEF EmptyBm, WriteBm, EmptyBmi, EmptyBitmap, WriteBitmap, With, Voting
    <2> QED  BY <1>1, <2>1 DEF InPlace
  <1>5. CASE ~Proceed(r) /\ ~ReadBitmaps(r) /\ ~EmptyBm(r) /\ ~WriteBm(r) /\ ~EmptyBmi(r)
    <2>1. pc'[r] \notin {"addbit"} \cup Voting
      BY <1>5 DEF Step, Fetch, FetchFails, Reset, ResetIndex, CheckOut, CheckedOut, WriteFile,
         RemoveFile, Advance, AddBitPanics, WriteBmi, ReadIndex, WriteIndex, CannotRemove,
         BuildCommit, MoveHead, Push, PushFails, PushUnheard, Voting
    <2> QED  BY <2>1 DEF InPlace
  <1> QED  BY <1>2, <1>3, <1>4, <1>5

LEMMA ResettingStep ==
  ASSUME Serial, NEW r \in Requests, Step(r)
  PROVE  Resetting(r)'
  <1> USE DEF Serial, Handlers, Goto, Answer
  <1>1. CASE Reset(r)
    BY <1>1 DEF Reset, Resetting, Unstaged
  <1>2. CASE Proceed(r)
    <2>1. pc'[r] \in AfterPull(r) /\ op[r] \in Ops  BY <1>2 DEF Proceed
    <2> QED  BY <2>1 DEF AfterPull, Ops, Resetting
  <1>3. CASE ~Reset(r) /\ ~Proceed(r)
    <2>1. pc'[r] # "resetindex"
      BY <1>3 DEF Step, Fetch, FetchFails, ResetIndex, CheckOut, CheckedOut, WriteFile,
         RemoveFile, Advance, ReadBitmaps, CanAddBit, AddBitPanics, EmptyBm, WriteBm, EmptyBmi,
         WriteBmi, ReadIndex, WriteIndex, CannotRemove, BuildCommit, MoveHead, Push, PushFails,
         PushUnheard
    <2> QED  BY <2>1 DEF Resetting
  <1> QED  BY <1>1, <1>2, <1>3

\* The token of an answered commit is removed last, and staged last.
LEMMA RetryableStep ==
  ASSUME Serial, NEW r \in Requests, Progress(r), Indexed(r), InPlace(r), Resetting(r), Step(r),
         NEW q \in Requests, q # r, Retryable(q)
  PROVE  Retryable(q)'
  <1> USE DEF Serial, Handlers
  <1>1. ASSUME NEW s \in Requests, s # r PROVE pc[s] # "checkout" /\ pc'[s] \notin {"checkout", "move"}
    BY <1>1, OthersRest DEF Handling
  <1> DEFINE AsInHead(c) == \A f \in FilesOf(q) \ c : f \in DOMAIN wt <=> f \in DOMAIN head.tree
  <1>2. SUFFICES /\ Carries(index', q) /\ Carries(head'.tree, q) /\ Carries(remote'.tree, q)
                 /\ pc'[r] = "move" => Carries(base'[r].tree, q)
                 /\ pc'[r] # "checkout" =>
                       Carries(wt', q) /\ FilesOf(q) \cap DOMAIN wt' \subseteq DOMAIN index'
                 /\ pc'[r] = "checkout" =>
                       \A f \in FilesOf(q) \ DOMAIN held'[r] :
                           f \in DOMAIN wt' <=> f \in DOMAIN head'.tree
    BY <1>1 DEF Retryable, Carries, FilesOf
  <1>3. /\ Carries(index, q) /\ Carries(head.tree, q) /\ Carries(remote.tree, q)
        /\ pc[r] = "move" => Carries(base[r].tree, q)
        /\ pc[r] # "checkout" => Carries(wt, q) /\ FilesOf(q) \cap DOMAIN wt \subseteq DOMAIN index
        /\ pc[r] = "checkout" => AsInHead(DOMAIN held[r])
    BY <1>1 DEF Retryable
  <1>4. CASE Fetch(r)  BY <1>3, <1>4 DEF Fetch, Goto, Answer, local
  <1>5. CASE Reset(r)  BY <1>3, <1>5 DEF Reset, Based, Goto, Answer
  <1>15. CASE ResetIndex(r)
    <2> DEFINE tree    == head.tree
               changed == Changed(index, tree)
    <2>1. /\ base[r] = head /\ held[r] = index /\ ~Unstaged /\ pc[r] = "resetindex"
          /\ index' = tree /\ UNCHANGED <<wt, head, remote>>
      BY <1>15 DEF ResetIndex, Based, Resetting
    <2>2. \/ changed = {} /\ pc'[r] = "pulled"
          \/ pc'[r] = "checkout" /\ held'[r] = [f \in changed \cap Changed(wt, tree) |-> {}]
      BY <1>15, <2>1 DEF ResetIndex, Goto
    <2>3. ASSUME NEW f \in FilesOf(q), f \notin changed \cap Changed(wt, tree)
          PROVE  f \in DOMAIN wt <=> f \in DOMAIN tree
      <3>1. /\ f \in DOMAIN wt => f \in DOMAIN index
            /\ f \in DOMAIN index => f \in DOMAIN wt /\ wt[f] = index[f]
        BY <1>3, <2>1 DEF Unstaged
      <3> QED  BY <2>3, <3>1 DEF Changed
    <2>4. CASE pc'[r] = "pulled"
      <3>1. \A f \in FilesOf(q) : f \in DOMAIN wt <=> f \in DOMAIN tree
        BY <2>2, <2>3, <2>4
      <3>2. <<q, "dt">> \in FilesOf(q)  BY DEF FilesOf, Kinds
      <3> QED  BY <1>3, <2>1, <2>4, <3>1, <3>2 DEF Carries
    <2>5. CASE pc'[r] = "checkout"
      <3>1. DOMAIN held'[r] = changed \cap Changed(wt, tree)
        BY <2>2, <2>5
      <3> QED  BY <1>3, <2>1, <2>3, <2>5, <3>1
    <2> QED  BY <2>2, <2>4, <2>5
  <1>16. CASE CheckOut(r)
    <2>1. /\ base[r] = head /\ UNCHANGED <<index, head, remote, pc>> /\ pc[r] = "checkout"
      BY <1>16 DEF CheckOut, Based
    <2>2. PICK g : \/ /\ wt' = Without(wt, {g})
                      /\ held'[r] = IF g \in DOMAIN head.tree THEN held[r] ELSE Without(held[r], {g})
                      /\ g \in DOMAIN held[r]
                   \/ /\ wt' = Over(Only(head.tree, {g}), wt)
                      /\ held'[r] = Without(held[r], {g})
                      /\ g \notin DOMAIN wt
      BY <1>16, <2>1 DEF CheckOut
    <2>3. ASSUME NEW f \in FilesOf(q) \ DOMAIN held'[r]
          PROVE  f \in DOMAIN wt' <=> f \in DOMAIN head.tree
      <3>1. CASE f = g  BY <2>2, <2>3, <3>1 DEF Without, Over, Only
      <3>2. CASE f # g
        <4>1. f \notin DOMAIN held[r]  BY <2>2, <2>3, <3>2 DEF Without
        <4>2. f \in DOMAIN wt' <=> f \in DOMAIN wt
          BY <2>2, <3>2 DEF Without, Over, Only
        <4> QED  BY <1>3, <2>1, <4>1, <4>2
      <3> QED  BY <3>1, <3>2
    <2> QED  BY <1>3, <2>1, <2>3
  <1>17. CASE CheckedOut(r)
    <2>1. /\ base[r] = head /\ index' = head.tree /\ UNCHANGED <<wt, head, remote>>
          /\ pc[r] = "checkout" /\ pc'[r] = "pulled" /\ DOMAIN held[r] = {}
      BY <1>17 DEF CheckedOut, Based, Goto
    <2>2. \A f \in FilesOf(q) : f \in DOMAIN wt <=> f \in DOMAIN head.tree
      BY <1>3, <2>1
    <2>3. <<q, "dt">> \in FilesOf(q)  BY DEF FilesOf, Kinds
    <2> QED  BY <1>3, <2>1, <2>2, <2>3 DEF Carries
  <1>6. CASE WriteFile(r)
    <2>1. FileAt(r, WriteOrder) \notin FilesOf(q)
      BY <1>6 DEF WriteFile, Progress, FileAt, FilesOf
    <2>2. /\ FilesOf(q) \cap DOMAIN wt' = FilesOf(q) \cap DOMAIN wt
          /\ DOMAIN wt \subseteq DOMAIN wt'
      BY <1>6, <2>1 DEF WriteFile, With
    <2> QED  BY <1>3, <1>6, <2>2 DEF WriteFile, Advance, Goto, Carries
  <1>7. CASE RemoveFile(r)
    <2> DEFINE f0 == FileAt(r, RemovalOrder)
    <2>4. /\ pc[r] = "remove" /\ pc'[r] \in {"remove", "stage", "succeeded"}
          /\ Carries(wt, q) /\ FilesOf(q) \cap DOMAIN wt \subseteq DOMAIN index
      BY <1>3, <1>7 DEF RemoveFile, Advance, Goto, Answer
    <2>1. /\ DOMAIN wt' = DOMAIN wt \ {f0} /\ UNCHANGED <<index, head, remote>> /\ pc'[r] # "move"
          /\ \A i \in 1..(at[r] - 1) : Nth(r, RemovalOrder, i) \notin DOMAIN wt
      BY <1>7 DEF RemoveFile, Without, Progress, Advance, Goto, Answer
    <2>2. ASSUME f0 = <<q, "dt">> PROVE FilesOf(q) \cap DOMAIN wt' = {}
      <3>1. target[r] = q /\ at[r] = 4
        BY <2>2 DEF FileAt, RemovalOrder
      <3>2. \A i \in 1..4 : <<q, RemovalOrder[i]>> \notin DOMAIN wt'
        BY <2>1, <3>1 DEF FileAt, Nth
      <3> QED  BY <3>2, NoFiles
    <2>3. Carries(wt', q)  BY <2>1, <2>2, <2>4 DEF Carries
    <2> QED  BY <1>3, <2>1, <2>3, <2>4
  <1>8. CASE EmptyBm(r) \/ WriteBm(r) \/ EmptyBmi(r) \/ WriteBmi(r)
    <2>1. PICK kind \in {"bm", "bmi"} :
             (EmptyBitmap(r, kind) \/ WriteBitmap(r, kind)) /\ <<target[r], kind>> \in DOMAIN wt
      BY <1>8 DEF EmptyBm, WriteBm, EmptyBmi, WriteBmi, InPlace, Voting, Bitmaps
    <2>2. DOMAIN wt' = DOMAIN wt  BY <2>1 DEF EmptyBitmap, WriteBitmap, With
    <2> QED  BY <1>3, <1>8, <2>2 DEF EmptyBm, WriteBm, EmptyBmi, WriteBmi, Goto, Carries
  <1>9. CASE WriteIndex(r)
    <2> DEFINE f0 == FileAt(r, StagedKinds(op[r]))
    <2>1. /\ held[r] = index /\ UNCHANGED <<wt, head, remote>>
          /\ pc[r] = "add" /\ pc'[r] \in {"stage", "commit"}
      BY <1>9 DEF WriteIndex, Progress, Goto
    <2>4. Carries(wt, q) /\ FilesOf(q) \cap DOMAIN wt \subseteq DOMAIN index
      BY <1>3, <2>1
    <2>2. CASE f0 \in DOMAIN wt
      <3>1. DOMAIN index' = DOMAIN index \cup {f0} \/ index' = index
        BY <1>9, <2>1, <2>2 DEF WriteIndex, With
      <3>2. f0 \in FilesOf(q) => f0 \in DOMAIN index
        BY <2>2, <2>4
      <3>3. Carries(index', q) /\ DOMAIN index \subseteq DOMAIN index'
        BY <1>3, <3>1, <3>2 DEF Carries
      <3> QED  BY <1>3, <2>1, <2>4, <3>3
    <2>3. CASE f0 \notin DOMAIN wt
      <3>1. DOMAIN index' = DOMAIN index \ {f0}
        BY <1>9, <2>1, <2>3 DEF WriteIndex, Without
      <3>2. ASSUME f0 = <<q, "dt">> PROVE FilesOf(q) \cap DOMAIN index' = {}
        <4>7. pc[r] = "add" /\ target[r] = q /\ StagedKinds(op[r])[at[r]] = "dt"
          BY <1>9, <3>2 DEF WriteIndex, FileAt
        <4>8. /\ op[r] \in {"commit", "delete", "vote"} /\ op[r] # "commit"
              /\ at[r] <= Len(StagedKinds(op[r]))
          BY <4>7 DEF Progress, Saving, Indexed
        <4>9. op[r] # "vote"
          BY <4>7, <4>8 DEF StagedKinds
        <4>1. target[r] = q /\ op[r] = "delete"
          BY <4>7, <4>8, <4>9
        <4>2. StagedKinds(op[r]) = RemovalOrder /\ at[r] = 4
          BY <3>2, <4>1 DEF StagedKinds, RemovalOrder, FileAt
        <4>3. \A i \in 1..4 : Alike(wt, index', Nth(r, RemovalOrder, i))
          BY <1>9, <4>2, OneMoreStaged
        <4>4. FilesOf(q) \cap DOMAIN wt = {}
          BY <1>9, <4>1 DEF WriteIndex, Progress, Saving, Promised
        <4>5. \A i \in 1..4 : <<q, RemovalOrder[i]>> \notin DOMAIN wt
          BY <4>4 DEF FilesOf, Kinds, RemovalOrder
        <4>6. \A i \in 1..4 : <<q, RemovalOrder[i]>> \notin DOMAIN index'
          BY <4>1, <4>3, <4>5 DEF Alike, Nth
        <4> QED  BY <4>6, NoFiles
      <3>3. Carries(index', q)  BY <1>3, <3>1, <3>2 DEF Carries
      <3>4. FilesOf(q) \cap DOMAIN wt \subseteq DOMAIN index'
        BY <2>3, <2>4, <3>1
      <3> QED  BY <1>3, <2>1, <2>4, <3>3, <3>4
    <2> QED  BY <2>2, <2>3
  <1>10. CASE BuildCommit(r)
    BY <1>3, <1>10 DEF BuildCommit, Goto, Answer, clone
  <1>11. CASE MoveHead(r)  BY <1>3, <1>11 DEF MoveHead, Goto
  <1>12. CASE Push(r) \/ PushFails(r) \/ PushUnheard(r)
    BY <1>3, <1>12 DEF Push, PushFails, PushUnheard, Goto, Answer, clone
  <1>13. CASE Proceed(r)
    <2>1. pc'[r] \in AfterPull(r) /\ op[r] \in Ops  BY <1>13 DEF Proceed, Goto
    <2>2. pc[r] = "pulled" /\ pc'[r] \notin {"move", "checkout"}
      BY <1>13, <2>1 DEF Proceed, AfterPull, Ops
    <2> QED  BY <1>3, <1>13, <2>2 DEF Proceed, clone
  <1>14. CASE FetchFails(r) \/ ReadBitmaps(r) \/ AddBitPanics(r) \/ ReadIndex(r) \/ CannotRemove(r)
    BY <1>3, <1>14 DEF FetchFails, ReadBitmaps, CanAddBit, AddBitPanics, ReadIndex, CannotRemove,
       Goto, Answer, clone
  <1> QED
    BY <1>4, <1>5, <1>6, <1>7, <1>8, <1>9, <1>10, <1>11, <1>12, <1>13, <1>14, <1>15, <1>16, <1>17
       DEF Step

\* When a commit is answered, its token is with its files everywhere.
LEMMA CommitIsRetryable ==
  ASSUME Serial, NEW r \in Requests, Progress(r), Indexed(r), Step(r),
         pc'[r] = "succeeded", op[r] = "commit"
  PROVE  Retryable(r)'
  <1> USE DEF Serial, Handlers, Goto, Answer
  <1>1. Push(r)
    <2>1. ~Proceed(r)
      BY DEF Proceed, AfterPull
    <2>2. ~RemoveFile(r)  BY DEF RemoveFile, Progress
    <2> QED
      BY <2>1, <2>2 DEF Step, Fetch, FetchFails, Reset, ResetIndex, CheckOut, CheckedOut,
         WriteFile, Advance, ReadBitmaps, CanAddBit, AddBitPanics, EmptyBm, WriteBm, EmptyBmi,
         WriteBmi, ReadIndex, WriteIndex, CannotRemove, BuildCommit, MoveHead, PushFails,
         PushUnheard
  <1>2. /\ UNCHANGED <<wt, index, head>> /\ remote' = head
        /\ FilesOf(r) \subseteq DOMAIN wt /\ FilesOf(r) \subseteq DOMAIN index
        /\ FilesOf(r) \subseteq DOMAIN head.tree
    BY <1>1 DEF Push, Progress, Saving, Promised, Indexed
  <1>3. <<r, "dt">> \in FilesOf(r)  BY DEF FilesOf, Kinds
  <1>4. ASSUME NEW s \in Requests PROVE pc'[s] \notin {"checkout", "move"}
    BY OthersRest DEF Handling
  <1> QED  BY <1>2, <1>3, <1>4 DEF Retryable, Carries, FilesOf

LEMMA RetriedNext ==
  ASSUME Serial, \A r \in Requests : Progress(r), Retried, [Next]_vars
  PROVE  Retried'
  <1> USE DEF Serial
  <1>1. ASSUME NEW r \in Requests, Step(r) PROVE Retried'
    <2>1. \A s \in Requests \ {r} : pc[s] \notin Handling /\ pc'[s] = pc[s]
      BY <1>1, OthersRest
    <2>2. op' = op /\ target' = target  BY <1>1, StepLeavesRequests
    <2>3. \A s \in Requests \ {r} : Indexed(s)' /\ InPlace(s)' /\ Resetting(s)'
      BY <2>1 DEF Indexed, InPlace, Resetting, Voting, Handling
    <2>5. NoneTorn' => NoneTorn
      <3>1. r \in InFlight  BY <1>1, StepIsInFlight
      <3> QED  BY <2>1, <3>1 DEF NoneTorn, InFlight, Handling
    <2>4. ASSUME NoneTorn', NEW q \in Requests, Succeeded(q, "commit")' PROVE Retryable(q)'
      <3>1. CASE q = r
        BY <1>1, <2>2, <2>4, <3>1, CommitIsRetryable DEF Succeeded, Retried
      <3>2. CASE q # r
        <4>1. Succeeded(q, "commit")  BY <2>1, <2>2, <2>4, <3>2 DEF Succeeded
        <4> QED  BY <1>1, <2>4, <2>5, <3>2, <4>1, RetryableStep DEF Retried
      <3> QED  BY <3>1, <3>2
    <2> QED  BY <1>1, <2>3, <2>4, IndexedStep, InPlaceStep, ResettingStep DEF Retried
  <1>2. ASSUME NEW r \in Requests, Arrive(r) PROVE Retried'
    <2>1. /\ UNCHANGED <<wt, index, head, remote, at, held, base>>
          /\ pc' = [pc EXCEPT ![r] = "pull"] /\ pc[r] = "new"
          /\ \A s \in Requests \ {r} : op'[s] = op[s] /\ target'[s] = target[s]
      BY <1>2 DEF Arrive, Goto, clone, local, Handlers
    <2>2. \A s \in Requests : Indexed(s)' /\ InPlace(s)' /\ Resetting(s)'
      BY <2>1 DEF Retried, Indexed, InPlace, Resetting, Unstaged, Voting, Bitmaps, Handlers
    <2>3. NoneTorn' => \A q \in Requests : Succeeded(q, "commit")' => Retryable(q)'
      BY <2>1 DEF Retried, NoneTorn, Succeeded, Retryable, Carries, FilesOf, Handlers
    <2> QED  BY <2>2, <2>3 DEF Retried
  <1>3. ASSUME NEW r \in Requests, Abort(r) PROVE Retried'
    <2>1. /\ UNCHANGED <<wt, index, head, remote, op, target>>
          /\ pc' = [pc EXCEPT ![r] = IF pc[r] = "checkout" THEN "torn" ELSE "cut"]
          /\ \A s \in Requests \ {r} : base'[s] = base[s] /\ at'[s] = at[s] /\ held'[s] = held[s]
      BY <1>3 DEF Abort, Answer, Goto, clone, request, Handlers
    <2>2. \A s \in Requests : Indexed(s)' /\ InPlace(s)' /\ Resetting(s)'
      BY <2>1 DEF Retried, Indexed, InPlace, Resetting, Unstaged, Voting, Bitmaps, Handlers
    <2>3. ASSUME NoneTorn' PROVE \A q \in Requests : Succeeded(q, "commit")' => Retryable(q)'
      <3>1. /\ pc' = [pc EXCEPT ![r] = "cut"] /\ pc[r] # "checkout" /\ NoneTorn
        BY <1>3, <2>1, <2>3 DEF NoneTorn, Abort, Handling, Handlers
      <3> QED  BY <2>1, <3>1 DEF Retried, Succeeded, Retryable, Carries, FilesOf, Handlers
    <2> QED  BY <2>2, <2>3 DEF Retried
  <1>4. ASSUME NEW p \in Foreign, Publish(p) PROVE Retried'
    <2>1. /\ UNCHANGED <<wt, index, head, op, target, pc, at, held, base>>
          /\ DOMAIN remote'.tree = DOMAIN remote.tree \cup FilesOf(p)
      BY <1>4 DEF Publish, clone, request, local, Over
    <2>2. \A s \in Requests : Indexed(s)' /\ InPlace(s)' /\ Resetting(s)'
      BY <2>1 DEF Retried, Indexed, InPlace, Resetting, Unstaged, Bitmaps
    <2>3. ASSUME NEW q \in Requests PROVE FilesOf(q) \cap FilesOf(p) = {}
      BY <1>4, ForeignAssumption DEF FilesOf
    <2>4. NoneTorn' => \A q \in Requests : Succeeded(q, "commit")' => Retryable(q)'
      BY <2>1, <2>3 DEF Retried, NoneTorn, Succeeded, Retryable, Carries, FilesOf
    <2> QED  BY <2>2, <2>4 DEF Retried
  <1>5. CASE UNCHANGED vars
    BY <1>5 DEF vars, Retried, Indexed, InPlace, Resetting, Unstaged, Bitmaps, NoneTorn, Succeeded,
       Retryable, Carries, FilesOf
  <1> QED  BY <1>1, <1>2, <1>3, <1>4, <1>5 DEF Next, AllAnswered

\* One request at a time, a delete that was cut off can be repeated with the
\* same token: wherever it stopped, and whatever was pulled and committed
\* since, a record of which any file is on disk still has its token there,
\* unless a pull was cut off in checking out files, or is at it.
THEOREM TokenStaysLast ==
  ASSUME MaxInFlight = 1
  PROVE  Spec => []TokenOutlivesFiles
  <1> DEFINE Known == Types /\ Serial /\ \A r \in Requests : Progress(r)
  <1>1. Init => Known /\ Retried
    <2>1. Init => \A r \in Requests : Progress(r)
      BY DEF Init, Progress, Before, Saving, Voting
    <2>2. Init => Retried
      BY DEF Init, Retried, Indexed, InPlace, Resetting, Voting, Succeeded
    <2> QED  BY <2>1, <2>2, SerialInit
  <1>2. Known /\ Retried /\ [Next]_vars => Known' /\ Retried'
    BY SerialNext, ProgressNext, RetriedNext
  <1>3. Retried => TokenOutlivesFiles
    BY DEF Retried, Retryable, Carries, NoneTorn, NothingTorn, TokenOutlivesFiles
  <1> HIDE DEF Known
  <1> QED  BY <1>1, <1>2, <1>3, PTL DEF Spec

-----------------------------------------------------------------------------
(* What was answered stays on disk, however requests interleave.           *)

\* A request that is in a history has come to its push.
Made(r) == pc[r] \in {"push"} \cup Ended

\* When every push is heard and nobody else publishes, HEAD is never behind:
\* either it is what was pushed last, or it has a commit that was not.  So no
\* pull ever resets the working tree.
Restoring == {"reset", "resetindex", "checkout"}
NeverReset ==
    /\ seen = remote.log
    /\ Ahead \/ head = remote
    /\ \A r \in Requests :
          /\ pc[r] \notin Restoring
          /\ r \in head.log \cup remote.log => Made(r)
          /\ pc[r] = "move" =>
                /\ r \in base[r].log
                /\ \A s \in Requests : s \in base[r].log => s = r \/ Made(s)

\* The assumption: nobody else publishes, and every push that lands is heard.
Undisturbed == Foreign = {} /\ "unheard" \notin Faults

\* A step leaves the other handlers where they are.
LEMMA OthersWait ==
  ASSUME Handlers, NEW r \in Requests, Step(r) \/ Abort(r), NEW s \in Requests, s # r
  PROVE  /\ pc'[s] = pc[s] /\ at'[s] = at[s] /\ held'[s] = held[s] /\ base'[s] = base[s]
         /\ op' = op /\ target' = target
  <1> USE DEF Handlers, Goto, Answer
  <1>1. CASE Abort(r)  BY <1>1 DEF Abort, request
  <1>2. CASE Step(r)
    <2>1. pc'[s] = pc[s] /\ op' = op /\ target' = target
      BY <1>2, StepIsInFlight, StepLeavesRequests
    <2>2. at'[s] = at[s]
      BY <1>2 DEF Step, Fetch, FetchFails, Reset, ResetIndex, CheckOut, CheckedOut, Proceed,
         WriteFile, RemoveFile, ReadBitmaps, CanAddBit, AddBitPanics, EmptyBm, WriteBm, EmptyBmi,
         WriteBmi, ReadIndex, WriteIndex, CannotRemove, BuildCommit, MoveHead, Push, PushFails,
         PushUnheard, Advance, local
    <2>3. held'[s] = held[s]
      BY <1>2 DEF Step, Fetch, FetchFails, Reset, ResetIndex, CheckOut, CheckedOut, Proceed,
         WriteFile, RemoveFile, ReadBitmaps, CanAddBit, AddBitPanics, EmptyBm, WriteBm, EmptyBmi,
         WriteBmi, ReadIndex, WriteIndex, CannotRemove, BuildCommit, MoveHead, Push, PushFails,
         PushUnheard, local
    <2>4. base'[s] = base[s]
      BY <1>2 DEF Step, Fetch, FetchFails, Reset, ResetIndex, CheckOut, CheckedOut, Proceed,
         WriteFile, RemoveFile, ReadBitmaps, CanAddBit, AddBitPanics, EmptyBm, WriteBm, EmptyBmi,
         WriteBmi, ReadIndex, WriteIndex, CannotRemove, BuildCommit, MoveHead, Push, PushFails,
         PushUnheard, local
    <2> QED  BY <2>1, <2>2, <2>3, <2>4
  <1> QED  BY <1>1, <1>2

LEMMA MadeStays ==
  ASSUME Handlers, [Next]_vars, NEW r \in Requests, Made(r)
  PROVE  Made(r)'
  <1> USE DEF Handlers, Goto, Answer, Made, Ended
  <1>1. CASE pc[r] \in Ended  BY <1>1, EndedStays
  <1>2. CASE pc[r] = "push"
    <2>1. ASSUME NEW s \in Requests, Step(s) PROVE Made(r)'
      <3>1. CASE s = r
        BY <1>2, <2>1, <3>1 DEF Step, Fetch, FetchFails, Reset, ResetIndex, CheckOut, CheckedOut,
           Proceed, WriteFile, RemoveFile, ReadBitmaps, CanAddBit, AddBitPanics, EmptyBm, WriteBm,
           EmptyBmi, WriteBmi, ReadIndex, WriteIndex, CannotRemove, BuildCommit, MoveHead, Push,
           PushFails, PushUnheard
      <3>2. CASE s # r  BY <1>2, <2>1, <3>2, OthersWait
      <3> QED  BY <3>1, <3>2
    <2>2. ASSUME NEW s \in Requests, Arrive(s) \/ Abort(s) PROVE Made(r)'
      BY <1>2, <2>2 DEF Arrive, Abort
    <2> QED  BY <1>2, <2>1, <2>2 DEF Next, Publish, AllAnswered, vars
  <1> QED  BY <1>1, <1>2

LEMMA NeverResetStep ==
  ASSUME Types, Undisturbed, NeverReset, NEW r \in Requests, Step(r)
  PROVE  NeverReset'
  <1> USE DEF Types, Handlers, Goto, Answer, Restoring
  <1>0. [Next]_vars  BY DEF Next
  <1>1. \A s \in Requests : Made(s) => Made(s)'  BY <1>0, MadeStays
  <1>2. pc[r] \notin Restoring /\ (r \in head.log \cup remote.log => Made(r))
    BY DEF NeverReset
  <1>3. ASSUME NEW s \in Requests, s # r
        PROVE  pc'[s] = pc[s] /\ base'[s] = base[s]
    BY <1>3, OthersWait
  \* It is enough to look at the histories, and at the handler that takes the step.
  <1>4. ASSUME seen' = remote'.log, Ahead' \/ head' = remote', pc'[r] \notin Restoring,
               \A s \in Requests : s \in head'.log \cup remote'.log => Made(s)',
               pc'[r] = "move" => /\ r \in base'[r].log
                                  /\ \A s \in Requests : s \in base'[r].log => s = r \/ Made(s)'
        PROVE  NeverReset'
    BY <1>1, <1>3, <1>4 DEF NeverReset
  <1>5. CASE Fetch(r)
    <2>1. head' = head /\ remote' = remote /\ seen' = remote.log /\ pc'[r] \in {"pulled", "failed"}
      BY <1>5 DEF Fetch, NeverReset, Behind
    <2> QED  BY <1>1, <1>4, <2>1 DEF NeverReset, Ahead
  <1>6. CASE MoveHead(r)
    <2>1. /\ head' = base[r] /\ remote' = remote /\ seen' = seen /\ pc'[r] = "push"
          /\ r \in base[r].log /\ r \notin remote.log
          /\ \A s \in Requests : s \in base[r].log => s = r \/ Made(s)
      BY <1>6, <1>2 DEF MoveHead, NeverReset, Made, Ended
    <2>2. Ahead'  BY <2>1 DEF Ahead
    <2>3. \A s \in Requests : s \in head'.log \cup remote'.log => Made(s)'
      BY <1>1, <2>1 DEF NeverReset, Made
    <2> QED  BY <1>4, <2>1, <2>2, <2>3 DEF NeverReset
  <1>7. CASE Push(r)
    <2>1. head' = head /\ remote' = head /\ seen' = head.log /\ pc'[r] = "succeeded"
      BY <1>7 DEF Push
    <2> QED  BY <1>1, <1>4, <2>1 DEF NeverReset
  <1>8. CASE BuildCommit(r)
    <2>1. /\ UNCHANGED <<head, remote, seen>>
          /\ \/ pc'[r] = "failed"
             \/ pc'[r] = "move" /\ base'[r].log = head.log \cup {r}
      BY <1>8 DEF BuildCommit, clone
    <2> QED  BY <1>1, <1>4, <2>1 DEF NeverReset, Ahead
  <1>9. CASE Proceed(r)
    <2>1. pc'[r] \in AfterPull(r) /\ op[r] \in Ops  BY <1>9 DEF Proceed
    <2>2. pc'[r] \notin Restoring \cup {"move"}  BY <2>1 DEF AfterPull, Ops
    <2>3. UNCHANGED <<head, remote, seen>>  BY <1>9 DEF Proceed, clone
    <2> QED  BY <1>1, <1>4, <2>2, <2>3 DEF NeverReset, Ahead
  <1>10. CASE ~Fetch(r) /\ ~MoveHead(r) /\ ~Push(r) /\ ~BuildCommit(r) /\ ~Proceed(r)
    <2>1. pc'[r] \notin Restoring \cup {"move"} /\ UNCHANGED <<head, remote, seen>>
      BY <1>2, <1>10 DEF Step, FetchFails, Reset, ResetIndex, CheckOut, CheckedOut, WriteFile,
         RemoveFile, Advance, ReadBitmaps, CanAddBit, AddBitPanics, EmptyBm, WriteBm, EmptyBmi,
         WriteBmi, ReadIndex, WriteIndex, CannotRemove, PushFails, PushUnheard, clone, Undisturbed
    <2> QED  BY <1>1, <1>4, <2>1 DEF NeverReset, Ahead
  <1> QED  BY <1>5, <1>6, <1>7, <1>8, <1>9, <1>10

LEMMA NeverResetNext ==
  ASSUME Types, Undisturbed, NeverReset, [Next]_vars
  PROVE  NeverReset'
  <1> USE DEF Types, Handlers, Goto, Answer, Restoring
  <1>1. \A s \in Requests : Made(s) => Made(s)'  BY MadeStays
  <1>2. ASSUME NEW r \in Requests, Arrive(r) PROVE NeverReset'
    <2>1. UNCHANGED <<head, remote, seen, base>> /\ pc' = [pc EXCEPT ![r] = "pull"]
      BY <1>2 DEF Arrive, clone, local
    <2> QED  BY <1>1, <2>1 DEF NeverReset, Ahead
  <1>3. ASSUME NEW r \in Requests, Abort(r) PROVE NeverReset'
    <2>1. /\ UNCHANGED <<head, remote, seen>> /\ pc' = [pc EXCEPT ![r] = "cut"]
          /\ \A s \in Requests \ {r} : base'[s] = base[s]
      BY <1>3 DEF Abort, NeverReset, clone
    <2> QED  BY <1>1, <2>1 DEF NeverReset, Ahead
  <1>4. CASE UNCHANGED vars
    BY <1>4 DEF vars, NeverReset, Ahead, Made
  <1> QED  BY <1>2, <1>3, <1>4, NeverResetStep DEF Next, AllAnswered, Undisturbed

\* Where a handler is tells what it was asked for.
Course(r) ==
    /\ op[r] = "commit" => target[r] = r
    /\ pc[r] \in {"new", "pull", "pulled"} => at[r] = 1
    /\ pc[r] = "write" => op[r] = "commit"
    /\ pc[r] = "remove" => op[r] = "delete"
    /\ pc[r] \in {"addbit"} \cup Voting => op[r] = "vote"

\* It has written, and has not failed.
Past(r) == pc[r] \in Saving \cup {"succeeded"}

\* The commit of q has written the file, or ended without.
Wrote(q, kind) ==
    /\ op[q] = "commit"
    /\ \/ pc[q] \in Saving \cup Ended
       \/ pc[q] = "write" /\ \E i \in 1..(at[q] - 1) : WriteOrder[i] = kind

\* Nobody writes a file before the commit of its record has: no vote is
\* overwritten by the commit it was given under.
WrittenFirst ==
    /\ \A q \in Requests, kind \in Kinds : <<q, kind>> \in DOMAIN wt => Wrote(q, kind)
    /\ \A r \in Requests :
          op[r] = "vote" /\ (pc[r] \in {"addbit"} \cup Voting \/ Past(r)) =>
              target[r] \in Requests /\ Wrote(target[r], "bm") /\ Wrote(target[r], "bmi")

\* A handler writes bitmaps with the mutex only.
Locked(r) == pc[r] \in Voting => r \in mutex

\* A file is empty only in the middle of a write.
EmptiedIsWritten == \A f \in DOMAIN wt : wt[f] = Emptied => BeingWritten(f)

\* A handler has read the bitmap and is about to write it.
IsToWrite(s, kind) == pc[s] \in IF kind = "bm" THEN {"emptybm", "writebm"} ELSE Voting

\* The vote is in the file, and whoever is to write the file has it in memory.
Voted(r, kind) ==
    LET f == <<target[r], kind>>
    IN  /\ f \in DOMAIN wt /\ (wt[f] # Emptied => r \in wt[f])
        /\ \A s \in Requests :
              IsToWrite(s, kind) /\ target[s] = target[r] => r \in held[s][f]

\* What a handler has written so far, until a delete of the record begins.
OnDisk(r) ==
    /\ op[r] = "commit" /\ ~DeletionBegun(r) =>
          /\ pc[r] = "write" => \A i \in 1..(at[r] - 1) : <<r, WriteOrder[i]>> \in DOMAIN wt
          /\ Past(r) => FilesOf(r) \subseteq DOMAIN wt
    /\ op[r] = "vote" /\ ~DeletionBegun(target[r]) =>
          /\ pc[r] \in {"addbit"} \cup Voting => Bitmaps(r) \subseteq DOMAIN wt
          /\ pc[r] \in {"emptybmi", "writebmi"} \/ Past(r) => Voted(r, "bm")
          /\ Past(r) => Voted(r, "bmi")

Writes(r) ==
    WriteFile(r) \/ RemoveFile(r) \/ EmptyBm(r) \/ WriteBm(r) \/ EmptyBmi(r) \/ WriteBmi(r)

\* The other steps, and what they lead to.
LEMMA QuietStep ==
  ASSUME Handlers, NEW r \in Requests, Course(r), Step(r), ~Writes(r),
         pc[r] \notin Restoring
  PROVE  /\ wt' = wt
         /\ pc'[r] \in {"new", "pull", "pulled"} => at'[r] = 1
         /\ pc'[r] = "write" => op[r] = "commit" /\ at'[r] = 1
         /\ pc'[r] = "remove" => op[r] = "delete"
         /\ pc'[r] = "addbit" => op[r] = "vote" /\ Bitmaps(r) \subseteq DOMAIN wt
         /\ pc'[r] \in Voting => ReadBitmaps(r) /\ pc'[r] = "emptybm"
         /\ op[r] \in {"commit", "vote"} /\ Past(r)' => Past(r)
  <1> USE DEF Handlers, Goto, Answer, Course, Past, Saving, Voting, Restoring
  <1>1. CASE Proceed(r)
    <2>1. pc'[r] \in AfterPull(r) /\ op[r] \in Ops /\ wt' = wt /\ at'[r] = at[r] /\ pc[r] = "pulled"
      BY <1>1 DEF Proceed, clone, local
    <2> QED  BY <2>1 DEF AfterPull, Ops, Bitmaps
  <1>2. CASE ReadBitmaps(r)
    BY <1>2 DEF ReadBitmaps, clone
  <1>3. CASE Fetch(r) \/ FetchFails(r) \/ AddBitPanics(r) \/ ReadIndex(r) \/ WriteIndex(r)
             \/ CannotRemove(r) \/ BuildCommit(r) \/ MoveHead(r) \/ Push(r) \/ PushFails(r) \/ PushUnheard(r)
    <2>1. /\ wt' = wt
          /\ pc'[r] \in {"pulled", "add", "stage", "commit", "move", "push", "succeeded", "failed"}
                         \cup {"reset"}
          /\ pc'[r] = "pulled" => at'[r] = at[r] /\ pc[r] = "pull"
          /\ pc'[r] \in Saving \cup {"succeeded"} => pc[r] \in Saving
      BY <1>3 DEF Fetch, FetchFails, AddBitPanics, ReadIndex, WriteIndex, CannotRemove, BuildCommit, MoveHead,
         Push, PushFails, PushUnheard, clone, local
    <2> QED  BY <2>1
  <1>4. CASE Reset(r) \/ ResetIndex(r) \/ CheckOut(r) \/ CheckedOut(r)
    BY <1>4 DEF Reset, ResetIndex, CheckOut, CheckedOut
  <1> QED  BY <1>1, <1>2, <1>3, <1>4 DEF Step, Writes

LEMMA CourseNext ==
  ASSUME Handlers, NeverReset, \A r \in Requests : Course(r), [Next]_vars
  PROVE  \A r \in Requests : Course(r)'
  <1> USE DEF Handlers, Goto, Answer, Voting
  <1> SUFFICES ASSUME NEW r \in Requests PROVE Course(r)'
    OBVIOUS
  <1>0. Course(r) /\ pc[r] \notin Restoring  BY DEF NeverReset
  <1>1. CASE Step(r)
    <2>1. op' = op /\ target' = target  BY <1>1, StepLeavesRequests
    <2>2. CASE ~Writes(r)
      BY <1>0, <1>1, <2>1, <2>2, QuietStep DEF Course, ReadBitmaps, CanAddBit
    <2>3. CASE WriteFile(r)
      BY <1>0, <2>1, <2>3 DEF WriteFile, Advance, Course
    <2>4. CASE RemoveFile(r)
      BY <1>0, <2>1, <2>4 DEF RemoveFile, Advance, Course
    <2>5. CASE EmptyBm(r) \/ WriteBm(r) \/ EmptyBmi(r) \/ WriteBmi(r)
      BY <1>0, <2>1, <2>5 DEF EmptyBm, WriteBm, EmptyBmi, WriteBmi, Course, local
    <2> QED  BY <2>2, <2>3, <2>4, <2>5 DEF Writes
  <1>2. ASSUME NEW s \in Requests, s # r, Step(s) \/ Abort(s) PROVE Course(r)'
    BY <1>0, <1>2, OthersWait DEF Course
  <1>3. CASE Abort(r)
    BY <1>0, <1>3 DEF Abort, Course, request
  <1>4. CASE Arrive(r)
    <2>1. PICK o \in Ops : \E q \in Targets(r, o) : /\ op' = [op EXCEPT ![r] = o]
                                                    /\ target' = [target EXCEPT ![r] = q]
      BY <1>4 DEF Arrive
    <2>2. op'[r] = "commit" => target'[r] = r
      BY <2>1 DEF Targets
    <2> QED  BY <1>0, <1>4, <2>2 DEF Arrive, Course, local
  <1>5. ASSUME NEW s \in Requests, s # r, Arrive(s) PROVE Course(r)'
    BY <1>0, <1>5 DEF Arrive, Course, local
  <1>6. ASSUME NEW q \in Foreign, Publish(q) PROVE Course(r)'
    BY <1>0, <1>6 DEF Publish, Course, request, local
  <1>7. CASE UNCHANGED vars
    BY <1>0, <1>7 DEF vars, Course
  <1> QED  BY <1>1, <1>2, <1>3, <1>4, <1>5, <1>6, <1>7 DEF Next, AllAnswered

\* What has begun is not undone.
LEMMA WroteStays ==
  ASSUME Handlers, [Next]_vars, NEW q \in Requests, NEW kind, Wrote(q, kind)
  PROVE  Wrote(q, kind)'
  <1> USE DEF Handlers, Goto, Answer
  <1>1. op'[q] = "commit" /\ (pc[q] \in Ended => pc'[q] \in Ended)
    BY EndedStays DEF Wrote, Saving, Ended
  <1>2. ASSUME NEW s \in Requests, Step(s) \/ Abort(s), s # q PROVE Wrote(q, kind)'
    BY <1>1, <1>2, OthersWait DEF Wrote
  <1>3. CASE Abort(q)  BY <1>1, <1>3 DEF Abort, Wrote, Ended
  <1>4. CASE Step(q)
    <2>1. CASE WriteFile(q)
      <3>1. CASE at[q] < 4
        <4>1. at'[q] = at[q] + 1 /\ pc'[q] = "write" /\ pc[q] = "write"
          BY <2>1, <3>1 DEF WriteFile, Advance, WriteOrder
        <4>2. PICK i \in 1..(at[q] - 1) : WriteOrder[i] = kind
          BY <4>1 DEF Wrote, Saving, Ended
        <4>3. i \in 1..(at'[q] - 1)  BY <4>1, <4>2
        <4> QED  BY <1>1, <4>1, <4>2, <4>3 DEF Wrote
      <3>2. CASE at[q] = 4
        <4>1. pc'[q] = "stage"
          BY <2>1, <3>2 DEF WriteFile, Advance, WriteOrder
        <4> QED  BY <1>1, <4>1 DEF Wrote, Saving
      <3> QED  BY <3>1, <3>2
    <2>2. CASE ~WriteFile(q)
      <3>1. pc'[q] \in Saving \cup Ended
        BY <1>4, <2>2 DEF Wrote, Saving, Ended, Step, Fetch, FetchFails, Reset, ResetIndex,
           CheckOut, CheckedOut, Proceed, RemoveFile, ReadBitmaps, CanAddBit, AddBitPanics,
           EmptyBm, WriteBm, EmptyBmi, WriteBmi, ReadIndex, WriteIndex, CannotRemove, BuildCommit,
           MoveHead, Push, PushFails, PushUnheard
      <3> QED  BY <1>1, <3>1 DEF Wrote
    <2> QED  BY <2>1, <2>2
  <1>5. ASSUME NEW s \in Requests, Arrive(s) PROVE Wrote(q, kind)'
    <2>1. s # q  BY <1>5 DEF Arrive, Wrote, Saving, Ended
    <2> QED  BY <1>1, <1>5, <2>1 DEF Arrive, Wrote, local
  <1> QED
    BY <1>1, <1>2, <1>3, <1>4, <1>5 DEF Next, Publish, AllAnswered, vars, Wrote, local

LEMMA DeletionStays ==
  ASSUME Handlers, [Next]_vars, NEW q, DeletionBegun(q)
  PROVE  DeletionBegun(q)'
  <1> USE DEF Handlers, Goto, Answer
  <1>1. PICK d \in Requests : op[d] = "delete" /\ target[d] = q /\ pc[d] \in Removing \cup Ended
    BY DEF DeletionBegun
  <1>2. op'[d] = "delete" /\ target'[d] = q /\ (pc[d] \in Ended => pc'[d] \in Ended)
    BY <1>1, EndedStays DEF Removing, Ended
  <1>3. pc'[d] \in Removing \cup Ended
    <2>1. CASE Step(d)
      BY <1>1, <2>1 DEF Removing, Ended, Step, Fetch, FetchFails, Reset, ResetIndex, CheckOut,
         CheckedOut, Proceed, WriteFile, RemoveFile, Advance, ReadBitmaps, CanAddBit,
         AddBitPanics, EmptyBm, WriteBm, EmptyBmi, WriteBmi, ReadIndex, WriteIndex, CannotRemove,
         BuildCommit, MoveHead, Push, PushFails, PushUnheard
    <2>2. ASSUME NEW s \in Requests, s # d, Step(s) \/ Abort(s) PROVE pc'[d] = pc[d]
      BY <2>2, OthersWait
    <2>3. CASE Abort(d)  BY <2>3 DEF Abort, Ended
    <2>4. ASSUME NEW s \in Requests, Arrive(s) PROVE pc'[d] = pc[d]
      BY <1>1, <2>4 DEF Arrive, Removing, Ended
    <2> QED  BY <1>1, <2>1, <2>2, <2>3, <2>4 DEF Next, Publish, AllAnswered, vars
  <1> QED  BY <1>2, <1>3 DEF DeletionBegun

\* What a step writes into the working tree, and takes out of it.
EmptiesFile(s, f) ==
    \E kind \in {"bm", "bmi"} :
        /\ IF kind = "bm" THEN EmptyBm(s) ELSE EmptyBmi(s)
        /\ op[s] = "vote" /\ f = <<target[s], kind>>
        /\ f \in DOMAIN wt' /\ wt'[f] = Emptied
WritesVotes(s, f) ==
    \E kind \in {"bm", "bmi"} :
        /\ IF kind = "bm" THEN WriteBm(s) ELSE WriteBmi(s)
        /\ op[s] = "vote" /\ f = <<target[s], kind>>
        /\ f \in DOMAIN wt /\ f \in DOMAIN wt' /\ wt'[f] = held[s][f] \cup {s}

LEMMA WorkStep ==
  ASSUME Handlers, NEW s \in Requests, Course(s), pc[s] \notin Restoring,
         Step(s) \/ Abort(s), NEW f
  PROVE  \/ (f \in DOMAIN wt' <=> f \in DOMAIN wt) /\ (f \in DOMAIN wt => wt'[f] = wt[f])
         \/ WriteFile(s) /\ f = <<s, WriteOrder[at[s]]>> /\ f \in DOMAIN wt' /\ wt'[f] = {}
         \/ RemoveFile(s) /\ op[s] = "delete" /\ f[1] = target[s] /\ f \notin DOMAIN wt'
         \/ EmptiesFile(s, f)
         \/ WritesVotes(s, f)
  <1> USE DEF Course, Voting
  <1>1. CASE Abort(s)  BY <1>1 DEF Abort, clone
  <1>2. CASE Step(s) /\ ~Writes(s)  BY <1>2, QuietStep
  <1>3. CASE WriteFile(s)
    <2>1. wt' = With(wt, <<s, WriteOrder[at[s]]>>, {})
      BY <1>3 DEF WriteFile, FileAt
    <2> QED  BY <1>3, <2>1 DEF With
  <1>4. CASE RemoveFile(s)
    <2>1. wt' = Without(wt, {<<target[s], RemovalOrder[at[s]]>>}) /\ op[s] = "delete"
      BY <1>4 DEF RemoveFile, FileAt
    <2> QED  BY <1>4, <2>1 DEF Without
  <1>5. ASSUME NEW kind \in {"bm", "bmi"}, IF kind = "bm" THEN EmptyBm(s) ELSE EmptyBmi(s)
        PROVE  \/ (f \in DOMAIN wt' <=> f \in DOMAIN wt) /\ (f \in DOMAIN wt => wt'[f] = wt[f])
               \/ EmptiesFile(s, f)
    <2>1. op[s] = "vote" /\ wt' = With(wt, <<target[s], kind>>, Emptied)
      BY <1>5 DEF EmptyBm, EmptyBmi, EmptyBitmap
    <2> QED  BY <1>5, <2>1 DEF With, EmptiesFile
  <1>6. ASSUME NEW kind \in {"bm", "bmi"}, IF kind = "bm" THEN WriteBm(s) ELSE WriteBmi(s)
        PROVE  \/ (f \in DOMAIN wt' <=> f \in DOMAIN wt) /\ (f \in DOMAIN wt => wt'[f] = wt[f])
               \/ WritesVotes(s, f)
    <2> DEFINE g == <<target[s], kind>>
    <2>1. op[s] = "vote" /\ wt' = IF g \in DOMAIN wt THEN With(wt, g, held[s][g] \cup {s}) ELSE wt
      BY <1>6 DEF WriteBm, WriteBmi, WriteBitmap
    <2> QED  BY <1>6, <2>1 DEF With, WritesVotes
  <1>7. EmptyBm(s) \/ EmptyBmi(s) => \E kind \in {"bm", "bmi"} :
           IF kind = "bm" THEN EmptyBm(s) ELSE EmptyBmi(s)
    OBVIOUS
  <1>8. WriteBm(s) \/ WriteBmi(s) => \E kind \in {"bm", "bmi"} :
           IF kind = "bm" THEN WriteBm(s) ELSE WriteBmi(s)
    OBVIOUS
  <1> QED  BY <1>1, <1>2, <1>3, <1>4, <1>5, <1>6, <1>7, <1>8 DEF Writes

\* Only a write empties a file, and it leaves the votes there.
LEMMA EmptiedNext ==
  ASSUME Types, Undisturbed, NeverReset, \A r \in Requests : Course(r), EmptiedIsWritten,
         [Next]_vars
  PROVE  EmptiedIsWritten'
  <1> USE DEF Types, Handlers, Goto, Answer
  <1> SUFFICES ASSUME NEW f, f \in DOMAIN wt', wt'[f] = Emptied PROVE BeingWritten(f)'
    BY DEF EmptiedIsWritten
  <1> DEFINE Writer(v) == /\ op[v] = "vote" /\ f \in Bitmaps(v)
                          /\ pc[v] \in {"cut", IF f[2] = "bm" THEN "writebm" ELSE "writebmi"}
  <1>1. ASSUME NEW s \in Requests, Step(s) \/ Abort(s) PROVE BeingWritten(f)'
    <2>1. op' = op /\ target' = target /\ \A v \in Requests : Bitmaps(v)' = Bitmaps(v)
      BY <1>1, StepLeavesRequests DEF Abort, request, Bitmaps
    <2>2. CASE EmptiesFile(s, f)
      <3>1. PICK kind \in {"bm", "bmi"} :
               /\ IF kind = "bm" THEN EmptyBm(s) ELSE EmptyBmi(s)
               /\ op[s] = "vote" /\ f = <<target[s], kind>>
        BY <2>2 DEF EmptiesFile
      <3>2. f \in Bitmaps(s) /\ f[2] = kind  BY <3>1 DEF Bitmaps
      <3>3. pc'[s] = IF f[2] = "bm" THEN "writebm" ELSE "writebmi"
        BY <3>1, <3>2 DEF EmptyBm, EmptyBmi
      <3> QED  BY <2>1, <3>1, <3>2, <3>3 DEF BeingWritten
    <2>3. CASE f \in DOMAIN wt /\ wt[f] = wt'[f] /\ ~WritesVotes(s, f)
      <3>1. PICK v \in Requests : Writer(v)
        BY <2>3 DEF EmptiedIsWritten, BeingWritten
      <3>2. CASE pc'[v] = pc[v]  BY <2>1, <3>1, <3>2 DEF BeingWritten
      <3>3. CASE pc'[v] # pc[v]
        <4>1. s = v /\ pc[v] # "cut"
          BY <1>1, <3>3, OthersWait, StepIsInFlight DEF InFlight, Handling, Abort
        <4>2. CASE Abort(v)
          <5>1. pc'[v] = "cut"  BY <3>1, <4>1, <4>2 DEF Abort
          <5> QED  BY <2>1, <3>1, <5>1 DEF BeingWritten
        <4>3. CASE Step(v)
          <5>1. pc[v] = (IF f[2] = "bm" THEN "writebm" ELSE "writebmi")
            BY <3>1, <4>1
          <5>2. PICK kind \in {"bm", "bmi"} : f = <<target[v], kind>>
            BY <3>1 DEF Bitmaps
          <5>3. IF kind = "bm" THEN WriteBm(v) ELSE WriteBmi(v)
            BY <4>3, <5>1, <5>2 DEF Step, Fetch, FetchFails, Reset, ResetIndex, CheckOut,
               CheckedOut, Proceed, WriteFile, RemoveFile, ReadBitmaps, CanAddBit, AddBitPanics,
               EmptyBm, EmptyBmi, WriteBm, WriteBmi, ReadIndex, WriteIndex, CannotRemove,
               BuildCommit, MoveHead, Push, PushFails, PushUnheard
          <5>4. WriteBitmap(v, kind)  BY <5>3 DEF WriteBm, WriteBmi
          <5>5. wt' = With(wt, f, held[v][f] \cup {v})
            BY <2>3, <5>2, <5>4 DEF WriteBitmap
          <5>6. WritesVotes(v, f)
            BY <2>3, <3>1, <5>2, <5>3, <5>5 DEF WritesVotes, With
          <5> QED  BY <2>3, <4>1, <5>6
        <4> QED  BY <1>1, <4>1, <4>2, <4>3
      <3> QED  BY <3>2, <3>3
    <2>4. ~WritesVotes(s, f)
      BY EmptiedAssumption DEF WritesVotes, Emptied
    <2>5. wt'[f] # {}  BY DEF Emptied
    <2>6. Course(s) /\ pc[s] \notin Restoring  BY DEF NeverReset
    <2> QED  BY <1>1, <2>2, <2>3, <2>4, <2>5, <2>6, WorkStep
  <1>2. ASSUME NEW s \in Requests, Arrive(s) PROVE BeingWritten(f)'
    <2>1. wt' = wt /\ pc[s] = "new"  BY <1>2 DEF Arrive, clone
    <2>2. PICK v \in Requests : Writer(v)
      BY <2>1 DEF EmptiedIsWritten, BeingWritten
    <2>3. v # s  BY <2>1, <2>2
    <2>4. op'[v] = op[v] /\ target'[v] = target[v] /\ pc'[v] = pc[v]
      BY <1>2, <2>3 DEF Arrive
    <2> QED  BY <2>2, <2>4 DEF BeingWritten, Bitmaps
  <1>3. CASE UNCHANGED vars
    BY <1>3 DEF vars, EmptiedIsWritten, BeingWritten, Bitmaps
  <1> QED  BY <1>1, <1>2, <1>3 DEF Next, AllAnswered, Undisturbed

LEMMA WrittenFirstNext ==
  ASSUME Types, Undisturbed, NeverReset, \A r \in Requests : Course(r), WrittenFirst, [Next]_vars
  PROVE  WrittenFirst'
  <1> USE DEF Types, Handlers, Goto, Answer, Voting
  <1>1. \A q \in Requests, kind \in Kinds : Wrote(q, kind) => Wrote(q, kind)'
    BY WroteStays
  <1>2. \A s \in Requests : Course(s) /\ pc[s] \notin Restoring  BY DEF NeverReset
  <1>3. ASSUME NEW s \in Requests, Step(s) \/ Abort(s),
               NEW q \in Requests, NEW kind \in Kinds, <<q, kind>> \in DOMAIN wt'
        PROVE  Wrote(q, kind)'
    <2>1. CASE <<q, kind>> \in DOMAIN wt  BY <1>1, <2>1 DEF WrittenFirst
    <2>2. CASE WriteFile(s) /\ <<q, kind>> = <<s, WriteOrder[at[s]]>>
      <3>1. op'[s] = "commit" /\ q = s /\ kind = WriteOrder[at[s]]
        BY <1>2, <2>2 DEF WriteFile, Course, request
      <3>2. CASE at[s] < 4
        <4>1. at'[s] = at[s] + 1 /\ pc'[s] = "write"
          BY <2>2, <3>2 DEF WriteFile, Advance, WriteOrder
        <4>2. at[s] \in 1..(at'[s] - 1)  BY <4>1
        <4> QED  BY <3>1, <4>1, <4>2 DEF Wrote
      <3>3. CASE at[s] = 4
        <4>1. pc'[s] = "stage"  BY <2>2, <3>3 DEF WriteFile, Advance, WriteOrder
        <4> QED  BY <3>1, <4>1 DEF Wrote, Saving
      <3> QED  BY <3>2, <3>3
    <2>3. CASE EmptiesFile(s, <<q, kind>>)
      <3>1. /\ op[s] = "vote" /\ q = target[s] /\ kind \in {"bm", "bmi"}
            /\ pc[s] \in Voting
        BY <2>3 DEF EmptiesFile, EmptyBm, EmptyBmi
      <3> QED  BY <1>1, <3>1 DEF WrittenFirst
    <2>4. ~WritesVotes(s, <<q, kind>>) \/ <<q, kind>> \in DOMAIN wt  BY DEF WritesVotes
    <2> QED  BY <1>2, <1>3, <2>1, <2>2, <2>3, <2>4, WorkStep
  <1>4. ASSUME NEW s \in Requests, Step(s) \/ Abort(s), NEW r \in Requests, op'[r] = "vote",
               pc'[r] \in {"addbit"} \cup Voting \/ Past(r)'
        PROVE  target'[r] \in Requests /\ Wrote(target[r], "bm")' /\ Wrote(target[r], "bmi")'
    <2>1. op' = op /\ target' = target
      BY <1>4, StepLeavesRequests DEF Abort, request
    <2>2. \/ pc[r] \in {"addbit"} \cup Voting \/ Past(r)
          \/ pc'[r] = "addbit" /\ Bitmaps(r) \subseteq DOMAIN wt
      <3>1. CASE s # r  BY <1>4, <3>1, OthersWait DEF Past
      <3>2. CASE s = r /\ Abort(r)  BY <1>4, <3>2 DEF Abort, Past, Saving
      <3>3. CASE s = r /\ Step(r) /\ ~Writes(r)
        BY <1>2, <1>4, <2>1, <3>3, QuietStep DEF ReadBitmaps, CanAddBit
      <3>4. CASE s = r /\ Writes(r)
        BY <1>2, <1>4, <2>1, <3>4 DEF Writes, WriteFile, RemoveFile, EmptyBm, WriteBm, EmptyBmi,
           WriteBmi, Course
      <3> QED  BY <1>4, <3>1, <3>2, <3>3, <3>4
    <2>3. target[r] \in Requests /\ Wrote(target[r], "bm") /\ Wrote(target[r], "bmi")
      <3>1. CASE pc[r] \in {"addbit"} \cup Voting \/ Past(r)
        BY <1>4, <2>1, <3>1 DEF WrittenFirst
      <3>2. CASE Bitmaps(r) \subseteq DOMAIN wt
        <4>1. target[r] \in Requests  BY DEF Records, Undisturbed
        <4> QED  BY <3>2, <4>1 DEF WrittenFirst, Bitmaps, Kinds
      <3> QED  BY <2>2, <3>1, <3>2
    <2>4. \A q \in Requests : (Wrote(q, "bm") => Wrote(q, "bm")') /\ (Wrote(q, "bmi") => Wrote(q, "bmi")')
      BY <1>1 DEF Kinds
    <2>5. Wrote(target[r], "bm")' /\ Wrote(target[r], "bmi")'
      BY <2>1, <2>3, <2>4 DEF Wrote
    <2> QED  BY <2>1, <2>3, <2>5
  <1>5. ASSUME NEW s \in Requests, Step(s) \/ Abort(s) PROVE WrittenFirst'
    BY <1>3, <1>4, <1>5 DEF WrittenFirst, Past, Wrote
  <1>6. ASSUME NEW s \in Requests, Arrive(s) PROVE WrittenFirst'
    <2>1. /\ wt' = wt /\ pc'[s] = "pull"
          /\ \A r \in Requests \ {s} : op'[r] = op[r] /\ target'[r] = target[r] /\ pc'[r] = pc[r]
      BY <1>6 DEF Arrive, clone
    <2>2. ASSUME NEW r \in Requests, op'[r] = "vote",
                 pc'[r] \in {"addbit"} \cup Voting \/ Past(r)'
          PROVE  target'[r] \in Requests /\ Wrote(target[r], "bm")' /\ Wrote(target[r], "bmi")'
      <3>1. r # s  BY <2>1, <2>2 DEF Past, Saving
      <3>2. target'[r] = target[r] /\ target[r] \in Requests
            /\ Wrote(target[r], "bm") /\ Wrote(target[r], "bmi")
        BY <2>1, <2>2, <3>1 DEF WrittenFirst, Past
      <3>3. \A q \in Requests : (Wrote(q, "bm") => Wrote(q, "bm")') /\ (Wrote(q, "bmi") => Wrote(q, "bmi")')
        BY <1>1 DEF Kinds
      <3> QED  BY <3>2, <3>3 DEF Wrote
    <2>3. \A q \in Requests, kind \in Kinds : <<q, kind>> \in DOMAIN wt' => Wrote(q, kind)'
      BY <1>1, <2>1 DEF WrittenFirst
    <2> QED  BY <2>2, <2>3 DEF WrittenFirst, Past, Wrote
  <1>7. CASE UNCHANGED vars
    BY <1>7 DEF vars, WrittenFirst, Past, Wrote
  <1> QED  BY <1>5, <1>6, <1>7 DEF Next, AllAnswered, Undisturbed

LEMMA LockedNext ==
  ASSUME Types, NeverReset, \A r \in Requests : Course(r) /\ Locked(r), [Next]_vars
  PROVE  \A r \in Requests : Locked(r)'
  <1> USE DEF Types, Handlers, Goto, Answer, Voting
  <1> SUFFICES ASSUME NEW r \in Requests, pc'[r] \in Voting PROVE r \in mutex'
    BY DEF Locked
  <1>1. Course(r) /\ Locked(r) /\ pc[r] \notin Restoring  BY DEF NeverReset
  <1>2. CASE Step(r)
    <2>1. CASE ReadBitmaps(r)  BY <2>1 DEF ReadBitmaps
    <2>2. CASE EmptyBm(r) \/ WriteBm(r) \/ EmptyBmi(r)
      BY <1>1, <2>2 DEF EmptyBm, WriteBm, EmptyBmi, Locked
    <2>3. CASE WriteFile(r) \/ RemoveFile(r) \/ WriteBmi(r)
      BY <2>3 DEF WriteFile, RemoveFile, WriteBmi, Advance
    <2> QED  BY <1>1, <1>2, <2>1, <2>2, <2>3, QuietStep DEF Writes
  <1>3. ASSUME NEW s \in Requests, s # r, Step(s) \/ Abort(s) PROVE r \in mutex'
    <2>1. pc'[r] = pc[r]  BY <1>3, OthersWait
    <2>2. r \in mutex  BY <1>1, <2>1 DEF Locked
    <2> QED
      BY <1>3, <2>2 DEF Abort, Step, Fetch, FetchFails, Reset, ResetIndex, CheckOut, CheckedOut,
         Proceed, WriteFile, RemoveFile, ReadBitmaps, CanAddBit, AddBitPanics, EmptyBm, WriteBm,
         EmptyBmi, WriteBmi, ReadIndex, WriteIndex, CannotRemove, BuildCommit, MoveHead, Push,
         PushFails, PushUnheard
  <1>4. CASE Abort(r)  BY <1>4 DEF Abort
  <1>5. ASSUME NEW s \in Requests, Arrive(s) PROVE r \in mutex'
    BY <1>1, <1>5 DEF Arrive, Locked
  <1>6. ASSUME NEW q \in Foreign, Publish(q) PROVE r \in mutex'
    BY <1>1, <1>6 DEF Publish, Locked
  <1>7. CASE UNCHANGED vars
    BY <1>1, <1>7 DEF vars, Locked
  <1> QED  BY <1>2, <1>3, <1>4, <1>5, <1>6, <1>7 DEF Next, AllAnswered

\* The four files of a commit.
LEMMA CommitOnDisk ==
  ASSUME Handlers, [Next]_vars, NeverReset, \A s \in Requests : Course(s),
         NEW r \in Requests, OnDisk(r), NEW s \in Requests, Step(s) \/ Abort(s),
         op[r] = "commit", ~DeletionBegun(r)
  PROVE  /\ pc'[r] = "write" => \A i \in 1..(at'[r] - 1) : <<r, WriteOrder[i]>> \in DOMAIN wt'
         /\ Past(r)' => FilesOf(r) \subseteq DOMAIN wt'
  <1> USE DEF Handlers, Goto, Answer
  <1>1. Course(r) /\ Course(s) /\ pc[s] \notin Restoring /\ target[r] = r
    BY DEF NeverReset, Course
  <1>2. ~(RemoveFile(s) /\ op[s] = "delete" /\ target[s] = r)
    BY DEF RemoveFile, DeletionBegun, Removing
  <1>3. ASSUME NEW kind, <<r, kind>> \in DOMAIN wt PROVE <<r, kind>> \in DOMAIN wt'
    BY <1>1, <1>2, <1>3, WorkStep DEF EmptiesFile, WritesVotes
  <1>4. CASE s # r
    <2>1. pc'[r] = pc[r] /\ at'[r] = at[r]  BY <1>4, OthersWait
    <2> QED  BY <1>3, <2>1 DEF OnDisk, Past, FilesOf
  <1>5. CASE s = r /\ Abort(r)
    BY <1>5 DEF Abort, Past, Saving
  <1>6. CASE s = r /\ Step(r) /\ ~Writes(r)
    <2>1. /\ pc'[r] = "write" => at'[r] = 1
          /\ Past(r)' => Past(r)
      BY <1>1, <1>6, QuietStep
    <2> QED  BY <1>3, <2>1 DEF OnDisk, FilesOf
  <1>7. CASE s = r /\ WriteFile(r)
    <2>1. <<r, WriteOrder[at[r]]>> \in DOMAIN wt'
      BY <1>1, <1>7 DEF WriteFile, With, FileAt
    <2>2. \A i \in 1..(at[r] - 1) : <<r, WriteOrder[i]>> \in DOMAIN wt'
      BY <1>3, <1>7 DEF OnDisk, WriteFile
    <2>3. \A i \in 1..at[r] : <<r, WriteOrder[i]>> \in DOMAIN wt'
      BY <2>1, <2>2
    <2>4. CASE at[r] < 4
      <3>1. at'[r] = at[r] + 1 /\ pc'[r] = "write"
        BY <1>7, <2>4 DEF WriteFile, Advance, WriteOrder
      <3> QED  BY <2>3, <3>1 DEF Past, Saving
    <2>5. CASE at[r] = 4
      <3>1. pc'[r] = "stage"
        BY <1>7, <2>5 DEF WriteFile, Advance, WriteOrder
      <3> QED  BY <2>3, <2>5, <3>1, FourFiles
    <2> QED  BY <2>4, <2>5
  <1>8. CASE s = r /\ (RemoveFile(r) \/ EmptyBm(r) \/ WriteBm(r) \/ EmptyBmi(r) \/ WriteBmi(r))
    BY <1>1, <1>8 DEF RemoveFile, EmptyBm, WriteBm, EmptyBmi, WriteBmi, Course, Voting
  <1> QED  BY <1>4, <1>5, <1>6, <1>7, <1>8 DEF Writes

\* A bit that is there stays, and the bitmaps of a vote stay.
LEMMA VotedStays ==
  ASSUME Handlers, [Next]_vars, NeverReset, WrittenFirst, \A s \in Requests : Course(s),
         NEW r \in Requests, NEW s \in Requests, Step(s) \/ Abort(s),
         op[r] = "vote", ~DeletionBegun(target[r]), NEW kind \in {"bm", "bmi"},
         pc[r] \in {"addbit"} \cup Voting \/ Past(r)
  PROVE  /\ <<target[r], kind>> \in DOMAIN wt => <<target[r], kind>> \in DOMAIN wt'
         /\ Voted(r, kind) => Voted(r, kind)'
  <1> USE DEF Handlers, Goto, Answer
  <1> DEFINE f == <<target[r], kind>>
  <1>1. Course(s) /\ pc[s] \notin Restoring
    BY DEF NeverReset
  <1>2. op' = op /\ target' = target
    BY StepLeavesRequests DEF Abort, request
  <1>3. ~(RemoveFile(s) /\ op[s] = "delete" /\ target[s] = target[r])
    BY DEF RemoveFile, DeletionBegun, Removing
  <1>4. ~(WriteFile(s) /\ f = <<s, WriteOrder[at[s]]>>)
    <2> SUFFICES ASSUME WriteFile(s), s = target[r], kind = WriteOrder[at[s]] PROVE FALSE
      OBVIOUS
    <2>1. Wrote(s, kind)  BY DEF WrittenFirst
    <2>2. pc[s] = "write"  BY DEF WriteFile
    <2>3. PICK i \in 1..(at[s] - 1) : WriteOrder[i] = kind
      BY <2>1, <2>2 DEF Wrote, Saving, Ended
    <2>4. at[s] \in 1..4 /\ i \in 1..4 /\ i # at[s]  BY <2>3
    <2>5. WriteOrder[i] = WriteOrder[at[s]]  BY <2>3
    <2> QED  BY <2>4, <2>5 DEF WriteOrder
  <1>5. \/ (f \in DOMAIN wt' <=> f \in DOMAIN wt) /\ (f \in DOMAIN wt => wt'[f] = wt[f])
        \/ EmptiesFile(s, f) \/ WritesVotes(s, f)
    BY <1>1, <1>3, <1>4, WorkStep
  <1>6. f \in DOMAIN wt => f \in DOMAIN wt'
    BY <1>5 DEF EmptiesFile, WritesVotes
  <1>7. ASSUME Voted(r, kind) PROVE Voted(r, kind)'
    <2>1. f \in DOMAIN wt /\ (wt[f] # Emptied => r \in wt[f])  BY <1>7 DEF Voted
    <2>2. wt'[f] # Emptied => r \in wt'[f]
      <3>1. CASE EmptiesFile(s, f)  BY <3>1 DEF EmptiesFile
      <3>2. CASE WritesVotes(s, f)
        <4>1. PICK k \in {"bm", "bmi"} :
                 /\ IF k = "bm" THEN WriteBm(s) ELSE WriteBmi(s)
                 /\ f = <<target[s], k>> /\ wt'[f] = held[s][f] \cup {s}
          BY <3>2 DEF WritesVotes
        <4>2. k = kind /\ target[s] = target[r]  BY <4>1
        <4>3. IsToWrite(s, kind)
          BY <4>1, <4>2 DEF WriteBm, WriteBmi, IsToWrite, Voting
        <4> QED  BY <1>7, <4>1, <4>2, <4>3 DEF Voted
      <3> QED  BY <1>5, <2>1, <3>1, <3>2
    <2>3. ASSUME NEW v \in Requests, IsToWrite(v, kind)', target[v] = target[r]
          PROVE  r \in held'[v][f]
      <3>1. CASE IsToWrite(v, kind) /\ held'[v] = held[v]
        BY <1>7, <2>3, <3>1 DEF Voted
      <3>2. CASE v = s /\ ReadBitmaps(v)
        <4>1. f \in Bitmaps(v)  BY <2>3 DEF Bitmaps
        <4>2. wt[f] # Emptied
          BY <2>1, <3>2, <4>1 DEF ReadBitmaps, CanAddBit
        <4>3. held'[v] = Over(Only(wt, Bitmaps(v)), [g \in Bitmaps(v) |-> {}])
          BY <3>2 DEF ReadBitmaps
        <4>4. held'[v][f] = wt[f]
          BY <2>1, <4>1, <4>3 DEF Over, Only
        <4> QED  BY <2>1, <4>2, <4>4
      <3>3. CASE v # s
        BY <2>3, <3>1, <3>3, OthersWait DEF IsToWrite
      <3>4. CASE v = s /\ ~ReadBitmaps(v)
        <4>1. pc'[v] \in Voting /\ (kind = "bm" => pc'[v] \in {"emptybm", "writebm"})
          BY <2>3 DEF IsToWrite, Voting
        <4>2. Step(v)  BY <3>4, <4>1 DEF Abort, Voting
        <4>3. EmptyBm(v) \/ WriteBm(v) \/ EmptyBmi(v)
          BY <1>1, <3>4, <4>1, <4>2, QuietStep
             DEF Writes, WriteFile, RemoveFile, WriteBmi, Advance, Voting
        <4>4. held' = held /\ IsToWrite(v, kind)
          BY <4>1, <4>3 DEF EmptyBm, WriteBm, EmptyBmi, IsToWrite, Voting, local
        <4> QED  BY <3>1, <4>4
      <3> QED  BY <3>2, <3>3, <3>4
    <2> QED  BY <1>2, <1>6, <2>1, <2>2, <2>3 DEF Voted
  <1> QED  BY <1>6, <1>7

\* The two bits of a vote.
LEMMA VoteOnDisk ==
  ASSUME Types, [Next]_vars, NeverReset, WrittenFirst,
         \A s \in Requests : Course(s) /\ Locked(s),
         NEW r \in Requests, OnDisk(r), NEW s \in Requests, Step(s) \/ Abort(s),
         op[r] = "vote", ~DeletionBegun(target[r])
  PROVE  /\ pc'[r] \in {"addbit"} \cup Voting => Bitmaps(r) \subseteq DOMAIN wt'
         /\ pc'[r] \in {"emptybmi", "writebmi"} \/ Past(r)' => Voted(r, "bm")'
         /\ Past(r)' => Voted(r, "bmi")'
  <1> USE DEF Types, Handlers, Goto, Answer
  <1>1. Course(r) /\ pc[r] \notin Restoring
    BY DEF NeverReset
  <1>2. op' = op /\ target' = target
    BY StepLeavesRequests DEF Abort, request
  <1>3. ASSUME pc[r] \in {"addbit"} \cup Voting \/ Past(r), NEW kind \in {"bm", "bmi"}
        PROVE  /\ <<target[r], kind>> \in DOMAIN wt => <<target[r], kind>> \in DOMAIN wt'
               /\ Voted(r, kind) => Voted(r, kind)'
    BY <1>3, VotedStays
  <1>4. ASSUME pc[r] \in {"addbit"} \cup Voting PROVE Bitmaps(r) \subseteq DOMAIN wt'
    <2>1. Bitmaps(r) \subseteq DOMAIN wt  BY <1>4 DEF OnDisk
    <2> QED  BY <1>3, <1>4, <2>1 DEF Bitmaps
  \* Nobody else writes bitmaps while a vote does.
  <1>5. ASSUME pc[r] \in Voting, NEW v \in Requests, v # r PROVE pc[v] \notin Voting
    BY <1>5 DEF Locked, Mutual
  <1>6. ASSUME NEW kind \in {"bm", "bmi"}, s = r, pc[r] \in Voting, WriteBitmap(r, kind),
               ~IsToWrite(r, kind)'
        PROVE  Voted(r, kind)'
    <2> DEFINE f == <<target[r], kind>>
    <2>1. f \in DOMAIN wt
      BY <1>6 DEF OnDisk, Bitmaps
    <2>2. f \in DOMAIN wt' /\ r \in wt'[f]
      BY <1>6, <2>1 DEF WriteBitmap, With
    <2>3. ASSUME NEW v \in Requests PROVE ~IsToWrite(v, kind)'
      <3>1. CASE v = r  BY <1>6, <3>1
      <3>2. CASE v # r
        <4>1. pc'[v] \notin Voting  BY <1>5, <1>6, <3>2, OthersWait
        <4> QED  BY <4>1 DEF IsToWrite, Voting
      <3> QED  BY <3>1, <3>2
    <2> QED  BY <1>2, <2>2, <2>3 DEF Voted
  <1>7. CASE s # r
    <2>1. pc'[r] = pc[r]  BY <1>7, OthersWait
    <2> QED  BY <1>3, <1>4, <2>1 DEF OnDisk, Past, Voting
  <1>8. CASE s = r /\ Abort(r)
    BY <1>8 DEF Abort, Past, Saving, Voting
  <1>9. CASE s = r /\ Step(r) /\ ~Writes(r)
    <2>1. /\ wt' = wt
          /\ pc'[r] = "addbit" => Bitmaps(r) \subseteq DOMAIN wt
          /\ pc'[r] \in Voting => ReadBitmaps(r) /\ pc'[r] = "emptybm"
          /\ Past(r)' => Past(r)
      BY <1>1, <1>9, QuietStep
    <2>2. ReadBitmaps(r) => Bitmaps(r) \subseteq DOMAIN wt'
      BY <1>4 DEF ReadBitmaps, CanAddBit
    <2> QED  BY <1>3, <2>1, <2>2 DEF OnDisk, Voting
  <1>10. CASE s = r /\ (EmptyBm(r) \/ EmptyBmi(r))
    <2>1. pc[r] \in Voting /\ pc'[r] \in {"writebm", "writebmi"}
          /\ (pc'[r] = "writebmi" => pc[r] = "emptybmi")
      BY <1>10 DEF EmptyBm, EmptyBmi, Voting
    <2> QED  BY <1>3, <1>4, <2>1 DEF OnDisk, Past, Saving
  <1>11. CASE s = r /\ WriteBm(r)
    <2>1. pc[r] = "writebm" /\ pc'[r] = "emptybmi" /\ WriteBitmap(r, "bm")  BY <1>11 DEF WriteBm
    <2>2. Voted(r, "bm")'
      BY <1>6, <1>11, <2>1 DEF IsToWrite, Voting
    <2> QED  BY <1>4, <2>1, <2>2 DEF Past, Saving, Voting
  <1>12. CASE s = r /\ WriteBmi(r)
    <2>1. pc[r] = "writebmi" /\ pc'[r] = "stage" /\ WriteBitmap(r, "bmi")  BY <1>12 DEF WriteBmi
    <2>2. Voted(r, "bm")'
      BY <1>3, <2>1 DEF OnDisk, Voting
    <2>3. Voted(r, "bmi")'
      BY <1>6, <1>12, <2>1 DEF IsToWrite, Voting
    <2> QED  BY <2>1, <2>2, <2>3 DEF Voting
  <1>13. CASE s = r /\ (WriteFile(r) \/ RemoveFile(r))
    BY <1>1, <1>13 DEF WriteFile, RemoveFile, Course
  <1> QED  BY <1>7, <1>8, <1>9, <1>10, <1>11, <1>12, <1>13 DEF Writes

LEMMA OnDiskNext ==
  ASSUME Types, Undisturbed, NeverReset, WrittenFirst,
         \A r \in Requests : Course(r) /\ Locked(r) /\ OnDisk(r), [Next]_vars
  PROVE  \A r \in Requests : OnDisk(r)'
  <1> USE DEF Types, Handlers, Goto, Answer
  <1> SUFFICES ASSUME NEW r \in Requests PROVE OnDisk(r)'
    OBVIOUS
  <1>1. Course(r) /\ OnDisk(r)  OBVIOUS
  <1>2. \A q : DeletionBegun(q) => DeletionBegun(q)'  BY DeletionStays
  <1>3. ASSUME NEW s \in Requests, Step(s) \/ Abort(s) PROVE OnDisk(r)'
    <2>1. op' = op /\ target' = target
      BY <1>3, StepLeavesRequests DEF Abort, request
    <2>2. op[r] = "commit" /\ ~DeletionBegun(r)' =>
             /\ pc'[r] = "write" => \A i \in 1..(at'[r] - 1) : <<r, WriteOrder[i]>> \in DOMAIN wt'
             /\ Past(r)' => FilesOf(r) \subseteq DOMAIN wt'
      BY <1>2, <1>3, CommitOnDisk
    <2>3. op[r] = "vote" /\ ~DeletionBegun(target[r])' =>
             /\ pc'[r] \in {"addbit"} \cup Voting => Bitmaps(r) \subseteq DOMAIN wt'
             /\ pc'[r] \in {"emptybmi", "writebmi"} \/ Past(r)' => Voted(r, "bm")'
             /\ Past(r)' => Voted(r, "bmi")'
      <3>1. DeletionBegun(target[r]) => DeletionBegun(target[r])'
        BY <1>2, <2>1 DEF DeletionBegun
      <3> QED  BY <1>3, <3>1, VoteOnDisk
    <2>4. Bitmaps(r)' = Bitmaps(r)  BY <2>1 DEF Bitmaps
    <2> QED  BY <2>1, <2>2, <2>3, <2>4 DEF OnDisk
  <1>4. ASSUME NEW s \in Requests, Arrive(s) PROVE OnDisk(r)'
    <2>1. CASE s = r  BY <1>4, <2>1 DEF Arrive, OnDisk, Past, Saving, Voting
    <2>2. CASE s # r
      <3>1. /\ wt' = wt /\ at' = at /\ held' = held /\ Bitmaps(r)' = Bitmaps(r)
            /\ op'[r] = op[r] /\ target'[r] = target[r] /\ pc'[r] = pc[r]
        BY <1>4, <2>2 DEF Arrive, clone, local, Bitmaps
      <3>2. /\ DeletionBegun(r) => DeletionBegun(r)'
            /\ DeletionBegun(target[r]) => DeletionBegun(target[r])'
        BY <1>2, <3>1 DEF DeletionBegun
      <3>3. ASSUME NEW kind, Voted(r, kind) PROVE Voted(r, kind)'
        <4>1. \A v \in Requests : IsToWrite(v, kind)' =>
                 IsToWrite(v, kind) /\ target'[v] = target[v]
          BY <1>4 DEF Arrive, IsToWrite, Voting
        <4> QED  BY <3>1, <3>3, <4>1 DEF Voted
      <3> QED  BY <1>1, <3>1, <3>2, <3>3 DEF OnDisk, Past, FilesOf
    <2> QED  BY <2>1, <2>2
  <1>5. CASE UNCHANGED vars
    BY <1>1, <1>5 DEF vars, OnDisk, Past, Voted, IsToWrite, Bitmaps, FilesOf, DeletionBegun
  <1> QED  BY <1>3, <1>4, <1>5 DEF Next, AllAnswered, Undisturbed

\* However many requests interleave and wherever handlers are cut off, a
\* commit and a vote that were answered stay on disk until a delete of the
\* record begins: BitmapService.mu and the order in which ProcessCommit writes
\* the files keep every vote, and no handler is disturbed by the others' pulls.
\* Its votes can be read but while a later vote writes the file, which stays
\* empty when that vote is cut off there.
THEOREM AnsweredStaysOnDisk ==
  ASSUME Undisturbed
  PROVE  Spec => []AnsweredIsOnDisk
  <1> DEFINE Inv == /\ Types /\ NeverReset /\ WrittenFirst /\ EmptiedIsWritten
                    /\ \A r \in Requests : Course(r) /\ Locked(r) /\ OnDisk(r)
  <1>1. Init => Inv
    <2> SUFFICES ASSUME Init PROVE Inv
      OBVIOUS
    <2> USE DEF Init
    <2>1. NeverReset  BY DEF NeverReset, NoCommit, Restoring
    <2>2. WrittenFirst /\ EmptiedIsWritten
      BY DEF WrittenFirst, EmptiedIsWritten, EmptyTree, Past, Saving, Voting
    <2>3. \A r \in Requests : Course(r) /\ Locked(r) /\ OnDisk(r)
      BY DEF Course, Locked, OnDisk, Past, Saving, Voting
    <2> QED  BY <2>1, <2>2, <2>3, TypesInit
  <1>2. Inv /\ [Next]_vars => Inv'
    <2> SUFFICES ASSUME Inv, [Next]_vars PROVE Inv'
      OBVIOUS
    <2>1. Types' /\ NeverReset' /\ WrittenFirst' /\ EmptiedIsWritten'
      BY TypesStep, NeverResetNext, WrittenFirstNext, EmptiedNext
    <2>2. \A r \in Requests : Course(r)'  BY CourseNext DEF Types
    <2>3. \A r \in Requests : Locked(r)'  BY LockedNext
    <2>4. \A r \in Requests : OnDisk(r)'  BY OnDiskNext
    <2> QED  BY <2>1, <2>2, <2>3, <2>4
  <1>3. Inv => AnsweredIsOnDisk
    <2> SUFFICES ASSUME Inv, NEW r \in Requests, Succeeded(r, "commit") \/ Succeeded(r, "vote"),
                        ~DeletionBegun(target[r]), NEW f \in Owed(r)
                 PROVE  /\ f \in DOMAIN wt
                        /\ wt[f] = Emptied => BeingWritten(f)
                        /\ op[r] = "vote" /\ wt[f] # Emptied => r \in wt[f]
      BY DEF AnsweredIsOnDisk
    <2>1. CASE op[r] = "commit"
      <3>1. f \in DOMAIN wt
        BY <2>1 DEF Succeeded, Owed, OnDisk, Past, Course
      <3> QED  BY <2>1, <3>1 DEF EmptiedIsWritten
    <2>2. CASE op[r] = "vote"
      <3>1. Voted(r, "bm") /\ Voted(r, "bmi")
        BY <2>2 DEF Succeeded, OnDisk, Past
      <3>2. f \in DOMAIN wt /\ (wt[f] # Emptied => r \in wt[f])
        BY <2>2, <3>1 DEF Voted, Owed, Bitmaps
      <3> QED  BY <3>2 DEF EmptiedIsWritten
    <2> QED  BY <2>1, <2>2 DEF Succeeded
  <1> HIDE DEF Inv
  <1> QED  BY <1>1, <1>2, <1>3, PTL DEF Spec
=============================================================================
