--------------------------- MODULE RecordStoreProofs ---------------------------
(***************************************************************************)
(* What the store of records guarantees for every number of requests.      *)
(*                                                                         *)
(* Type correctness holds however requests interleave; it needs that a     *)
(* handler that writes a bitmap has read it (Ready).  The other theorems   *)
(* are about one request at a time (MaxInFlight = 1), with every fault:    *)
(* the runs with two requests show which of them fail otherwise.           *)
(***************************************************************************)
EXTENDS RecordStore, FiniteSetTheorems, TLAPS

Stores ==
    /\ IsTree(wt) /\ IsTree(index)
    /\ IsCommit(head) /\ IsCommit(remote)
    /\ seen \subseteq remote.log

\* A vote writes the bitmaps it has in memory, and has read votes in both.
Voting == {"emptybm", "writebm", "emptybmi", "writebmi"}
HasVotes(r, t) == \A f \in Bitmaps(r) : f \in DOMAIN t /\ t[f] \subseteq Requests

Ready(r) == pc[r] \in Voting => HasVotes(r, held[r])

Handlers ==
    /\ op \in [Requests -> Ops]
    /\ target \in [Requests -> Records]
    /\ pc \in [Requests -> {"new"} \cup Handling \cup Ended]
    /\ at \in [Requests -> 1..4]
    /\ removed \in [Requests -> BOOLEAN]
    /\ DOMAIN held = Requests /\ DOMAIN base = Requests
    /\ \A r \in Requests : IsTree(held[r]) /\ IsCommit(base[r]) /\ Ready(r)

Mutual == mutex \subseteq Requests /\ \A r, s \in mutex : r = s

Few == IsFiniteSet(InFlight) /\ Cardinality(InFlight) <= MaxInFlight

\* TypeOK, and what it needs to be inductive.
Types == Stores /\ Handlers /\ Mutual /\ Few

-----------------------------------------------------------------------------
(* Trees.                                                                  *)

LEMMA EmptyIsTree == IsTree(EmptyTree) /\ IsCommit(NoCommit)
  BY DEF IsTree, IsCommit, EmptyTree, NoCommit

LEMMA OnlyIsTree ==
  ASSUME NEW t, NEW S, IsTree(t)
  PROVE  IsTree(Only(t, S))
  BY DEF IsTree, Only

LEMMA WithoutIsTree ==
  ASSUME NEW t, NEW S, IsTree(t)
  PROVE  IsTree(Without(t, S))
  BY DEF IsTree, Without

LEMMA OverIsTree ==
  ASSUME NEW t, NEW u, IsTree(t), IsTree(u)
  PROVE  IsTree(Over(u, t))
  BY DEF IsTree, Over

LEMMA WithIsTree ==
  ASSUME NEW t, NEW f \in Files, NEW content, IsTree(t),
         content \subseteq Requests \/ content = Emptied
  PROVE  IsTree(With(t, f, content))
  BY DEF IsTree, With

LEMMA FourKinds == Cardinality(Kinds) = 4
  <1>1. Cardinality({"sj"}) = 1 /\ IsFiniteSet({"sj"})
    BY FS_Singleton
  <1>2. Cardinality({"sj"} \cup {"bm"}) = 2 /\ IsFiniteSet({"sj"} \cup {"bm"})
    BY <1>1, FS_AddElement
  <1>3. /\ Cardinality({"sj"} \cup {"bm"} \cup {"bmi"}) = 3
        /\ IsFiniteSet({"sj"} \cup {"bm"} \cup {"bmi"})
    BY <1>2, FS_AddElement
  <1>4. Cardinality({"sj"} \cup {"bm"} \cup {"bmi"} \cup {"dt"}) = 4
    BY <1>3, FS_AddElement
  <1>5. {"sj"} \cup {"bm"} \cup {"bmi"} \cup {"dt"} = Kinds
    BY DEF Kinds
  <1> QED  BY <1>4, <1>5

-----------------------------------------------------------------------------
(* The clone and the remote.                                               *)

LEMMA StoresStep ==
  ASSUME Stores, Handlers, NEW r \in Requests, Step(r)
  PROVE  Stores'
  <1> USE DEF Stores, clone
  <1>1. CASE Fetch(r)  BY <1>1 DEF Fetch
  <1>2. CASE FetchFails(r)  BY <1>2 DEF FetchFails
  <1>20. IsTree(base[r].tree) /\ IsCommit(base[r])
    BY DEF Handlers, IsCommit
  <1>3. CASE Reset(r)  BY <1>3, <1>20 DEF Reset
  <1>21. CASE ResetIndex(r)  BY <1>20, <1>21 DEF ResetIndex
  <1>22. CASE CheckOut(r)
    <2>1. PICK f : \/ wt' = Without(wt, {f})
                  \/ wt' = Over(Only(base[r].tree, {f}), wt)
      BY <1>22 DEF CheckOut
    <2>2. IsTree(wt')
      BY <1>20, <2>1, OnlyIsTree, OverIsTree, WithoutIsTree
    <2> QED  BY <1>22, <2>2 DEF CheckOut
  <1>23. CASE CheckedOut(r)  BY <1>20, <1>23 DEF CheckedOut
  <1>4. CASE Proceed(r)  BY <1>4 DEF Proceed
  <1>5. CASE WriteFile(r)
    <2>1. FileAt(r, WriteOrder) \in Files
      BY DEF Handlers, FileAt, WriteOrder, Files, Kinds
    <2>2. IsTree(With(wt, FileAt(r, WriteOrder), {}))
      BY <2>1, WithIsTree
    <2> QED  BY <1>5, <2>2 DEF WriteFile
  <1>6. CASE RemoveFile(r)
    BY <1>6, WithoutIsTree DEF RemoveFile
  <1>7. CASE ReadBitmaps(r)  BY <1>7 DEF ReadBitmaps
  <1>24. CASE AddBitPanics(r)  BY <1>24 DEF AddBitPanics
  <1>8. ASSUME pc[r] \in Voting, NEW kind \in {"bm", "bmi"},
               EmptyBitmap(r, kind) \/ WriteBitmap(r, kind)
        PROVE  IsTree(wt')
    <2> DEFINE f == <<target[r], kind>>
    <2>1. f \in Files /\ f \in Bitmaps(r)
      BY DEF Handlers, Bitmaps, Files, Kinds
    <2>2. held[r][f] \cup {r} \subseteq Requests
      BY <1>8, <2>1 DEF Handlers, Ready, HasVotes
    <2>3. IsTree(With(wt, f, held[r][f] \cup {r})) /\ IsTree(With(wt, f, Emptied))
      BY <2>1, <2>2, WithIsTree
    <2> QED  BY <1>8, <2>3 DEF EmptyBitmap, WriteBitmap
  <1>9. CASE EmptyBm(r) \/ WriteBm(r)  BY <1>8, <1>9 DEF EmptyBm, WriteBm, Voting
  <1>10. CASE EmptyBmi(r) \/ WriteBmi(r)  BY <1>8, <1>10 DEF EmptyBmi, WriteBmi, Voting
  <1>11. CASE ReadIndex(r)  BY <1>11 DEF ReadIndex
  <1>12. CASE WriteIndex(r)
    <2> DEFINE f == FileAt(r, StagedKinds(op[r]))
    <2>1. IsTree(held[r])  BY DEF Handlers
    <2>2. ASSUME f \in DOMAIN wt PROVE IsTree(With(held[r], f, wt[f]))
      <3>1. f \in Files /\ (wt[f] \subseteq Requests \/ wt[f] = Emptied)  BY <2>2 DEF IsTree
      <3> QED  BY <2>1, <3>1, WithIsTree
    <2>3. IsTree(Without(held[r], {f}))  BY <2>1, WithoutIsTree
    <2>4. \/ UNCHANGED index
          \/ f \in DOMAIN wt /\ index' = With(held[r], f, wt[f])
          \/ index' = Without(held[r], {f})
      BY <1>12 DEF WriteIndex
    <2>5. IsTree(index')  BY <2>2, <2>3, <2>4
    <2> QED  BY <1>12, <2>5 DEF WriteIndex
  <1>13. CASE CannotRemove(r)  BY <1>13 DEF CannotRemove
  <1>14. CASE BuildCommit(r)  BY <1>14 DEF BuildCommit
  <1>15. CASE MoveHead(r)  BY <1>15 DEF MoveHead, Handlers
  <1>16. CASE Push(r)  BY <1>16 DEF Push
  <1>17. CASE PushFails(r)  BY <1>17 DEF PushFails
  <1>18. CASE PushUnheard(r)  BY <1>18 DEF PushUnheard, Behind
  <1> QED
    BY <1>1, <1>2, <1>3, <1>4, <1>5, <1>6, <1>7, <1>9, <1>10, <1>11, <1>12, <1>13,
       <1>14, <1>15, <1>16, <1>17, <1>18, <1>21, <1>22, <1>23, <1>24 DEF Step

LEMMA PublishKeeps ==
  ASSUME Stores, NEW q \in Foreign, Publish(q)
  PROVE  Stores'
  <1>1. IsTree([f \in FilesOf(q) |-> {}])
    BY DEF IsTree, FilesOf, Files, Records
  <1>2. IsTree(Over(remote.tree, [f \in FilesOf(q) |-> {}]))
    BY <1>1, OverIsTree DEF Stores, IsCommit
  <1> QED  BY <1>2 DEF Publish, Stores, IsCommit, Records, clone

-----------------------------------------------------------------------------
(* The handlers.                                                           *)

\* What a step of a handler leaves alone: what concerns the others.
Own(r) ==
    /\ pc' = [pc EXCEPT ![r] = pc'[r]]
    /\ at' = [at EXCEPT ![r] = at'[r]]
    /\ removed' = [removed EXCEPT ![r] = removed'[r]]
    /\ DOMAIN held' = Requests /\ DOMAIN base' = Requests
    /\ \A s \in Requests \ {r} : held'[s] = held[s] /\ base'[s] = base[s]

\* What it leaves of its own.
Typed(r) ==
    /\ pc'[r] \in {"new"} \cup Handling \cup Ended
    /\ at'[r] \in 1..4
    /\ removed'[r] \in BOOLEAN
    /\ IsTree(held'[r]) /\ IsCommit(base'[r])
    /\ pc'[r] \in Voting => HasVotes(r, held'[r])

LEMMA OwnKeeps ==
  ASSUME Handlers, NEW r \in Requests, Own(r), Typed(r), UNCHANGED request
  PROVE  Handlers'
  <1>1. \A s \in Requests : IsTree(held'[s]) /\ IsCommit(base'[s]) /\ Ready(s)'
    <2> TAKE s \in Requests
    <2>1. CASE s = r  BY <2>1 DEF Typed, Ready, HasVotes, Bitmaps, request
    <2>2. CASE s # r
      <3>1. pc'[s] = pc[s] /\ held'[s] = held[s] /\ base'[s] = base[s]
        BY <2>2 DEF Own, Handlers
      <3> QED  BY <3>1 DEF Handlers, Ready, HasVotes, Bitmaps, request
    <2> QED  BY <2>1, <2>2
  <1> QED  BY <1>1 DEF Handlers, Own, Typed, request

LEMMA AnswerIsTyped ==
  ASSUME Handlers, NEW r \in Requests, NEW label \in Ended, Answer(r, label)
  PROVE  Own(r) /\ Typed(r)
  BY EmptyIsTree DEF Answer, Goto, Own, Typed, Handlers, Ended, Voting

\* A handler that changes neither held nor base, and goes anywhere but to
\* the writing of bitmaps.
LEMMA GotoIsTyped ==
  ASSUME Handlers, NEW r \in Requests, NEW label \in Handling \cup Ended,
         label \notin Voting, Goto(r, label), UNCHANGED local
  PROVE  Own(r) /\ Typed(r)
  BY DEF Goto, Own, Typed, Handlers, local

LEMMA HandlersStep ==
  ASSUME Stores, Handlers, NEW r \in Requests, Step(r)
  PROVE  Handlers'
  <1> SUFFICES Own(r) /\ Typed(r) /\ UNCHANGED request
    BY OwnKeeps
  <1>0. UNCHANGED request
    BY DEF Step, Fetch, FetchFails, Reset, ResetIndex, CheckOut, CheckedOut, Proceed, WriteFile,
       RemoveFile, ReadBitmaps, CanAddBit, AddBitPanics, EmptyBm, WriteBm, EmptyBmi, WriteBmi,
       ReadIndex, WriteIndex, CannotRemove, BuildCommit, MoveHead, Push, PushFails, PushUnheard
  <1> USE <1>0 DEF Own, Typed, Goto, Handling, Ended, Voting
  <1>1. CASE Fetch(r)
    <2>1. CASE Answer(r, "failed")  BY <2>1, AnswerIsTyped
    <2>2. CASE Goto(r, "pulled") /\ UNCHANGED local  BY <2>2, GotoIsTyped
    <2>3. CASE Goto(r, "reset") /\ base' = [base EXCEPT ![r] = remote]
               /\ UNCHANGED <<at, held, removed>>
      BY <2>3 DEF Handlers, Stores
    <2> QED  BY <1>1, <2>1, <2>2, <2>3 DEF Fetch
  <1>2. CASE FetchFails(r)  BY <1>2, AnswerIsTyped DEF FetchFails
  <1>3. CASE Reset(r)
    <2>1. CASE Answer(r, "failed")  BY <2>1, AnswerIsTyped
    <2>2. CASE ~Answer(r, "failed")
      BY <1>3, <2>2 DEF Reset, Handlers, Stores
    <2> QED  BY <2>1, <2>2
  <1>18. CASE ResetIndex(r)
    <2> DEFINE tree  == base[r].tree
               files == Changed(held[r], tree) \cap Changed(wt, tree)
               todo  == [f \in files |-> {}]
    <2>1. IsTree(held[r]) /\ IsTree(tree) /\ IsCommit(base[r])
      BY DEF Handlers, IsCommit
    <2>2. IsTree(todo)
      BY <2>1 DEF IsTree, Changed
    <2>3. /\ held' \in {[held EXCEPT ![r] = EmptyTree], [held EXCEPT ![r] = todo]}
          /\ base' \in {[base EXCEPT ![r] = NoCommit], base}
          /\ pc' \in {[pc EXCEPT ![r] = "pulled"], [pc EXCEPT ![r] = "checkout"]}
          /\ UNCHANGED <<at, removed>>
      BY <1>18 DEF ResetIndex
    <2> HIDE DEF todo
    <2> QED  BY <2>1, <2>2, <2>3, EmptyIsTree DEF Handlers
  <1>19. CASE CheckOut(r)
    <2>1. PICK f : held' \in {held, [held EXCEPT ![r] = Without(held[r], {f})]}
      BY <1>19 DEF CheckOut
    <2>2. IsTree(held[r]) /\ IsTree(Without(held[r], {f}))
      BY WithoutIsTree DEF Handlers
    <2> QED  BY <1>19, <2>1, <2>2 DEF CheckOut, Handlers
  <1>20. CASE CheckedOut(r)
    BY <1>20, EmptyIsTree DEF CheckedOut, Handlers
  <1>4. CASE Proceed(r)
    <2>1. PICK label \in AfterPull(r) : Goto(r, label)
      BY <1>4 DEF Proceed
    <2>2. op[r] \in Ops  BY DEF Handlers
    <2>3. CASE op[r] = "query"  BY <1>4, <2>1, <2>3, GotoIsTyped DEF Proceed, AfterPull
    <2>4. CASE op[r] = "commit"  BY <1>4, <2>1, <2>4, GotoIsTyped DEF Proceed, AfterPull
    <2>5. CASE op[r] = "delete"  BY <1>4, <2>1, <2>5, GotoIsTyped DEF Proceed, AfterPull
    <2>6. CASE op[r] = "vote"  BY <1>4, <2>1, <2>6, GotoIsTyped DEF Proceed, AfterPull
    <2> QED  BY <2>2, <2>3, <2>4, <2>5, <2>6 DEF Ops
  <1>5. CASE WriteFile(r)
    BY <1>5 DEF WriteFile, Advance, Handlers, WriteOrder
  <1>6. CASE RemoveFile(r)
    <2>1. CASE Answer(r, "succeeded")  BY <2>1, AnswerIsTyped
    <2>2. CASE ~Answer(r, "succeeded")
      <3> DEFINE any == removed[r] \/ FileAt(r, RemovalOrder) \in DOMAIN wt
      <3>1. any \in BOOLEAN  OBVIOUS
      <3>2. /\ pc[r] = "remove" /\ UNCHANGED <<held, base>>
            /\ removed' = [removed EXCEPT ![r] = any]
            /\ Advance(r, RemovalOrder, "stage")
        BY <1>6, <2>2 DEF RemoveFile
      <3> HIDE DEF any
      <3> QED  BY <3>1, <3>2 DEF Advance, Handlers, RemovalOrder
    <2> QED  BY <2>1, <2>2
  <1>7. CASE ReadBitmaps(r)
    <2> DEFINE fresh == [f \in Bitmaps(r) |-> {}]
               t == Over(Only(wt, Bitmaps(r)), fresh)
    <2>1. IsTree(fresh)
      BY DEF IsTree, Bitmaps, Handlers, Files, Kinds
    <2>2. IsTree(t)  BY <2>1, OverIsTree, OnlyIsTree DEF Stores
    <2>3. \A f \in Bitmaps(r) \cap DOMAIN wt : wt[f] \subseteq Requests
      BY <1>7 DEF ReadBitmaps, CanAddBit, Stores, IsTree
    <2>4. HasVotes(r, t)  BY <2>3 DEF Over, Only, HasVotes
    <2> HIDE DEF t
    <2> QED  BY <1>7, <2>2, <2>4 DEF ReadBitmaps, Handlers, t
  <1>21. CASE AddBitPanics(r)  BY <1>21, AnswerIsTyped DEF AddBitPanics
  <1>8. CASE EmptyBm(r) \/ WriteBm(r) \/ EmptyBmi(r)
    BY <1>8 DEF EmptyBm, WriteBm, EmptyBmi, Handlers, Ready, local
  <1>9. CASE WriteBmi(r)
    BY <1>9, EmptyIsTree DEF WriteBmi, Handlers
  <1>10. CASE ReadIndex(r)
    BY <1>10 DEF ReadIndex, Handlers, Stores
  <1>11. CASE WriteIndex(r)
    <2>1. Len(StagedKinds(op[r])) \in {2, 4}
      BY DEF StagedKinds
    <2>2. PICK n \in {2, 4} : n = Len(StagedKinds(op[r]))
      BY <2>1
    <2>3. CASE at[r] < n
      <3>1. at[r] + 1 \in 1..4  BY <2>3 DEF Handlers
      <3>2. at' = [at EXCEPT ![r] = at[r] + 1] /\ pc' = [pc EXCEPT ![r] = "stage"]
        BY <1>11, <2>2, <2>3 DEF WriteIndex
      <3>3. held' = [held EXCEPT ![r] = EmptyTree] /\ UNCHANGED <<base, removed>>
        BY <1>11 DEF WriteIndex
      <3> QED  BY <3>1, <3>2, <3>3, EmptyIsTree DEF Handlers
    <2>4. CASE ~(at[r] < n)
      <3>1. at' = [at EXCEPT ![r] = 1] /\ pc' = [pc EXCEPT ![r] = "commit"]
        BY <1>11, <2>2, <2>4 DEF WriteIndex
      <3>2. held' = [held EXCEPT ![r] = EmptyTree] /\ UNCHANGED <<base, removed>>
        BY <1>11 DEF WriteIndex
      <3> QED  BY <3>1, <3>2, EmptyIsTree DEF Handlers
    <2> QED  BY <2>3, <2>4
  <1>12. CASE CannotRemove(r)  BY <1>12, AnswerIsTyped DEF CannotRemove
  <1>13. CASE BuildCommit(r)
    <2>1. CASE Answer(r, "failed")  BY <2>1, AnswerIsTyped
    <2>2. CASE ~Answer(r, "failed")
      <3>1. IsCommit([log |-> head.log \cup {r}, tree |-> index])
        BY DEF IsCommit, Stores, Records
      <3> QED  BY <1>13, <2>2, <3>1 DEF BuildCommit, Handlers
    <2> QED  BY <2>1, <2>2
  <1>14. CASE MoveHead(r)  BY <1>14, EmptyIsTree DEF MoveHead, Handlers
  <1>15. CASE Push(r)  BY <1>15, AnswerIsTyped DEF Push
  <1>16. CASE PushFails(r)  BY <1>16, AnswerIsTyped DEF PushFails
  <1>17. CASE PushUnheard(r)  BY <1>17, AnswerIsTyped DEF PushUnheard
  <1> QED
    BY <1>1, <1>2, <1>3, <1>4, <1>5, <1>6, <1>7, <1>8, <1>9, <1>10, <1>11, <1>12, <1>13,
       <1>14, <1>15, <1>16, <1>17, <1>18, <1>19, <1>20, <1>21 DEF Step

LEMMA ArriveKeeps ==
  ASSUME Handlers, NEW r \in Requests, Arrive(r)
  PROVE  Handlers'
  <1>1. PICK o \in Ops : \E q \in Targets(r, o) : /\ op' = [op EXCEPT ![r] = o]
                                                  /\ target' = [target EXCEPT ![r] = q]
    BY DEF Arrive
  <1>2. Targets(r, o) \subseteq Records
    <2>1. CASE o = "delete"  BY <2>1 DEF Targets, Records
    <2>2. CASE o = "vote"  BY <2>2 DEF Targets, Records
    <2>3. CASE o \notin {"delete", "vote"}  BY <2>3 DEF Targets, Records
    <2> QED  BY <2>1, <2>2, <2>3
  <1>3. \A s \in Requests : Ready(s)'
    BY <1>1 DEF Arrive, Goto, Handlers, Ready, HasVotes, Bitmaps, Voting, local
  <1> QED  BY <1>1, <1>2, <1>3 DEF Arrive, Goto, Handlers, local, Handling

-----------------------------------------------------------------------------
(* Who is at work.                                                         *)

LEMMA MutualStep ==
  ASSUME Mutual, NEW r \in Requests, Step(r)
  PROVE  Mutual'
  <1> USE DEF Mutual
  <1>1. CASE ReadBitmaps(r)  BY <1>1 DEF ReadBitmaps
  <1>2. CASE WriteBmi(r)  BY <1>2 DEF WriteBmi
  <1>3. CASE ~ReadBitmaps(r) /\ ~WriteBmi(r)
    <2>1. UNCHANGED mutex
      BY <1>3 DEF Step, Fetch, FetchFails, Reset, ResetIndex, CheckOut, CheckedOut, Proceed,
         WriteFile, RemoveFile, AddBitPanics, EmptyBm, EmptyBmi, WriteBm, ReadIndex, WriteIndex, CannotRemove,
         BuildCommit, MoveHead, Push, PushFails, PushUnheard
    <2> QED  BY <2>1
  <1> QED  BY <1>1, <1>2, <1>3

\* A handler that takes a step is in flight; the others stay where they are.
LEMMA StepIsInFlight ==
  ASSUME Handlers, NEW r \in Requests, Step(r)
  PROVE  /\ r \in InFlight
         /\ \A s \in Requests : s # r => pc'[s] = pc[s]
  <1>1. r \in InFlight
    BY DEF Step, Fetch, FetchFails, Reset, ResetIndex, CheckOut, CheckedOut, Proceed, WriteFile,
       RemoveFile, ReadBitmaps, CanAddBit, AddBitPanics, EmptyBm, WriteBm, EmptyBmi, WriteBmi,
       ReadIndex, WriteIndex, CannotRemove, BuildCommit, MoveHead, Push, PushFails, PushUnheard,
       InFlight, Handling
  <1>2. \E label : pc' = [pc EXCEPT ![r] = label]
    <2>1. CASE Proceed(r)  BY <2>1 DEF Proceed, Goto
    <2>2. CASE UNCHANGED pc
      <3> WITNESS pc[r]
      <3> QED  BY <2>2 DEF Handlers
    <2>3. CASE ~Proceed(r) /\ pc' # pc
      BY <2>3 DEF Step, Fetch, FetchFails, Reset, ResetIndex, CheckOut, CheckedOut, WriteFile,
         RemoveFile, ReadBitmaps, CanAddBit, AddBitPanics, EmptyBm, WriteBm, EmptyBmi, WriteBmi,
         ReadIndex, WriteIndex, CannotRemove, BuildCommit, MoveHead, Push, PushFails, PushUnheard,
         Advance, Goto, Answer
    <2> QED  BY <2>1, <2>2, <2>3
  <1> QED  BY <1>1, <1>2 DEF Handlers

LEMMA InFlightShrinks ==
  ASSUME Handlers, NEW r \in Requests, Step(r) \/ Abort(r)
  PROVE  InFlight' \subseteq InFlight
  <1>1. CASE Step(r)  BY <1>1, StepIsInFlight DEF InFlight
  <1>2. CASE Abort(r)  BY <1>2 DEF Abort, Answer, Goto, InFlight, Handling, Handlers
  <1> QED  BY <1>1, <1>2

LEMMA ArrivalIsNew ==
  ASSUME Handlers, NEW r \in Requests, Arrive(r)
  PROVE  InFlight' = InFlight \cup {r} /\ r \notin InFlight
  BY DEF Arrive, Goto, InFlight, Handling, Handlers

LEMMA FewStep ==
  ASSUME Handlers, Few, [Next]_vars
  PROVE  Few'
  <1>1. ASSUME NEW r \in Requests, Arrive(r) PROVE Few'
    <2>1. Cardinality(InFlight) \in Nat /\ Cardinality(InFlight) < MaxInFlight
      BY <1>1, FS_CardinalityType DEF Few, Arrive
    <2> QED  BY <1>1, <2>1, ArrivalIsNew, FS_AddElement, MaxInFlightAssumption DEF Few
  <1>2. ASSUME InFlight' \subseteq InFlight PROVE Few'
    BY <1>2, FS_Subset, FS_CardinalityType, MaxInFlightAssumption DEF Few
  <1>3. ASSUME NEW q \in Foreign, Publish(q) PROVE InFlight' = InFlight
    BY <1>3 DEF Publish, InFlight
  <1>4. UNCHANGED vars => InFlight' = InFlight
    BY DEF vars, InFlight
  <1> QED  BY <1>1, <1>2, <1>3, <1>4, InFlightShrinks DEF Next, AllAnswered

-----------------------------------------------------------------------------
(* The types.                                                              *)

LEMMA TypesInit == Init => Types
  <1> SUFFICES ASSUME Init PROVE Types
    OBVIOUS
  <1> USE DEF Init
  <1>1. Stores  BY EmptyIsTree DEF Stores, NoCommit
  <1>2. Handlers  BY EmptyIsTree DEF Handlers, Ops, Records, Ready, Voting
  <1>3. InFlight = {}  BY DEF InFlight, Handling
  <1>4. Few  BY <1>3, FS_EmptySet, MaxInFlightAssumption DEF Few
  <1> QED  BY <1>1, <1>2, <1>4 DEF Types, Mutual

LEMMA TypesStep == Types /\ [Next]_vars => Types'
  <1> SUFFICES ASSUME Types, [Next]_vars PROVE Types'
    OBVIOUS
  <1> USE DEF Types
  <1>1. Few'  BY FewStep
  <1>2. ASSUME NEW r \in Requests, Arrive(r) PROVE Types'
    BY <1>1, <1>2, ArriveKeeps DEF Arrive, Stores, Mutual, clone
  <1>3. ASSUME NEW r \in Requests, Step(r) PROVE Types'
    BY <1>1, <1>3, StoresStep, HandlersStep, MutualStep
  <1>4. ASSUME NEW r \in Requests, Abort(r) PROVE Types'
    <2>1. Handlers'
      BY <1>4, AnswerIsTyped, OwnKeeps DEF Abort, Ended
    <2> QED  BY <1>1, <1>4, <2>1 DEF Abort, Stores, Mutual, clone
  <1>5. ASSUME NEW q \in Foreign, Publish(q) PROVE Types'
    <2>1. Handlers'  BY <1>5 DEF Publish, Handlers, Ready, HasVotes, Bitmaps, request, local
    <2> QED  BY <1>1, <1>5, <2>1, PublishKeeps DEF Publish, Mutual
  <1>6. CASE UNCHANGED vars
    BY <1>1, <1>6 DEF vars, Stores, Handlers, Ready, HasVotes, Bitmaps, Mutual
  <1> QED  BY <1>2, <1>3, <1>4, <1>5, <1>6 DEF Next, AllAnswered

\* Every state of the store is well typed: votes stay in bitmaps that were
\* read, whatever is removed meanwhile, and one handler at a time has the mutex.
THEOREM TypeCorrect == Spec => []TypeOK
  <1>1. Types => TypeOK
    <2> SUFFICES ASSUME Types PROVE TypeOK
      OBVIOUS
    <2>1. Cardinality(mutex) <= 1
      <3>1. CASE mutex = {}  BY <3>1, FS_EmptySet
      <3>2. ASSUME NEW r \in mutex PROVE Cardinality(mutex) <= 1
        <4>1. mutex = {r}  BY DEF Types, Mutual
        <4>2. Cardinality({r}) = 1  BY FS_Singleton
        <4> QED  BY <4>1, <4>2
      <3> QED  BY <3>1, <3>2
    <2> QED  BY <2>1, FourKinds DEF Types, Stores, Handlers, Mutual, Few, TypeOK
  <1> QED  BY <1>1, TypesInit, TypesStep, PTL DEF Spec

-----------------------------------------------------------------------------
(* One request at a time.                                                  *)

Alone == \A r, s \in InFlight : r = s

\* The commit that a handler has read or built goes with HEAD.
Based ==
    \A r \in Requests :
        /\ pc[r] \in {"reset", "resetindex", "checkout"} => base[r] = head
        /\ pc[r] = "move" => base[r].log = head.log \cup {r}

\* Commits of others come from the remote, and those of a request exist once
\* it has made them.
Origins ==
    /\ head.log \cap Foreign \subseteq remote.log
    /\ \A r \in Requests :
          pc[r] \notin {"push"} \cup Ended => r \notin head.log \cup remote.log

Serial == Stores /\ Handlers /\ Alone /\ Based /\ Origins

\* A request comes when no other is in flight.
LEMMA AloneNext ==
  ASSUME MaxInFlight = 1, Handlers, Alone, [Next]_vars
  PROVE  Alone'
  <1>1. ASSUME NEW r \in Requests, Arrive(r) PROVE Alone'
    <2>1. InFlight = {}
      <3>1. ASSUME NEW s \in InFlight PROVE FALSE
        <4>1. InFlight = {s}  BY DEF Alone
        <4>2. Cardinality({s}) = 1  BY FS_Singleton
        <4> QED  BY <1>1, <4>1, <4>2 DEF Arrive
      <3> QED  BY <3>1
    <2> QED  BY <1>1, <2>1, ArrivalIsNew DEF Alone
  <1>2. ASSUME InFlight' \subseteq InFlight PROVE Alone'
    BY <1>2 DEF Alone
  <1>3. ASSUME NEW q \in Foreign, Publish(q) PROVE InFlight' = InFlight
    BY <1>3 DEF Publish, InFlight
  <1>4. UNCHANGED vars => InFlight' = InFlight
    BY DEF vars, InFlight
  <1> QED  BY <1>1, <1>2, <1>3, <1>4, InFlightShrinks DEF Next, AllAnswered

\* What a step does to the two histories.
LEMMA LogsStep ==
  ASSUME Serial, NEW r \in Requests, Step(r)
  PROVE  /\ head.log \subseteq head'.log
         /\ head'.log \subseteq head.log \cup remote.log \cup {r}
         /\ remote.log \subseteq remote'.log /\ remote'.log \subseteq head.log \cup remote.log
         /\ r \in head'.log \cup remote'.log =>
                r \in head.log \cup remote.log \/ pc'[r] = "push"
  <1> USE DEF Serial, clone
  <1>1. CASE Fetch(r)  BY <1>1 DEF Fetch, Ahead
  <1>2. CASE Reset(r)  BY <1>2 DEF Reset, Based
  <1>3. CASE MoveHead(r)  BY <1>3 DEF MoveHead, Based, Goto, Handlers
  <1>4. CASE Push(r)  BY <1>4 DEF Push, Behind
  <1>5. CASE PushUnheard(r)  BY <1>5 DEF PushUnheard, Behind
  <1>6. CASE ~Fetch(r) /\ ~Reset(r) /\ ~MoveHead(r) /\ ~Push(r) /\ ~PushUnheard(r)
    <2>1. UNCHANGED <<head, remote>>
      BY <1>6 DEF Step, FetchFails, ResetIndex, CheckOut, CheckedOut, Proceed, WriteFile,
         RemoveFile, ReadBitmaps, CanAddBit, AddBitPanics, EmptyBm, WriteBm, EmptyBmi, WriteBmi,
         ReadIndex, WriteIndex, CannotRemove, BuildCommit, PushFails
    <2> QED  BY <2>1
  <1> QED  BY <1>1, <1>2, <1>3, <1>4, <1>5, <1>6

LEMMA SerialStep ==
  ASSUME Serial, NEW r \in Requests, Step(r)
  PROVE  Based' /\ Origins'
  <1>1. ASSUME NEW s \in Requests, s # r PROVE s \notin InFlight /\ pc'[s] = pc[s]
    BY <1>1, StepIsInFlight DEF Serial, Alone
  <1>2. Origins'
    <2>1. head'.log \cap Foreign \subseteq remote'.log
      BY LogsStep, ForeignAssumption DEF Serial, Origins
    <2>2. ASSUME NEW s \in Requests, pc'[s] \notin {"push"} \cup Ended
          PROVE  s \notin head'.log \cup remote'.log
      <3>1. CASE s # r
        BY <1>1, <2>2, <3>1, LogsStep DEF Serial, Origins
      <3>2. CASE s = r
        <4>1. pc[r] \notin {"push"} \cup Ended
          BY <2>2, <3>2 DEF Step, Fetch, FetchFails, Reset, ResetIndex, CheckOut, CheckedOut,
             Proceed, WriteFile, RemoveFile, ReadBitmaps, CanAddBit, AddBitPanics, EmptyBm,
             WriteBm, EmptyBmi, WriteBmi, ReadIndex, WriteIndex, CannotRemove, BuildCommit,
             MoveHead, Push, PushFails, PushUnheard, Answer, Goto, Ended, Serial, Handlers
        <4> QED  BY <2>2, <3>2, <4>1, LogsStep DEF Serial, Origins
      <3> QED  BY <3>1, <3>2
    <2> QED  BY <2>1, <2>2 DEF Origins
  <1>3. ASSUME NEW s \in Requests, s # r
        PROVE  pc'[s] \notin {"reset", "resetindex", "checkout", "move"}
    BY <1>1, <1>3 DEF InFlight, Handling
  <1>4. /\ pc'[r] \in {"reset", "resetindex", "checkout"} => base'[r] = head'
        /\ pc'[r] = "move" => base'[r].log = head'.log \cup {r}
    <2> USE DEF Goto, Answer, Ended, Serial, Handlers
    <2>1. CASE Fetch(r)  BY <2>1 DEF Fetch, local
    <2>2. CASE BuildCommit(r)  BY <2>2 DEF BuildCommit, clone
    <2>3. CASE Proceed(r)
      <3>1. pc'[r] \in AfterPull(r)  BY <2>3 DEF Proceed
      <3>2. op[r] \in Ops  OBVIOUS
      <3> QED  BY <3>1, <3>2 DEF AfterPull, Ops
    <2>4. CASE Reset(r) \/ ResetIndex(r) \/ CheckOut(r) \/ CheckedOut(r)
      BY <2>4 DEF Reset, ResetIndex, CheckOut, CheckedOut, Based
    <2>5. CASE ~Fetch(r) /\ ~BuildCommit(r) /\ ~Proceed(r)
               /\ ~Reset(r) /\ ~ResetIndex(r) /\ ~CheckOut(r) /\ ~CheckedOut(r)
      <3>1. pc'[r] \notin {"reset", "resetindex", "checkout", "move"}
        BY <2>5 DEF Step, FetchFails, WriteFile, RemoveFile, Advance, ReadBitmaps, CanAddBit,
           AddBitPanics, EmptyBm, WriteBm, EmptyBmi, WriteBmi, ReadIndex, WriteIndex,
           CannotRemove, MoveHead, Push, PushFails, PushUnheard
      <3> QED  BY <3>1
    <2> QED  BY <2>1, <2>2, <2>3, <2>4, <2>5
  <1> QED  BY <1>2, <1>3, <1>4 DEF Based

LEMMA SerialInit == Init => Types /\ Serial
  <1>1. Init => Types  BY TypesInit
  <1> QED  BY <1>1 DEF Types, Serial, Init, Alone, Based, Origins, InFlight, Handling, NoCommit

LEMMA SerialNext ==
  ASSUME MaxInFlight = 1, Types, Serial, [Next]_vars
  PROVE  Types' /\ Serial'
  <1>1. Types' /\ Alone'  BY TypesStep, AloneNext DEF Serial
  <1> SUFFICES Based' /\ Origins'
    BY <1>1 DEF Types, Serial
  <1>2. ASSUME NEW r \in Requests, Arrive(r) PROVE Based' /\ Origins'
    BY <1>2 DEF Arrive, Goto, Serial, Handlers, Based, Origins, Ended, clone, local
  <1>3. ASSUME NEW r \in Requests, Step(r) PROVE Based' /\ Origins'
    BY <1>3, SerialStep
  <1>4. ASSUME NEW r \in Requests, Abort(r) PROVE Based' /\ Origins'
    BY <1>4 DEF Abort, Answer, Goto, Serial, Handlers, Based, Origins, Ended, clone
  <1>5. ASSUME NEW q \in Foreign, Publish(q) PROVE Based' /\ Origins'
    BY <1>5, ForeignAssumption DEF Publish, Serial, Based, Origins, clone, local
  <1>6. CASE UNCHANGED vars
    BY <1>6 DEF vars, Serial, Based, Origins
  <1> QED  BY <1>2, <1>3, <1>4, <1>5, <1>6 DEF Next, AllAnswered

\* One request at a time, a local commit is never dropped, by a pull that
\* forces its way or a push that lands elsewhere.
THEOREM CommitsAreKept ==
  ASSUME MaxInFlight = 1
  PROVE  Spec => HeadKeepsCommits
  <1>1. Serial /\ [Next]_vars => [head.log \subseteq head'.log]_vars
    <2> SUFFICES ASSUME Serial, [Next]_vars PROVE head.log \subseteq head'.log
      OBVIOUS
    <2>1. CASE \E r \in Requests : Step(r)  BY <2>1, LogsStep
    <2>2. CASE ~\E r \in Requests : Step(r)
      BY <2>2 DEF Next, Arrive, Abort, Publish, AllAnswered, vars, clone
    <2> QED  BY <2>1, <2>2
  <1>2. Init => Types /\ Serial  BY SerialInit
  <1>3. (Types /\ Serial) /\ [Next]_vars => (Types /\ Serial)'  BY SerialNext
  <1> QED  BY <1>1, <1>2, <1>3, PTL DEF Spec, HeadKeepsCommits

\* One request at a time, histories that have parted stay apart: nothing the
\* service does joins them, and no pull succeeds again.
THEOREM PartedStaysParted ==
  ASSUME MaxInFlight = 1
  PROVE  Spec => DivergedStaysShut
  <1> DEFINE Shut == \A r \in Requests : pc[r] = "pull" => pc'[r] \in {"pull", "failed", "cut"}
  <1>1. ASSUME Serial, Diverged, NEW r \in Requests, Step(r) PROVE Diverged' /\ Shut
    <2>1. head' = head \/ head'.log = head.log \cup {r}
      <3>1. CASE Fetch(r)  BY <1>1, <3>1 DEF Fetch, Diverged
      <3>2. CASE Reset(r)  BY <1>1, <3>2 DEF Reset, Serial, Based
      <3>3. CASE MoveHead(r)  BY <1>1, <3>3 DEF MoveHead, Serial, Based
      <3>4. CASE ~Fetch(r) /\ ~Reset(r) /\ ~MoveHead(r)
        BY <1>1, <3>4 DEF Step, FetchFails, ResetIndex, CheckOut, CheckedOut, Proceed, WriteFile,
           RemoveFile, ReadBitmaps, CanAddBit, AddBitPanics, EmptyBm, WriteBm, EmptyBmi, WriteBmi,
           ReadIndex, WriteIndex, CannotRemove, BuildCommit, Push, PushFails, PushUnheard, clone
      <3> QED  BY <3>1, <3>2, <3>3, <3>4
    <2>2. remote' = remote
      BY <1>1 DEF Step, Fetch, FetchFails, Reset, ResetIndex, CheckOut, CheckedOut, Proceed,
         WriteFile, RemoveFile, ReadBitmaps, CanAddBit, AddBitPanics, EmptyBm, WriteBm, EmptyBmi,
         WriteBmi, ReadIndex, WriteIndex, CannotRemove, BuildCommit, MoveHead, Push, PushFails,
         PushUnheard, clone, Diverged
    <2>3. head' = head \/ r \notin remote.log
      <3>1. CASE pc[r] = "push"
        BY <1>1, <3>1 DEF Step, Fetch, FetchFails, Reset, ResetIndex, CheckOut, CheckedOut,
           Proceed, WriteFile, RemoveFile, ReadBitmaps, CanAddBit, AddBitPanics, EmptyBm, WriteBm,
           EmptyBmi, WriteBmi, ReadIndex, WriteIndex, CannotRemove, BuildCommit, MoveHead, Push,
           PushFails, PushUnheard, clone
      <3>2. CASE pc[r] # "push"
        <4>1. pc[r] \notin Ended
          BY <1>1, StepIsInFlight DEF Serial, InFlight, Handling, Ended
        <4> QED  BY <1>1, <3>2, <4>1 DEF Serial, Origins
      <3> QED  BY <3>1, <3>2
    <2>4. Diverged'
      BY <1>1, <2>1, <2>2, <2>3 DEF Diverged, Ahead, Behind
    <2>5. Shut
      <3> SUFFICES ASSUME NEW s \in Requests, pc[s] = "pull"
                   PROVE  pc'[s] \in {"pull", "failed", "cut"}
        OBVIOUS
      <3>1. CASE s # r  BY <1>1, <3>1, StepIsInFlight DEF Serial
      <3>2. CASE s = r
        BY <1>1, <3>2 DEF Step, Fetch, FetchFails, Reset, ResetIndex, CheckOut, CheckedOut,
           Proceed, WriteFile, RemoveFile, ReadBitmaps, CanAddBit, AddBitPanics, EmptyBm, WriteBm,
           EmptyBmi, WriteBmi, ReadIndex, WriteIndex, CannotRemove, BuildCommit, MoveHead, Push,
           PushFails, PushUnheard, Diverged, Answer, Goto, Serial, Handlers
      <3> QED  BY <3>1, <3>2
    <2> QED  BY <2>4, <2>5
  <1>2. ASSUME Serial, Diverged, NEW q \in Foreign, Publish(q) PROVE Diverged' /\ Shut
    <2>1. Shut  BY <1>2 DEF Publish
    <2> QED  BY <1>2, <2>1 DEF Publish, Serial, Origins, Diverged, Ahead, Behind, clone
  <1>3. ASSUME Serial, Diverged, NEW r \in Requests, Arrive(r) \/ Abort(r) PROVE Diverged' /\ Shut
    <2>1. UNCHANGED <<head, remote>>  BY <1>3 DEF Arrive, Abort, clone
    <2>2. Shut  BY <1>3 DEF Arrive, Abort, Answer, Goto, Serial, Handlers
    <2> QED  BY <1>3, <2>1, <2>2 DEF Diverged, Ahead, Behind
  <1>4. Serial /\ [Next]_vars => [Diverged => Diverged' /\ Shut]_vars
    BY <1>1, <1>2, <1>3 DEF Next, AllAnswered
  <1>5. Init => Types /\ Serial  BY SerialInit
  <1>6. (Types /\ Serial) /\ [Next]_vars => (Types /\ Serial)'  BY SerialNext
  <1> QED  BY <1>4, <1>5, <1>6, PTL DEF Spec, DivergedStaysShut

-----------------------------------------------------------------------------
(* What a request has done so far, when it is the only one.                *)

\* Both trees have the file, with the same votes, or none has it.
Alike(t, u, f) ==
    IF f \in DOMAIN t THEN f \in DOMAIN u /\ u[f] = t[f] ELSE f \notin DOMAIN u

\* The file at a place in a list.
Nth(r, kinds, i) == <<target[r], kinds[i]>>

Before == {"new", "pull", "reset", "resetindex", "checkout", "pulled", "addbit"} \cup Voting
Saving == {"stage", "add", "commit", "move", "push"}

Progress(r) ==
    /\ op[r] = "commit" => target[r] = r
    /\ pc[r] \in Before => at[r] = 1
    /\ pc[r] = "write" =>
          /\ op[r] = "commit"
          /\ \A i \in 1..(at[r] - 1) : Nth(r, WriteOrder, i) \in DOMAIN wt
    /\ pc[r] = "remove" =>
          /\ op[r] = "delete"
          /\ \A i \in 1..(at[r] - 1) : Nth(r, RemovalOrder, i) \notin DOMAIN wt
    /\ pc[r] \in {"addbit"} \cup Voting => op[r] = "vote"
    /\ pc[r] = "writebm" => <<target[r], "bm">> \in DOMAIN wt
    /\ pc[r] \in {"emptybmi", "writebmi"} =>
          <<target[r], "bm">> \in DOMAIN wt /\ r \in wt[<<target[r], "bm">>]
    /\ pc[r] = "writebmi" => <<target[r], "bmi">> \in DOMAIN wt
    /\ pc[r] \in Saving => op[r] \in {"commit", "delete", "vote"} /\ Promised(r, wt)
    /\ pc[r] \in {"stage", "add"} =>
          \A i \in 1..(at[r] - 1) : Alike(wt, index, Nth(r, StagedKinds(op[r]), i))
    /\ pc[r] = "add" => held[r] = index
    /\ pc[r] = "commit" => Promised(r, index)
    /\ pc[r] = "move" => Promised(r, base[r].tree)
    /\ pc[r] = "push" => Promised(r, head.tree)

\* Writing the four files of a record, one after the other, writes them all.
LEMMA FourFiles ==
  ASSUME NEW q, NEW S,
         \A i \in 1..4 : <<q, WriteOrder[i]>> \in S
  PROVE  FilesOf(q) \subseteq S
  BY DEF FilesOf, Kinds, WriteOrder

LEMMA NoFiles ==
  ASSUME NEW q, NEW S,
         \A i \in 1..4 : <<q, RemovalOrder[i]>> \notin S
  PROVE  FilesOf(q) \cap S = {}
  BY DEF FilesOf, Kinds, RemovalOrder

\* What is staged file by file keeps the promise of the working tree.
LEMMA StagedIsPromised ==
  ASSUME NEW r \in Requests, op[r] \in {"commit", "delete", "vote"}, Promised(r, wt),
         op[r] = "commit" => target[r] = r, NEW t,
         \A i \in 1..Len(StagedKinds(op[r])) : Alike(wt, t, Nth(r, StagedKinds(op[r]), i))
  PROVE  Promised(r, t)
  <1>1. CASE op[r] = "vote"
    <2>1. StagedKinds(op[r]) = <<"bm", "bmi">>  BY <1>1 DEF StagedKinds
    <2>2. Alike(wt, t, <<target[r], "bm">>) /\ Alike(wt, t, <<target[r], "bmi">>)
      BY <2>1 DEF Nth
    <2> QED  BY <1>1, <2>2 DEF Promised, Bitmaps, Alike
  <1>2. CASE op[r] \in {"commit", "delete"}
    <2>1. StagedKinds(op[r]) = <<"sj", "bm", "bmi", "dt">>  BY <1>2 DEF StagedKinds
    <2>2. \A kind \in Kinds : Alike(wt, t, <<target[r], kind>>)
      BY <2>1 DEF Nth, Kinds
    <2> QED  BY <1>2, <2>2 DEF Promised, FilesOf, Alike
  <1> QED  BY <1>1, <1>2

\* The files of a vote, in the working tree.
LEMMA ProgressWrites ==
  ASSUME Serial, NEW r \in Requests, Progress(r),
         \/ WriteFile(r) \/ RemoveFile(r) \/ ReadBitmaps(r)
         \/ EmptyBm(r) \/ WriteBm(r) \/ EmptyBmi(r) \/ WriteBmi(r)
  PROVE  Progress(r)'
  <1> USE DEF Serial, Handlers, Goto, Before, Saving, Voting
  <1>1. CASE WriteFile(r)
    <2>1. /\ op'[r] = "commit" /\ target'[r] = target[r] /\ op[r] = "commit" /\ target[r] = r
          /\ \A i \in 1..at[r] : Nth(r, WriteOrder, i) \in DOMAIN wt'
      BY <1>1 DEF Progress, WriteFile, With, FileAt, Nth, request
    <2>2. CASE at[r] < 4
      <3>1. at'[r] = at[r] + 1 /\ pc'[r] = "write"
        BY <1>1, <2>2 DEF WriteFile, Advance, WriteOrder
      <3> QED  BY <2>1, <3>1 DEF Progress, Nth
    <2>3. CASE at[r] = 4
      <3>1. at'[r] = 1 /\ pc'[r] = "stage"
        BY <1>1, <2>3 DEF WriteFile, Advance, WriteOrder
      <3>2. FilesOf(r) \subseteq DOMAIN wt'
        BY <2>1, <2>3, FourFiles DEF Nth
      <3> QED  BY <2>1, <3>1, <3>2 DEF Progress, Promised
    <2> QED  BY <2>2, <2>3
  <1>2. CASE RemoveFile(r)
    <2>1. /\ op'[r] = "delete" /\ target'[r] = target[r] /\ op[r] = "delete"
          /\ \A i \in 1..at[r] : Nth(r, RemovalOrder, i) \notin DOMAIN wt'
      <3>1. /\ pc[r] = "remove" /\ UNCHANGED request
            /\ wt' = Without(wt, {FileAt(r, RemovalOrder)})
        BY <1>2 DEF RemoveFile
      <3>2. op[r] = "delete" /\ \A i \in 1..(at[r] - 1) : Nth(r, RemovalOrder, i) \notin DOMAIN wt
        BY <3>1 DEF Progress
      <3>3. ASSUME NEW i \in 1..at[r] PROVE Nth(r, RemovalOrder, i) \notin DOMAIN wt'
        <4>1. CASE i = at[r]  BY <3>1, <4>1 DEF Without, FileAt, Nth
        <4>2. CASE i # at[r]
          <5>1. at[r] \in 1..4  OBVIOUS
          <5>2. i \in 1..(at[r] - 1)  BY <4>2, <5>1
          <5> QED  BY <3>1, <3>2, <5>2 DEF Without
        <4> QED  BY <4>1, <4>2
      <3> QED  BY <3>1, <3>2, <3>3 DEF request, Nth
    <2>2. CASE Answer(r, "succeeded")
      BY <2>1, <2>2 DEF Answer, Progress
    <2>3. CASE ~Answer(r, "succeeded") /\ at[r] < 4
      <3>1. at'[r] = at[r] + 1 /\ pc'[r] = "remove"
        BY <1>2, <2>3 DEF RemoveFile, Advance, RemovalOrder
      <3> QED  BY <2>1, <3>1 DEF Progress, Nth
    <2>4. CASE ~Answer(r, "succeeded") /\ at[r] = 4
      <3>1. at'[r] = 1 /\ pc'[r] = "stage"
        BY <1>2, <2>4 DEF RemoveFile, Advance, RemovalOrder
      <3>2. FilesOf(target[r]) \cap DOMAIN wt' = {}
        BY <2>1, <2>4, NoFiles DEF Nth
      <3> QED  BY <2>1, <3>1, <3>2 DEF Progress, Promised
    <2> QED  BY <2>2, <2>3, <2>4
  <1>3. CASE ReadBitmaps(r)
    BY <1>3 DEF ReadBitmaps, CanAddBit, Progress, request
  <1>6. CASE EmptyBm(r)
    BY <1>6 DEF EmptyBm, EmptyBitmap, With, Progress, request, local
  <1>7. CASE EmptyBmi(r)
    BY <1>7 DEF EmptyBmi, EmptyBitmap, With, Progress, request, local
  <1>4. CASE WriteBm(r)
    BY <1>4 DEF WriteBm, WriteBitmap, With, Progress, request, local
  <1>5. CASE WriteBmi(r)
    <2>1. /\ op'[r] = "vote" /\ target'[r] = target[r] /\ pc'[r] = "stage" /\ at'[r] = 1
          /\ op[r] = "vote"
      BY <1>5 DEF WriteBmi, Progress, request
    <2>2. /\ <<target[r], "bm">> \in DOMAIN wt' /\ r \in wt'[<<target[r], "bm">>]
          /\ <<target[r], "bmi">> \in DOMAIN wt' /\ r \in wt'[<<target[r], "bmi">>]
      BY <1>5 DEF WriteBmi, WriteBitmap, With, Progress
    <2>3. \A f \in {target[r]} \X {"bm", "bmi"} : f \in DOMAIN wt' /\ r \in wt'[f]
      BY <2>2
    <2> QED  BY <2>1, <2>3 DEF Progress, Promised, Bitmaps
  <1> QED  BY <1>1, <1>2, <1>3, <1>4, <1>5, <1>6, <1>7

\* One file more is staged, and no other.
LEMMA OneMoreStaged ==
  ASSUME Handlers, NEW r \in Requests, Progress(r), WriteIndex(r)
  PROVE  /\ \A f : f # FileAt(r, StagedKinds(op[r])) => Alike(index, index', f)
         /\ \A i \in 1..at[r] : Alike(wt, index', Nth(r, StagedKinds(op[r]), i))
  <1> DEFINE kinds == StagedKinds(op[r])
  <1>1. \A i \in 1..(at[r] - 1) : Alike(wt, index, Nth(r, kinds, i))
    BY DEF WriteIndex, Progress
  <1>2. held[r] = index
    BY DEF WriteIndex, Progress
  <1>3. ASSUME NEW f PROVE IF f = FileAt(r, kinds) THEN Alike(wt, index', f)
                                                  ELSE Alike(index, index', f)
    BY <1>2 DEF WriteIndex, With, Without, Alike
  <1>4. ASSUME NEW i \in 1..at[r] PROVE Alike(wt, index', Nth(r, kinds, i))
    <2>1. at[r] \in Nat  BY DEF Handlers
    <2>2. CASE Nth(r, kinds, i) = FileAt(r, kinds)
      BY <1>3, <2>2
    <2>3. CASE Nth(r, kinds, i) # FileAt(r, kinds)
      <3>1. i \in 1..(at[r] - 1)
        BY <2>1, <2>3 DEF FileAt, Nth
      <3>2. Alike(wt, index, Nth(r, kinds, i))  BY <1>1, <3>1
      <3>3. Alike(index, index', Nth(r, kinds, i))  BY <1>3, <2>3
      <3> QED  BY <3>2, <3>3 DEF Alike
    <2> QED  BY <2>2, <2>3
  <1> QED  BY <1>3, <1>4

\* The index, HEAD and what was read of them.
LEMMA ProgressCommits ==
  ASSUME Serial, NEW r \in Requests, Progress(r),
         ReadIndex(r) \/ WriteIndex(r) \/ BuildCommit(r) \/ MoveHead(r)
  PROVE  Progress(r)'
  <1> USE DEF Serial, Handlers, Goto, Before, Saving, Voting
  <1>0. /\ op[r] \in {"commit", "delete", "vote"} /\ op' = op /\ target' = target /\ wt' = wt
        /\ Promised(r, wt)
        /\ op[r] = "commit" => target[r] = r
    BY DEF Progress, ReadIndex, WriteIndex, BuildCommit, MoveHead, request, clone
  <1>1. CASE ReadIndex(r)
    BY <1>0, <1>1 DEF ReadIndex, Progress, Promised, Bitmaps, Alike, Nth, clone, request
  <1>2. CASE WriteIndex(r)
    <2> DEFINE kinds == StagedKinds(op[r])
    <2>1. \A i \in 1..at[r] : Alike(wt, index', Nth(r, kinds, i))
      BY <1>2, OneMoreStaged
    <2>2. Len(kinds) \in Nat
      BY <1>0 DEF StagedKinds
    <2>3. CASE at[r] < Len(kinds)
      <3>1. at'[r] = at[r] + 1 /\ pc'[r] = "stage"
        BY <1>2, <2>3 DEF WriteIndex
      <3> QED  BY <1>0, <2>1, <3>1 DEF Progress, Promised, Bitmaps, Alike, Nth
    <2>4. CASE ~(at[r] < Len(kinds))
      <3>1. at'[r] = 1 /\ pc'[r] = "commit"
        BY <1>2, <2>4 DEF WriteIndex
      <3>2. Promised(r, index')
        BY <1>0, <2>1, <2>2, <2>4, StagedIsPromised
      <3> QED  BY <1>0, <3>1, <3>2 DEF Progress, Promised, Bitmaps
    <2> QED  BY <2>3, <2>4
  <1>3. CASE BuildCommit(r)
    <2>1. CASE Answer(r, "failed")
      BY <1>0, <2>1 DEF Answer, Progress
    <2>2. CASE ~Answer(r, "failed")
      <3>1. pc'[r] = "move" /\ base'[r].tree = index /\ Promised(r, index)
        BY <1>3, <2>2 DEF BuildCommit, Progress
      <3> QED  BY <1>0, <3>1 DEF Progress, Promised, Bitmaps
    <2> QED  BY <2>1, <2>2
  <1>4. CASE MoveHead(r)
    <2>1. pc'[r] = "push" /\ head' = base[r] /\ Promised(r, base[r].tree)
      BY <1>4 DEF MoveHead, Progress
    <2> QED  BY <1>0, <2>1 DEF Progress, Promised, Bitmaps
  <1> QED  BY <1>1, <1>2, <1>3, <1>4

LEMMA ProgressStep ==
  ASSUME Serial, NEW r \in Requests, Progress(r), Step(r)
  PROVE  Progress(r)'
  <1> USE DEF Serial, Handlers, Goto, Before, Saving, Voting
  <1>1. CASE Proceed(r)
    <2>1. /\ pc'[r] \in AfterPull(r)
          /\ op'[r] = op[r] /\ target'[r] = target[r] /\ at'[r] = 1
          /\ op[r] = "commit" => target[r] = r
      BY <1>1 DEF Proceed, Progress, request, local
    <2>2. op[r] \in Ops  OBVIOUS
    <2>3. CASE op[r] = "query"  BY <2>1, <2>3 DEF AfterPull, Progress
    <2>4. CASE op[r] = "commit"  BY <2>1, <2>4 DEF AfterPull, Progress
    <2>5. CASE op[r] = "delete"  BY <2>1, <2>5 DEF AfterPull, Progress
    <2>6. CASE op[r] = "vote"  BY <2>1, <2>6 DEF AfterPull, Progress
    <2> QED  BY <2>2, <2>3, <2>4, <2>5, <2>6 DEF Ops
  <1>2. CASE \E label \in Ended : Answer(r, label)
    <2>1. op' = op /\ target' = target
      BY DEF Step, Fetch, FetchFails, Reset, ResetIndex, CheckOut, CheckedOut, Proceed, WriteFile,
         RemoveFile, ReadBitmaps, CanAddBit, AddBitPanics, EmptyBm, WriteBm, EmptyBmi, WriteBmi,
         ReadIndex, WriteIndex, CannotRemove, BuildCommit, MoveHead, Push, PushFails, PushUnheard,
         request
    <2> QED  BY <1>2, <2>1 DEF Answer, Progress, Ended
  <1>3. CASE Fetch(r) /\ ~\E label \in Ended : Answer(r, label)
    BY <1>3 DEF Fetch, Progress, Ended, request, local
  <1>4. CASE Reset(r) /\ ~\E label \in Ended : Answer(r, label)
    BY <1>4 DEF Reset, Progress, Ended, request
  <1>6. CASE ResetIndex(r) \/ CheckOut(r) \/ CheckedOut(r)
    BY <1>6 DEF ResetIndex, CheckOut, CheckedOut, Progress, request
  <1>5. CASE \/ FetchFails(r) \/ AddBitPanics(r) \/ CannotRemove(r)
             \/ Push(r) \/ PushFails(r) \/ PushUnheard(r)
    BY <1>2, <1>5 DEF FetchFails, AddBitPanics, CannotRemove, Push, PushFails, PushUnheard, Ended
  <1> QED
    BY <1>1, <1>3, <1>4, <1>2, <1>5, <1>6, ProgressWrites, ProgressCommits DEF Step

\* Where other requests are, nothing is asked of the files.
LEMMA ProgressElsewhere ==
  ASSUME Serial, NEW s \in Requests, s \notin InFlight, Progress(s),
         op'[s] = op[s], target'[s] = target[s], pc'[s] = pc[s], at'[s] = at[s]
  PROVE  Progress(s)'
  BY DEF Progress, InFlight, Handling, Before, Saving, Voting

LEMMA ProgressNext ==
  ASSUME Serial, \A r \in Requests : Progress(r), [Next]_vars
  PROVE  \A r \in Requests : Progress(r)'
  <1> USE DEF Serial
  <1>1. ASSUME NEW r \in Requests, Arrive(r) PROVE \A s \in Requests : Progress(s)'
    <2>1. PICK o \in Ops : \E q \in Targets(r, o) : /\ op' = [op EXCEPT ![r] = o]
                                                    /\ target' = [target EXCEPT ![r] = q]
      BY <1>1 DEF Arrive
    <2>2. op'[r] = "commit" => target'[r] = r
      BY <2>1 DEF Targets, Handlers
    <2>3. Progress(r)'
      BY <1>1, <2>2 DEF Arrive, Goto, Handlers, Progress, Before, Saving, Voting, local
    <2>4. ASSUME NEW s \in Requests, s # r PROVE Progress(s)'
      <3>1. op'[s] = op[s] /\ target'[s] = target[s] /\ pc'[s] = pc[s]
        BY <1>1, <2>1, <2>4 DEF Arrive, Goto, Handlers
      <3>2. UNCHANGED <<wt, index, head, at, held, base>>
        BY <1>1 DEF Arrive, clone, local
      <3> QED  BY <3>1, <3>2 DEF Progress, Promised, Bitmaps, Alike, Nth
    <2> QED  BY <2>3, <2>4
  <1>2. ASSUME NEW r \in Requests, Step(r) \/ Abort(r), NEW s \in Requests, s # r
        PROVE  Progress(s)'
    <2>1. r \in InFlight /\ pc'[s] = pc[s]
      BY <1>2, StepIsInFlight DEF Abort, Answer, Goto, InFlight, Handlers
    <2>2. s \notin InFlight  BY <1>2, <2>1 DEF Alone
    <2>3. op' = op /\ target' = target
      BY <1>2 DEF Step, Fetch, FetchFails, Reset, ResetIndex, CheckOut, CheckedOut, Proceed,
         WriteFile, RemoveFile, ReadBitmaps, CanAddBit, AddBitPanics, EmptyBm, WriteBm, EmptyBmi,
         WriteBmi, ReadIndex, WriteIndex, CannotRemove, BuildCommit, MoveHead, Push, PushFails,
         PushUnheard, Abort, request
    <2>4. at'[s] = at[s]
      BY <1>2 DEF Step, Fetch, FetchFails, Reset, ResetIndex, CheckOut, CheckedOut, Proceed,
         WriteFile, RemoveFile, ReadBitmaps, CanAddBit, AddBitPanics, EmptyBm, WriteBm, EmptyBmi,
         WriteBmi, ReadIndex, WriteIndex, CannotRemove, BuildCommit, MoveHead, Push, PushFails,
         PushUnheard, Abort, Answer, Advance, Handlers, local
    <2> QED  BY <2>1, <2>2, <2>3, <2>4, ProgressElsewhere
  <1>3. ASSUME NEW r \in Requests, Abort(r) PROVE Progress(r)'
    BY <1>3 DEF Abort, Answer, Goto, Handlers, Progress, Before, Saving, Voting, request
  <1>4. ASSUME NEW q \in Foreign, Publish(q), NEW s \in Requests PROVE Progress(s)'
    BY <1>4 DEF Publish, Progress, Promised, Bitmaps, Alike, Nth, clone, request, local
  <1>5. ASSUME UNCHANGED vars, NEW s \in Requests PROVE Progress(s)'
    BY <1>5 DEF vars, Progress, Promised, Bitmaps, Alike, Nth
  <1> QED  BY <1>1, <1>2, <1>3, <1>4, <1>5, ProgressStep DEF Next, AllAnswered

\* One request at a time, success means that the remote has what was asked
\* for, whatever handlers were cut off before and wherever.
THEOREM SuccessIsOnTheRemote ==
  ASSUME MaxInFlight = 1
  PROVE  Spec => SuccessIsPushed
  <1> DEFINE All == Types /\ Serial /\ \A r \in Requests : Progress(r)
             Kept(r) == pc[r] = "push" /\ pc'[r] = "succeeded" => Promised(r, remote'.tree)
  <1>1. Init => All
    <2>1. Init => \A r \in Requests : Progress(r)
      BY DEF Init, Progress, Before, Saving, Voting
    <2> QED  BY <2>1, SerialInit
  <1>2. All /\ [Next]_vars => All'
    BY SerialNext, ProgressNext
  <1>3. ASSUME All, [Next]_vars, NEW r \in Requests PROVE Kept(r)
    <2> SUFFICES ASSUME pc[r] = "push", pc'[r] = "succeeded" PROVE Promised(r, remote'.tree)
      OBVIOUS
    <2>1. Promised(r, head.tree)  BY <1>3 DEF Progress
    <2>2. Step(r)
      <3>1. ASSUME NEW s \in Requests, Step(s) PROVE s = r
        BY <1>3, <3>1, StepIsInFlight DEF Serial
      <3> QED
        BY <1>3, <3>1 DEF Next, Arrive, Abort, Answer, Goto, Publish, AllAnswered, vars,
           Serial, Handlers
    <2>3. Push(r)
      BY <1>3, <2>2 DEF Step, Fetch, FetchFails, Reset, ResetIndex, CheckOut, CheckedOut, Proceed,
         WriteFile, RemoveFile, ReadBitmaps, CanAddBit, AddBitPanics, EmptyBm, WriteBm, EmptyBmi,
         WriteBmi, ReadIndex, WriteIndex, CannotRemove, BuildCommit, MoveHead, Push, PushFails,
         PushUnheard, Answer, Goto, Serial, Handlers
    <2> QED  BY <2>1, <2>3 DEF Push
  <1>4. All /\ [Next]_vars => [\A r \in Requests : Kept(r)]_vars
    BY <1>3
  <1> HIDE DEF All
  <1> QED  BY <1>1, <1>2, <1>4, PTL DEF Spec, SuccessIsPushed

-----------------------------------------------------------------------------
(* What the clone looks like, when nobody was cut off.                     *)

Level == \A f : Alike(wt, index, f) /\ Alike(index, head.tree, f)

\* The files a request is about to change.
Touched(r) == IF op[r] = "vote" THEN Bitmaps(r) ELSE FilesOf(target[r])

Changing == {"write", "remove"} \cup Voting
Staging  == {"stage", "add"}
Busy     == Changing \cup Staging \cup
                {"reset", "resetindex", "checkout", "commit", "move"}

\* Elsewhere the working tree, the index and HEAD are as they were.
Orderly(r) ==
    /\ pc[r] \in {"reset", "resetindex"} => \A f : Alike(wt, index, f)
    /\ pc[r] = "resetindex" => held[r] = index
    /\ pc[r] = "checkout" =>
          \A f : Alike(index, head.tree, f) /\ (f \notin DOMAIN held[r] => Alike(wt, index, f))
    /\ pc[r] \in Changing =>
          \A f : Alike(index, head.tree, f) /\ (f \notin Touched(r) => Alike(wt, index, f))
    /\ pc[r] = "remove" =>
          /\ FilesOf(target[r]) \subseteq DOMAIN index
          /\ removed[r] \/ (at[r] = 1 /\ <<target[r], "sj">> \in DOMAIN wt)
    /\ pc[r] \in {"addbit"} \cup Voting => FilesOf(target[r]) \subseteq DOMAIN wt
    /\ pc[r] \in Staging =>
          /\ IsWhole(wt) /\ at[r] <= Len(StagedKinds(op[r]))
          /\ \A f : f \notin Touched(r) => Alike(wt, index, f)
          /\ op[r] = "delete" =>
                \A i \in at[r]..4 : Nth(r, RemovalOrder, i) \in DOMAIN index
    /\ pc[r] = "commit" => IsWhole(wt) /\ \A f : Alike(wt, index, f)
    /\ pc[r] = "move" =>
          /\ IsWhole(base[r].tree)
          /\ \A f : Alike(wt, index, f) /\ Alike(index, base[r].tree, f)

Sound(r) ==
    /\ IsWhole(head.tree) /\ IsWhole(remote.tree)
    /\ Orderly(r)
    /\ pc[r] \notin Busy => Level

LEMMA WholeAlike ==
  ASSUME NEW t, NEW u, IsWhole(t), \A f : Alike(t, u, f)
  PROVE  IsWhole(u)
  BY DEF IsWhole, Alike

\* A tree that differs from a whole one in one record, which it has or lacks.
LEMMA WholeBut ==
  ASSUME NEW t, NEW u, NEW q \in Records, IsWhole(t),
         \A f : f \notin FilesOf(q) => Alike(u, t, f),
         FilesOf(q) \subseteq DOMAIN u \/ FilesOf(q) \cap DOMAIN u = {}
  PROVE  IsWhole(u)
  <1> SUFFICES ASSUME NEW p \in Records, p # q
               PROVE  FilesOf(p) \subseteq DOMAIN u \/ FilesOf(p) \cap DOMAIN u = {}
    BY DEF IsWhole
  <1>1. \A f \in FilesOf(p) : f \notin FilesOf(q)  BY DEF FilesOf
  <1>2. \A f \in FilesOf(p) : f \in DOMAIN u <=> f \in DOMAIN t  BY <1>1 DEF Alike
  <1> QED  BY <1>2 DEF IsWhole

\* The pull.
LEMMA SoundPull ==
  ASSUME Serial, NEW r \in Requests, Progress(r), Sound(r),
         \/ Fetch(r) \/ FetchFails(r)
         \/ Reset(r) \/ ResetIndex(r) \/ CheckOut(r) \/ CheckedOut(r)
  PROVE  Sound(r)'
  <1> USE DEF Serial, Handlers, Goto, Busy, Changing, Staging, Voting, Answer
  <1>1. CASE Fetch(r)
    BY <1>1 DEF Fetch, Sound, Orderly, Level, local
  <1>2. CASE FetchFails(r)
    BY <1>2 DEF FetchFails, Sound, Orderly, Level, clone
  <1>0. ASSUME pc[r] \in {"reset", "resetindex", "checkout"}, UNCHANGED remote,
               head' = head \/ head' = base[r]
        PROVE  base[r] = head /\ head' = head /\ IsWhole(head.tree)' /\ IsWhole(remote.tree)'
    BY <1>0 DEF Based, Sound, IsWhole
  <1>3. CASE Reset(r)
    <2>1. \A f : Alike(wt, index, f)
      BY <1>3 DEF Reset, Sound, Orderly
    <2>2. ~Unstaged
      BY <2>1 DEF Unstaged, Alike
    <2>3. /\ pc'[r] = "resetindex" /\ held'[r] = index /\ UNCHANGED <<wt, index>>
          /\ IsWhole(head.tree)' /\ IsWhole(remote.tree)'
      BY <1>0, <1>3, <2>2 DEF Reset
    <2> QED  BY <2>1, <2>3 DEF Sound, Orderly
  <1>4. CASE ResetIndex(r)
    <2> DEFINE files == Changed(held[r], head.tree) \cap Changed(wt, head.tree)
    <2>1. /\ held[r] = index /\ base[r] = head /\ \A f : Alike(wt, index, f)
          /\ IsWhole(head.tree)' /\ IsWhole(remote.tree)' /\ UNCHANGED <<wt, head>>
          /\ index' = head.tree
      BY <1>0, <1>4 DEF ResetIndex, Sound, Orderly
    <2>2. \A f : Alike(index', head.tree, f)
      BY <2>1 DEF Alike
    <2>3. \A f : f \notin files => Alike(wt, head.tree, f)
      BY <2>1 DEF Changed, Alike
    <2>4. CASE Changed(held[r], head.tree) = {}
      <3>1. pc'[r] = "pulled"  BY <1>4, <2>1, <2>4 DEF ResetIndex
      <3> QED  BY <2>1, <2>2, <2>3, <2>4, <3>1 DEF Sound, Orderly, Level
    <2>5. CASE Changed(held[r], head.tree) # {}
      <3>1. pc'[r] = "checkout" /\ DOMAIN held'[r] = files
        BY <1>4, <2>1, <2>5 DEF ResetIndex
      <3>2. \A f : f \notin DOMAIN held'[r] => Alike(wt', index', f)
        BY <2>1, <2>3, <3>1
      <3>3. \A f : Alike(index', head'.tree, f)
        BY <2>1, <2>2
      <3> HIDE DEF files
      <3> QED  BY <2>1, <3>1, <3>2, <3>3 DEF Sound, Orderly
    <2> QED  BY <2>4, <2>5
  <1>5. CASE CheckOut(r)
    <2>1. /\ base[r] = head /\ IsWhole(head.tree)' /\ IsWhole(remote.tree)'
          /\ pc'[r] = "checkout" /\ pc[r] = "checkout" /\ UNCHANGED <<index, head>>
          /\ \A f : Alike(index, head.tree, f) /\ (f \notin DOMAIN held[r] => Alike(wt, index, f))
      BY <1>0, <1>5 DEF CheckOut, Sound, Orderly
    <2>2. ASSUME NEW f, f \notin DOMAIN held'[r] PROVE Alike(wt', index, f)
      <3>1. PICK g \in DOMAIN held[r] :
              \/ /\ g \in DOMAIN wt
                 /\ wt' = Without(wt, {g})
                 /\ held' = IF g \in DOMAIN head.tree THEN held
                            ELSE [held EXCEPT ![r] = Without(@, {g})]
              \/ /\ g \notin DOMAIN wt
                 /\ wt' = Over(Only(head.tree, {g}), wt)
                 /\ held' = [held EXCEPT ![r] = Without(@, {g})]
        BY <1>5, <2>1 DEF CheckOut
      <3>2. CASE f = g
        <4>1. held'[r] # held[r]  BY <2>2, <3>1, <3>2
        <4>2. CASE wt' = Without(wt, {g}) /\ g \notin DOMAIN head.tree
          BY <2>1, <3>2, <4>2 DEF Without, Alike
        <4>3. CASE wt' = Over(Only(head.tree, {g}), wt) /\ g \notin DOMAIN wt
          BY <2>1, <3>2, <4>3 DEF Over, Only, Alike
        <4> QED  BY <3>1, <4>1, <4>2, <4>3
      <3>3. CASE f # g
        <4>1. f \notin DOMAIN held[r]  BY <2>2, <3>1, <3>3 DEF Without
        <4>2. Alike(wt, index, f)  BY <2>1, <4>1
        <4> QED  BY <3>1, <3>3, <4>2 DEF Without, Over, Only, Alike
      <3> QED  BY <3>2, <3>3
    <2> QED  BY <2>1, <2>2 DEF Sound, Orderly
  <1>6. CASE CheckedOut(r)
    <2>1. /\ base[r] = head /\ IsWhole(head.tree)' /\ IsWhole(remote.tree)'
          /\ pc'[r] = "pulled" /\ UNCHANGED <<wt, head>> /\ index' = head.tree
          /\ \A f : Alike(index, head.tree, f) /\ Alike(wt, index, f)
      BY <1>0, <1>6 DEF CheckedOut, Sound, Orderly
    <2>2. Level'  BY <2>1 DEF Level, Alike
    <2> QED  BY <2>1, <2>2 DEF Sound, Orderly
  <1> QED  BY <1>1, <1>2, <1>3, <1>4, <1>5, <1>6

LEMMA SoundProceed ==
  ASSUME Serial, NEW r \in Requests, Progress(r), Sound(r), Proceed(r)
  PROVE  Sound(r)'
  <1> USE DEF Serial, Handlers, Goto, Busy, Changing, Staging, Voting
  <1>1. /\ pc'[r] \in AfterPull(r) /\ op[r] \in Ops /\ at[r] = 1 /\ target[r] \in Records
        /\ UNCHANGED <<wt, index, head, remote, op, target, at, removed>>
        /\ IsWhole(head.tree) /\ IsWhole(remote.tree) /\ Level /\ Level'
    BY DEF Proceed, Progress, Before, Sound, Level, clone, request, local
  <1>2. ASSUME NEW kind \in Kinds, <<target[r], kind>> \in DOMAIN wt
        PROVE  /\ FilesOf(target[r]) \subseteq DOMAIN wt
               /\ FilesOf(target[r]) \subseteq DOMAIN index
    <2>1. <<target[r], kind>> \in FilesOf(target[r]) \cap DOMAIN head.tree
      BY <1>1, <1>2 DEF Level, Alike, FilesOf
    <2>2. FilesOf(target[r]) \subseteq DOMAIN head.tree
      BY <1>1, <2>1 DEF IsWhole
    <2> QED  BY <1>1, <2>2 DEF Level, Alike
  <1>3. CASE op[r] = "query"
    BY <1>1, <1>3 DEF AfterPull, Sound, Orderly
  <1>4. CASE op[r] = "commit"
    BY <1>1, <1>4 DEF AfterPull, Sound, Orderly, Level
  <1>5. CASE op[r] = "delete"
    <2>1. CASE pc'[r] = "remove"
      <3>1. <<target[r], "dt">> \in DOMAIN wt
        BY <1>1, <1>5, <2>1 DEF AfterPull
      <3>2. FilesOf(target[r]) \subseteq DOMAIN wt /\ FilesOf(target[r]) \subseteq DOMAIN index
        BY <1>2, <3>1 DEF Kinds
      <3>3. <<target[r], "sj">> \in DOMAIN wt  BY <3>2 DEF FilesOf, Kinds
      <3> QED  BY <1>1, <2>1, <3>2, <3>3 DEF Sound, Orderly, Level
    <2>2. CASE pc'[r] = "failed"
      BY <1>1, <2>2 DEF Sound, Orderly
    <2> QED  BY <1>1, <1>5, <2>1, <2>2 DEF AfterPull
  <1>6. CASE op[r] = "vote"
    <2>1. CASE pc'[r] = "addbit"
      <3>1. <<target[r], "bm">> \in DOMAIN wt
        BY <1>1, <1>6, <2>1 DEF AfterPull
      <3>2. FilesOf(target[r]) \subseteq DOMAIN wt  BY <1>2, <3>1 DEF Kinds
      <3> QED  BY <1>1, <2>1, <3>2 DEF Sound, Orderly
    <2>2. CASE pc'[r] = "failed"
      BY <1>1, <2>2 DEF Sound, Orderly
    <2> QED  BY <1>1, <1>6, <2>1, <2>2 DEF AfterPull
  <1> QED  BY <1>1, <1>3, <1>4, <1>5, <1>6 DEF Ops

\* The files of a request, in the working tree.
LEMMA SoundWrites ==
  ASSUME Serial, NEW r \in Requests, Progress(r), Sound(r),
         \/ WriteFile(r) \/ RemoveFile(r) \/ ReadBitmaps(r) \/ AddBitPanics(r)
         \/ EmptyBm(r) \/ WriteBm(r) \/ EmptyBmi(r) \/ WriteBmi(r)
  PROVE  Sound(r)'
  <1> USE DEF Serial, Handlers, Goto, Busy, Changing, Staging, Voting
  <1>0. /\ UNCHANGED <<index, head, remote, op, target>>
        /\ IsWhole(head.tree) /\ IsWhole(remote.tree) /\ target[r] \in Records
        /\ \A f : Alike(index, head.tree, f)
        /\ \A f : f \notin Touched(r) => Alike(wt, index, f)
    BY DEF WriteFile, RemoveFile, ReadBitmaps, CanAddBit, AddBitPanics, EmptyBm, WriteBm,
       EmptyBmi, WriteBmi, Sound, Orderly, Level, clone, request
  <1>1. Touched(r) \subseteq FilesOf(target[r]) /\ Touched(r)' = Touched(r)
    BY <1>0 DEF Touched, Bitmaps, FilesOf, Kinds
  <1>2. WriteFile(r) \/ RemoveFile(r) => Progress(r)'  BY ProgressWrites
  <1>3. ASSUME \A f : f \notin Touched(r) => Alike(wt', index, f),
               \/ FilesOf(target[r]) \subseteq DOMAIN wt'
               \/ FilesOf(target[r]) \cap DOMAIN wt' = {}
        PROVE  IsWhole(wt)'
    <2>1. \A f : f \notin FilesOf(target[r]) => Alike(wt', head.tree, f)
      BY <1>0, <1>1, <1>3 DEF Alike
    <2>2. IsWhole(wt')  BY <1>0, <1>3, <2>1, WholeBut
    <2> QED  BY <2>2 DEF IsWhole
  <1>10. ASSUME pc'[r] = "stage" PROVE at'[r] = 1 /\ at'[r] <= Len(StagedKinds(op[r])')
    <2>1. at'[r] = 1
      BY <1>10 DEF WriteFile, RemoveFile, ReadBitmaps, AddBitPanics, EmptyBm, WriteBm, EmptyBmi,
         WriteBmi, Advance, Answer, Progress, Before
    <2> QED  BY <1>0, <2>1 DEF StagedKinds
  <1>4. CASE WriteFile(r)
    <2>1. op[r] = "commit" /\ pc'[r] \in {"write", "stage"}
      BY <1>4 DEF Progress, WriteFile, Advance
    <2>2. FileAt(r, WriteOrder) \in Touched(r)
      BY <1>4, <2>1 DEF Touched, FilesOf, FileAt, WriteOrder, Kinds
    <2>3. \A f : f \notin Touched(r) => Alike(wt', index, f)
      BY <1>0, <1>4, <2>2 DEF WriteFile, With, Alike
    <2>4. CASE pc'[r] = "write"
      BY <1>0, <1>1, <2>3, <2>4 DEF Sound, Orderly, Alike
    <2>5. CASE pc'[r] = "stage"
      <3>1. FilesOf(target[r]) \subseteq DOMAIN wt'
        BY <1>0, <1>2, <1>4, <2>1, <2>5 DEF Progress, Saving, Promised
      <3>2. IsWhole(wt)'  BY <1>3, <2>3, <3>1
      <3> QED  BY <1>0, <1>1, <1>10, <2>1, <2>3, <2>5, <3>2 DEF Sound, Orderly, Alike
    <2> QED  BY <2>1, <2>4, <2>5
  <1>5. CASE RemoveFile(r)
    <2> DEFINE f0 == FileAt(r, RemovalOrder)
    <2>1. /\ op[r] = "delete" /\ FilesOf(target[r]) \subseteq DOMAIN index
          /\ removed[r] \/ (at[r] = 1 /\ <<target[r], "sj">> \in DOMAIN wt)
      BY <1>5 DEF Progress, RemoveFile, Sound, Orderly
    <2>2. f0 \in Touched(r)
      BY <1>5, <2>1 DEF Touched, FilesOf, FileAt, RemovalOrder, Kinds
    <2>3. \A f : f \notin Touched(r) => Alike(wt', index, f)
      BY <1>0, <1>5, <2>2 DEF RemoveFile, Without, Alike
    <2>4. removed[r] \/ f0 \in DOMAIN wt
      BY <2>1 DEF FileAt, RemovalOrder
    <2>5. /\ removed' = [removed EXCEPT ![r] = removed[r] \/ f0 \in DOMAIN wt]
          /\ Advance(r, RemovalOrder, "stage")
      BY <1>5, <2>4 DEF RemoveFile
    <2>6. removed'[r]
      <3>1. removed'[r] = (removed[r] \/ f0 \in DOMAIN wt)  BY <2>5
      <3> QED  BY <2>4, <3>1
    <2>7. pc[r] = "remove" /\ pc'[r] \in {"remove", "stage"}
      BY <1>5, <2>5 DEF RemoveFile, Advance
    <2>8. CASE pc'[r] = "remove"
      BY <1>0, <1>1, <2>1, <2>3, <2>6, <2>8 DEF Sound, Orderly, Alike
    <2>9. CASE pc'[r] = "stage"
      <3>1. FilesOf(target[r]) \cap DOMAIN wt' = {}
        BY <1>0, <1>2, <1>5, <2>1, <2>9 DEF Progress, Saving, Promised
      <3>2. IsWhole(wt)'  BY <1>3, <2>3, <3>1
      <3>3. \A i \in 1..4 : Nth(r, RemovalOrder, i)' \in DOMAIN index'
        BY <1>0, <2>1 DEF Nth, FilesOf, RemovalOrder, Kinds
      <3> QED  BY <1>0, <1>1, <1>10, <2>3, <2>9, <3>2, <3>3 DEF Sound, Orderly, Alike
    <2> QED  BY <2>7, <2>8, <2>9
  <1>6. CASE ReadBitmaps(r)
    <2>1. pc[r] = "addbit" /\ pc'[r] = "emptybm" /\ wt' = wt
      BY <1>6 DEF ReadBitmaps, CanAddBit, clone
    <2>2. Level /\ FilesOf(target[r]) \subseteq DOMAIN wt
      BY <2>1 DEF Sound, Orderly
    <2> QED  BY <1>0, <1>1, <2>1, <2>2 DEF Sound, Orderly, Level, Alike
  <1>11. CASE AddBitPanics(r)
    <2>1. pc[r] = "addbit" /\ pc'[r] = "failed" /\ wt' = wt
      BY <1>11 DEF AddBitPanics, Answer, clone
    <2> QED  BY <1>0, <2>1 DEF Sound, Orderly, Level
  <1>7. ASSUME NEW kind \in {"bm", "bmi"}, op[r] = "vote",
               EmptyBitmap(r, kind) \/ WriteBitmap(r, kind),
               FilesOf(target[r]) \subseteq DOMAIN wt
        PROVE  /\ FilesOf(target[r]) \subseteq DOMAIN wt'
               /\ \A f : f \notin Touched(r) => Alike(wt', index, f)
    <2>1. <<target[r], kind>> \in Touched(r)
      BY <1>7 DEF Touched, Bitmaps
    <2> QED  BY <1>0, <1>7, <2>1 DEF EmptyBitmap, WriteBitmap, With, Alike
  <1>8. CASE EmptyBm(r) \/ WriteBm(r) \/ EmptyBmi(r)
    <2>1. /\ op[r] = "vote" /\ FilesOf(target[r]) \subseteq DOMAIN wt
          /\ pc'[r] \in {"writebm", "emptybmi", "writebmi"}
      BY <1>8 DEF EmptyBm, WriteBm, EmptyBmi, Progress, Sound, Orderly
    <2>2. /\ FilesOf(target[r]) \subseteq DOMAIN wt'
          /\ \A f : f \notin Touched(r) => Alike(wt', index, f)
      BY <1>7, <1>8, <2>1 DEF EmptyBm, WriteBm, EmptyBmi
    <2> QED  BY <1>0, <1>1, <2>1, <2>2 DEF Sound, Orderly, Alike
  <1>9. CASE WriteBmi(r)
    <2>1. op[r] = "vote" /\ FilesOf(target[r]) \subseteq DOMAIN wt /\ pc'[r] = "stage"
      BY <1>9 DEF WriteBmi, Progress, Sound, Orderly
    <2>2. /\ FilesOf(target[r]) \subseteq DOMAIN wt'
          /\ \A f : f \notin Touched(r) => Alike(wt', index, f)
      BY <1>7, <1>9, <2>1 DEF WriteBmi
    <2>3. IsWhole(wt)'  BY <1>3, <2>2
    <2> QED  BY <1>0, <1>1, <1>10, <2>1, <2>2, <2>3 DEF Sound, Orderly, Alike
  <1> QED  BY <1>4, <1>5, <1>6, <1>8, <1>9, <1>11

\* The index, HEAD and what was read of them.
LEMMA SoundCommits ==
  ASSUME Serial, NEW r \in Requests, Progress(r), Sound(r),
         ReadIndex(r) \/ WriteIndex(r) \/ CannotRemove(r) \/ BuildCommit(r) \/ MoveHead(r)
  PROVE  Sound(r)'
  <1> USE DEF Serial, Handlers, Goto, Busy, Changing, Staging, Voting
  <1>0. /\ UNCHANGED <<wt, remote, op, target>>
        /\ IsWhole(head.tree) /\ IsWhole(remote.tree)
        /\ op[r] \in {"commit", "delete", "vote"} /\ Promised(r, wt)
        /\ op[r] = "commit" => target[r] = r
        /\ Touched(r)' = Touched(r) /\ IsWhole(wt)' <=> IsWhole(wt)
    BY DEF ReadIndex, WriteIndex, CannotRemove, BuildCommit, MoveHead, Sound, Progress, Saving,
       Touched, Bitmaps, IsWhole, clone, request
  <1>1. CASE ReadIndex(r)
    BY <1>0, <1>1 DEF ReadIndex, Sound, Orderly, Nth, clone
  <1>2. ASSUME pc[r] = "add"
        PROVE  /\ IsWhole(wt) /\ at[r] <= Len(StagedKinds(op[r]))
               /\ \A f : f \notin Touched(r) => Alike(wt, index, f)
               /\ op[r] = "delete" =>
                     \A i \in at[r]..4 : Nth(r, RemovalOrder, i) \in DOMAIN index
    BY <1>2 DEF Sound, Orderly
  <1>3. CASE WriteIndex(r)
    <2> DEFINE kinds == StagedKinds(op[r])
    <2>1. /\ pc[r] = "add" /\ head' = head /\ pc'[r] \in {"stage", "commit"}
      BY <1>3 DEF WriteIndex
    <2>2. \A f \in Touched(r) : \E i \in 1..Len(kinds) : f = Nth(r, kinds, i)
      <3>1. CASE op[r] = "vote"
        <4>1. kinds = <<"bm", "bmi">>  BY <3>1 DEF StagedKinds
        <4>2. Nth(r, kinds, 1) = <<target[r], "bm">> /\ Nth(r, kinds, 2) = <<target[r], "bmi">>
              /\ Len(kinds) = 2
          BY <4>1 DEF Nth
        <4> QED  BY <3>1, <4>2 DEF Touched, Bitmaps
      <3>2. CASE op[r] # "vote"
        <4>1. kinds = <<"sj", "bm", "bmi", "dt">>  BY <3>2 DEF StagedKinds
        <4>2. /\ Nth(r, kinds, 1) = <<target[r], "sj">> /\ Nth(r, kinds, 2) = <<target[r], "bm">>
              /\ Nth(r, kinds, 3) = <<target[r], "bmi">> /\ Nth(r, kinds, 4) = <<target[r], "dt">>
              /\ Len(kinds) = 4
          BY <4>1 DEF Nth
        <4> QED  BY <3>2, <4>2 DEF Touched, FilesOf, Kinds
      <3> QED  BY <3>1, <3>2
    <2>3. Len(kinds) \in Nat /\ at[r] \in 1..Len(kinds)
      BY <1>0, <1>2, <2>1 DEF StagedKinds
    <2>4. FileAt(r, kinds) \in Touched(r)
      BY <1>0, <2>3 DEF FileAt, StagedKinds, Touched, Bitmaps, FilesOf, Kinds
    <2>5. /\ \A f : f # FileAt(r, kinds) => Alike(index, index', f)
          /\ \A i \in 1..at[r] : Alike(wt, index', Nth(r, kinds, i))
      BY <1>3, OneMoreStaged
    <2>6. \A f : f \notin Touched(r) => Alike(wt, index', f)
      <3> SUFFICES ASSUME NEW f, f \notin Touched(r) PROVE Alike(wt, index', f)
        OBVIOUS
      <3>1. Alike(wt, index, f) /\ Alike(index, index', f)
        BY <1>2, <2>1, <2>4, <2>5
      <3> QED  BY <3>1 DEF Alike
    <2>7. CASE at[r] < Len(kinds)
      <3>1. pc'[r] = "stage" /\ at'[r] = at[r] + 1
        BY <1>3, <2>7 DEF WriteIndex
      <3>2. ASSUME op[r] = "delete", NEW i \in (at[r] + 1)..4
            PROVE  Nth(r, RemovalOrder, i) \in DOMAIN index'
        <4>1. Nth(r, RemovalOrder, i) \in DOMAIN index
          BY <1>2, <2>1, <2>3, <3>2
        <4>2. kinds = RemovalOrder  BY <3>2 DEF StagedKinds, RemovalOrder
        <4>3. Nth(r, RemovalOrder, i) # FileAt(r, kinds)
          BY <2>3, <3>2, <4>2 DEF Nth, FileAt, RemovalOrder
        <4> QED  BY <2>5, <4>1, <4>3 DEF Alike
      <3>3. at'[r] <= Len(StagedKinds(op[r])')
        BY <1>0, <2>3, <2>7, <3>1
      <3> QED  BY <1>0, <1>2, <2>1, <2>6, <3>1, <3>2, <3>3 DEF Sound, Orderly, Nth, Alike
    <2>8. CASE ~(at[r] < Len(kinds))
      <3>1. pc'[r] = "commit"  BY <1>3, <2>8 DEF WriteIndex
      <3>2. \A f : Alike(wt, index', f)  BY <2>2, <2>3, <2>5, <2>6, <2>8
      <3> QED  BY <1>0, <1>2, <2>1, <3>1, <3>2 DEF Sound, Orderly, Alike
    <2> QED  BY <2>7, <2>8
  <1>4. ~CannotRemove(r)
    <2> DEFINE f0 == FileAt(r, StagedKinds(op[r]))
    <2> SUFFICES ASSUME pc[r] = "add" PROVE f0 \in DOMAIN wt \cup DOMAIN held[r]
      BY DEF CannotRemove
    <2>1. held[r] = index  BY DEF Progress
    <2>2. CASE op[r] = "delete"
      <3>1. f0 = Nth(r, RemovalOrder, at[r])
        BY <2>2 DEF FileAt, Nth, StagedKinds, RemovalOrder
      <3> QED  BY <1>2, <2>1, <2>2, <3>1
    <2>3. CASE op[r] = "commit"
      <3>1. f0 \in FilesOf(r)
        BY <1>0, <2>3 DEF FileAt, StagedKinds, FilesOf, Kinds
      <3> QED  BY <1>0, <2>3, <3>1 DEF Promised
    <2>4. CASE op[r] = "vote"
      <3>1. f0 \in Bitmaps(r)
        BY <1>2, <2>4 DEF FileAt, StagedKinds, Bitmaps
      <3> QED  BY <1>0, <2>4, <3>1 DEF Promised
    <2> QED  BY <1>0, <2>2, <2>3, <2>4
  <1>5. CASE BuildCommit(r)
    <2>1. \A f : Alike(wt, index, f) /\ IsWhole(wt)
      BY <1>5 DEF BuildCommit, Sound, Orderly
    <2>2. IsWhole(index)  BY <2>1, WholeAlike
    <2>3. \A f : Alike(index, index, f)  BY DEF Alike
    <2>4. CASE index = head.tree
      <3>1. pc'[r] = "failed" /\ UNCHANGED <<wt, index, head, remote>>
        BY <1>5, <2>4 DEF BuildCommit, Answer, clone
      <3>2. Level'  BY <2>1, <2>3, <2>4, <3>1 DEF Level
      <3> QED  BY <1>0, <3>1, <3>2 DEF Sound, Orderly
    <2>5. CASE index # head.tree
      <3>1. pc'[r] = "move" /\ base'[r].tree = index /\ UNCHANGED <<index, head, remote>>
        BY <1>5, <2>5 DEF BuildCommit, clone
      <3>2. /\ IsWhole(base[r].tree)' /\ IsWhole(head.tree)' /\ IsWhole(remote.tree)'
            /\ \A f : Alike(wt, index, f)' /\ Alike(index, base[r].tree, f)'
        BY <1>0, <2>1, <2>2, <2>3, <3>1 DEF IsWhole
      <3> QED  BY <3>1, <3>2 DEF Sound, Orderly
    <2> QED  BY <2>4, <2>5
  <1>6. CASE MoveHead(r)
    <2>1. /\ IsWhole(base[r].tree)
          /\ \A f : Alike(wt, index, f) /\ Alike(index, base[r].tree, f)
      BY <1>6 DEF MoveHead, Sound, Orderly
    <2>2. pc'[r] = "push" /\ head' = base[r] /\ UNCHANGED <<wt, index, remote>>
      BY <1>6 DEF MoveHead
    <2> QED  BY <1>0, <2>1, <2>2 DEF Sound, Orderly, Level, IsWhole
  <1> QED  BY <1>1, <1>3, <1>4, <1>5, <1>6

\* The push, and what it leaves in HEAD when it fails.
LEMMA SoundPush ==
  ASSUME Serial, NEW r \in Requests, Sound(r),
         Push(r) \/ PushFails(r) \/ PushUnheard(r)
  PROVE  Sound(r)'
  <1>1. Level /\ IsWhole(head.tree) /\ IsWhole(remote.tree)
    BY DEF Push, PushFails, PushUnheard, Sound, Busy, Changing, Staging, Voting
  <1>2. /\ UNCHANGED <<wt, index, head>> /\ remote' \in {head, remote}
        /\ pc'[r] \in {"succeeded", "failed"}
    BY DEF Push, PushFails, PushUnheard, Answer, Goto, Serial, Handlers, clone
  <1> QED  BY <1>1, <1>2 DEF Sound, Orderly, Level, Busy, Changing, Staging, Voting

LEMMA SoundStep ==
  ASSUME Serial, NEW r \in Requests, Progress(r), Sound(r), Step(r)
  PROVE  Sound(r)'
  BY SoundPull, SoundProceed, SoundWrites, SoundCommits, SoundPush DEF Step

\* Until a handler is cut off, HEAD and the remote have whole records only,
\* and the working tree and the index agree with HEAD unless a handler is
\* about to change them.
Tidy ==
    NobodyCut =>
        /\ IsWhole(head.tree) /\ IsWhole(remote.tree)
        /\ \A r \in Requests : Orderly(r)
        /\ (\A r \in Requests : pc[r] \notin Busy) => Level

\* What was fetched is in HEAD.
Pulling == {"reset", "resetindex", "checkout", "pulled"}
Current == \A r \in Requests : pc[r] \in Pulling => seen \subseteq head.log

LEMMA OrderlyElsewhere ==
  ASSUME NEW s \in Requests, pc[s] \notin Handling
  PROVE  Orderly(s) /\ pc[s] \notin Busy
  BY DEF Orderly, Handling, Busy, Changing, Staging, Voting

\* The handler in flight is the one that may be busy.
LEMMA SoundInFlight ==
  ASSUME Alone, Tidy, NobodyCut, NEW r \in InFlight
  PROVE  Sound(r)
  <1>1. r \in Requests  BY DEF InFlight
  <1>2. ASSUME NEW s \in Requests, s # r PROVE pc[s] \notin Busy
    <2>1. pc[s] \notin Handling  BY <1>2 DEF Alone, InFlight
    <2> QED  BY <2>1, OrderlyElsewhere
  <1> QED  BY <1>1, <1>2 DEF Tidy, Sound

LEMMA TidyNext ==
  ASSUME Serial, Alone', \A r \in Requests : Progress(r), Tidy, [Next]_vars
  PROVE  Tidy'
  <1> SUFFICES ASSUME NobodyCut' PROVE Tidy'
    BY DEF Tidy
  <1> DEFINE Whole == IsWhole(head.tree) /\ IsWhole(remote.tree)
  <1>1. ASSUME NEW r \in Requests, Arrive(r) PROVE Tidy'
    <2>1. /\ UNCHANGED <<wt, index, head, remote>> /\ pc[r] = "new"
          /\ pc' = [pc EXCEPT ![r] = "pull"]
      BY <1>1 DEF Arrive, Goto, clone
    <2>2. NobodyCut /\ r \in InFlight'
      BY <2>1 DEF NobodyCut, Serial, Handlers, InFlight, Handling
    <2>3. ASSUME NEW s \in Requests, s # r PROVE pc'[s] \notin Handling /\ pc'[s] = pc[s]
      BY <2>1, <2>2, <2>3 DEF Alone, InFlight, Serial, Handlers
    <2>4. \A s \in Requests : pc[s] \notin Handling
      BY <2>1, <2>3 DEF Handling
    <2>5. Whole /\ Level
      BY <2>2, <2>4, OrderlyElsewhere DEF Tidy
    <2>6. Whole' /\ Level'
      BY <2>1, <2>5 DEF IsWhole, Level
    <2>7. \A s \in Requests : Orderly(s)'
      BY <2>1, <2>3 DEF Orderly, Handling, Busy, Changing, Staging, Voting, Serial, Handlers
    <2> QED  BY <2>6, <2>7 DEF Tidy
  <1>2. ASSUME NEW r \in Requests, Step(r) PROVE Tidy'
    <2>1. r \in InFlight /\ \A s \in Requests \ {r} : pc'[s] = pc[s]
      BY <1>2, StepIsInFlight DEF Serial
    <2>2. \A s \in Requests \ {r} : pc'[s] \notin Handling
      BY <2>1 DEF Serial, Alone, InFlight
    <2>3. NobodyCut
      BY <2>1 DEF NobodyCut, InFlight, Handling
    <2>4. Sound(r)'
      BY <1>2, <2>1, <2>3, SoundInFlight, SoundStep DEF Serial
    <2>5. \A s \in Requests : Orderly(s)'
      BY <2>2, <2>4 DEF Sound, Orderly, Handling, Busy, Changing, Staging, Voting
    <2> QED  BY <2>4, <2>5 DEF Sound, Tidy
  <1>3. ASSUME NEW r \in Requests, Abort(r) PROVE FALSE
    BY <1>3 DEF Abort, Answer, Goto, NobodyCut, Serial, Handlers
  <1>4. ASSUME NEW q \in Foreign, Publish(q) PROVE Tidy'
    <2>1. /\ UNCHANGED <<clone, request, pc, local>>
          /\ remote'.tree = Over(remote.tree, [f \in FilesOf(q) |-> {}])
          /\ q \in Records /\ NobodyCut
      BY <1>4 DEF Publish, Records, NobodyCut
    <2>2. IsWhole(remote.tree)  BY <2>1 DEF Tidy
    <2>3. FilesOf(q) \subseteq DOMAIN remote'.tree
      BY <2>1 DEF Over
    <2>4. \A f : f \notin FilesOf(q) => Alike(remote'.tree, remote.tree, f)
      BY <2>1 DEF Over, Alike
    <2>5. IsWhole(remote'.tree)
      BY <2>1, <2>2, <2>3, <2>4, WholeBut
    <2>6. IsWhole(head.tree)' /\ IsWhole(remote.tree)'
      BY <2>1, <2>5 DEF Tidy, IsWhole, clone
    <2>7. \A s \in Requests : Orderly(s)'
      BY <2>1 DEF Tidy, Orderly, Touched, Bitmaps, Nth, IsWhole, Alike, clone, request, local
    <2>8. (\A s \in Requests : pc'[s] \notin Busy) => Level'
      BY <2>1 DEF Tidy, Level, clone
    <2> QED  BY <2>6, <2>7, <2>8 DEF Tidy
  <1>5. ASSUME UNCHANGED vars PROVE Tidy'
    <2>1. NobodyCut  BY <1>5 DEF vars, NobodyCut
    <2>2. Whole'  BY <1>5, <2>1 DEF Tidy, vars, IsWhole
    <2>3. \A s \in Requests : Orderly(s)'
      BY <1>5, <2>1 DEF Tidy, Orderly, Touched, Bitmaps, Nth, IsWhole, Alike, vars
    <2>4. (\A s \in Requests : pc'[s] \notin Busy) => Level'
      BY <1>5, <2>1 DEF Tidy, Level, vars
    <2> QED  BY <2>2, <2>3, <2>4 DEF Tidy
  <1> QED  BY <1>1, <1>2, <1>3, <1>4, <1>5 DEF Next, AllAnswered

LEMMA CurrentNext ==
  ASSUME Serial, Current, [Next]_vars
  PROVE  Current'
  <1> USE DEF Current, Pulling, Serial, Handlers, Goto, Answer
  <1>1. ASSUME NEW r \in Requests, Step(r) PROVE Current'
    <2>1. \A s \in Requests \ {r} : pc'[s] = pc[s] /\ pc'[s] \notin Pulling
      BY <1>1, StepIsInFlight DEF Alone, InFlight, Handling
    <2>2. pc'[r] \in Pulling => seen' \subseteq head'.log
      <3>1. CASE Fetch(r)  BY <1>1, <3>1 DEF Fetch, Behind
      <3>2. CASE Reset(r)  BY <1>1, <3>2 DEF Reset, Based
      <3>3. CASE Proceed(r)
        <4>1. pc'[r] \in AfterPull(r) /\ op[r] \in Ops  BY <3>3 DEF Proceed
        <4> QED  BY <4>1 DEF AfterPull, Ops
      <3>4. CASE ~Fetch(r) /\ ~Reset(r) /\ ~Proceed(r)
        BY <1>1, <3>4 DEF Step, FetchFails, ResetIndex, CheckOut, CheckedOut, WriteFile,
           RemoveFile, Advance, ReadBitmaps, CanAddBit, AddBitPanics, EmptyBm, WriteBm, EmptyBmi,
           WriteBmi, ReadIndex, WriteIndex, CannotRemove, BuildCommit, MoveHead, Push, PushFails,
           PushUnheard
      <3> QED  BY <3>1, <3>2, <3>3, <3>4
    <2> QED  BY <2>1, <2>2
  <1>2. ASSUME NEW r \in Requests, Arrive(r) \/ Abort(r) PROVE Current'
    BY <1>2 DEF Arrive, Abort, clone
  <1>3. ASSUME NEW q \in Foreign, Publish(q) PROVE Current'
    BY <1>3 DEF Publish, clone
  <1> QED  BY <1>1, <1>2, <1>3 DEF Next, AllAnswered, vars

\* What holds in every state, one request at a time.
OneAtATime == Types /\ Serial /\ (\A r \in Requests : Progress(r)) /\ Tidy /\ Current

LEMMA OneAtATimeAlways ==
  ASSUME MaxInFlight = 1
  PROVE  Spec => []OneAtATime
  <1>1. Init => OneAtATime
    <2> SUFFICES ASSUME Init PROVE OneAtATime
      OBVIOUS
    <2>1. \A r \in Requests : Progress(r) /\ Orderly(r)
      BY DEF Init, Progress, Orderly, Before, Saving, Changing, Staging, Voting
    <2>2. IsWhole(head.tree) /\ IsWhole(remote.tree) /\ Level
      BY DEF Init, IsWhole, NoCommit, EmptyTree, Level, Alike
    <2> QED  BY <2>1, <2>2, SerialInit DEF OneAtATime, Tidy, Current, Pulling, Init
  <1>2. OneAtATime /\ [Next]_vars => OneAtATime'
    <2> SUFFICES ASSUME OneAtATime, [Next]_vars PROVE OneAtATime'
      OBVIOUS
    <2>1. Types' /\ Serial' /\ \A r \in Requests : Progress(r)'
      BY SerialNext, ProgressNext DEF OneAtATime
    <2>2. Tidy' /\ Current'
      BY <2>1, TidyNext, CurrentNext DEF OneAtATime, Serial
    <2> QED  BY <2>1, <2>2 DEF OneAtATime
  <1> QED  BY <1>1, <1>2, PTL DEF Spec

\* One request at a time, the remote never has a part of a record, whichever
\* fetches, pushes and locks fail, and whatever other writers publish.
THEOREM WholeIsPublished ==
  ASSUME MaxInFlight = 1
  PROVE  Spec => []PublishedWhole
  <1>1. OneAtATime => PublishedWhole  BY DEF OneAtATime, Tidy, PublishedWhole
  <1> QED  BY <1>1, OneAtATimeAlways, PTL

\* One request at a time, a pull that succeeds leaves in the working tree
\* what the fetch brought: go-git refuses the reset only for changes that
\* nobody has left behind.
THEOREM PullBringsLatest ==
  ASSUME MaxInFlight = 1
  PROVE  Spec => []PullIsLatest
  <1>1. OneAtATime => PullIsLatest
    <2> SUFFICES ASSUME OneAtATime, NEW r \in Requests, pc[r] = "pulled", NobodyCut
                 PROVE  /\ seen \subseteq head.log
                        /\ \A f \in DOMAIN head.tree : f \in DOMAIN wt /\ wt[f] = head.tree[f]
      BY DEF PullIsLatest
    <2>1. r \in InFlight  BY DEF InFlight, Handling
    <2>2. Level
      BY <2>1, SoundInFlight DEF OneAtATime, Serial, Sound, Busy, Changing, Staging, Voting
    <2>3. seen \subseteq head.log  BY DEF OneAtATime, Current, Pulling
    <2> QED  BY <2>2, <2>3 DEF Level, Alike
  <1> QED  BY <1>1, OneAtATimeAlways, PTL
=============================================================================
