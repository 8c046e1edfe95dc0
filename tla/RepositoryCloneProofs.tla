------------------------ MODULE RepositoryCloneProofs -------------------------
(***************************************************************************)
(* What RepositoryClone guarantees for every number of requests.           *)
(*                                                                         *)
(* HandlersUseWhole is not inductive: that a pull finds a whole clone      *)
(* rests on what the request that made the clone, and those that failed    *)
(* to, have left behind.  As long as nothing overlaps, the directory and   *)
(* the one request at work in it go hand in hand (InStep, Alone), and HEAD *)
(* without index and files is never left alone (Attended); as long as the  *)
(* process does not die either, no half-made directory is (Tidy).          *)
(***************************************************************************)
EXTENDS RepositoryClone, FiniteSetTheorems, TLAPS

\* TypeOK without the number of requests in flight.
Types ==
    /\ dir \in Dirs
    /\ pc \in [Requests -> {"new"} \cup Handling \cup Ended]
    /\ cleans \in [Requests -> {"nothing", "contents", "all"}]
    /\ \A r \in Requests : cleans[r] # "nothing" => pc[r] \in Making
    /\ wiped \in BOOLEAN
    /\ past \subseteq {"overlap", "died", "halfway"}

\* The directory is what the request has made of it.
InStep(r) ==
    /\ pc[r] \in {"clone", "begin"} => dir = "none"
    /\ pc[r] \in Making => cleans[r] = "all"
    /\ pc[r] = "make" => dir \in {"none", "empty"}
    /\ pc[r] \in {"check", "init"} => dir = "bare"
    /\ pc[r] = "remote" => dir = "init"
    /\ pc[r] = "fetch" => dir = "origin"
    /\ pc[r] \in {"checkout", "reset"} => dir = "fetched"
    /\ pc[r] \in {"files", "refill"} => dir = "indexed"
    /\ pc[r] = "returned" => dir = "whole"

Alone == dir # "whole" => \A r, s \in InFlight : r = s
Attended ==
    dir \in {"fetched", "indexed"} =>
        \E r \in Requests : pc[r] \in {"checkout", "reset", "files", "refill"}

Undisturbed ==
    past \subseteq {"died"} =>
        ~wiped /\ Alone /\ Attended /\ \A r \in Requests : InStep(r)

\* A directory that is not whole is the work of a request in flight.
Tidy ==
    past = {} /\ dir \notin {"none", "whole"} =>
        \E r \in Requests : pc[r] \in Making

-----------------------------------------------------------------------------

\* The variables keep their types.
LEMMA TypesInit == Init => Types
  BY DEF Init, Types, Dirs, NoHead

LEMMA TypesStep == Types /\ [Next]_vars => Types'
  <1> SUFFICES ASSUME Types, [Next]_vars PROVE Types'  OBVIOUS
  <1> USE DEF Types, Dirs, NoHead, Fetched, Handling, Cloning, Making, Ended, Goto, history
  <1>1. ASSUME NEW r \in Requests, Arrive(r) PROVE Types'
    BY <1>1 DEF Arrive
  <1>2. ASSUME NEW r \in Requests, Stat(r) PROVE Types'
    BY <1>2 DEF Stat
  <1>3. ASSUME NEW r \in Requests, StatAgain(r) PROVE Types'
    BY <1>3 DEF StatAgain
  <1>4. ASSUME NEW r \in Requests, AuthFails(r) PROVE Types'
    BY <1>4 DEF AuthFails
  <1>5. ASSUME NEW r \in Requests, Begin(r) PROVE Types'
    BY <1>5 DEF Begin
  <1>6. ASSUME NEW r \in Requests, MakeDirectory(r) PROVE Types'
    BY <1>6 DEF MakeDirectory
  <1>7. ASSUME NEW r \in Requests, CheckHead(r) PROVE Types'
    BY <1>7 DEF CheckHead
  <1>8. ASSUME NEW r \in Requests, SetHead(r) PROVE Types'
    BY <1>8 DEF SetHead
  <1>9. ASSUME NEW r \in Requests, AddRemote(r) PROVE Types'
    BY <1>9 DEF AddRemote, CleanUp
  <1>10. ASSUME NEW r \in Requests, FetchRefs(r) PROVE Types'
    BY <1>10 DEF FetchRefs, CleanUp
  <1>11. ASSUME NEW r \in Requests, Checkout(r) PROVE Types'
    BY <1>11 DEF Checkout, CleanUp
  <1>12. ASSUME NEW r \in Requests, CheckoutFiles(r) PROVE Types'
    BY <1>12 DEF CheckoutFiles, CleanUp
  <1>13. ASSUME NEW r \in Requests, CloneFails(r) PROVE Types'
    BY <1>13 DEF CloneFails, CleanUp
  <1>14. ASSUME NEW r \in Requests, Pull(r) PROVE Types'
    BY <1>14 DEF Pull
  <1>15. ASSUME NEW r \in Requests, PullFails(r) PROVE Types'
    BY <1>15 DEF PullFails
  <1>16. ASSUME NEW r \in Requests, Reset(r) PROVE Types'
    BY <1>16 DEF Reset, LeavesFiles
  <1>17. ASSUME NEW r \in Requests, Refill(r) PROVE Types'
    BY <1>17 DEF Refill, LeavesFiles
  <1>18. ASSUME NEW r \in Requests, Read(r) PROVE Types'
    BY <1>18 DEF Read
  <1>19. ASSUME NEW r \in Requests, Commit(r) PROVE Types'
    BY <1>19 DEF Commit
  <1>20. CASE Crash
    BY <1>20 DEF Crash, InFlight
  <1>21. CASE UNCHANGED vars
    BY <1>21 DEF vars
  <1> QED
    BY <1>1, <1>2, <1>3, <1>4, <1>5, <1>6, <1>7, <1>8, <1>9, <1>10, <1>11,
       <1>12, <1>13, <1>14, <1>15, <1>16, <1>17, <1>18, <1>19, <1>20, <1>21
       DEF Next, Step, Done

-----------------------------------------------------------------------------

\* One request at a time takes the directory from one stage to the next.
LEMMA UndisturbedStep == Types /\ Undisturbed /\ [Next]_vars => Undisturbed'
  <1> SUFFICES ASSUME Types, Undisturbed, [Next]_vars PROVE Undisturbed'  OBVIOUS
  <1> USE DEF Types, Undisturbed, Alone, Attended, InStep, InFlight, Dirs,
              NoHead, Fetched, Handling, Cloning, Making, Ended, Goto, history
  <1>1. ASSUME NEW r \in Requests, Arrive(r) PROVE Undisturbed'
    BY <1>1 DEF Arrive
  <1>2. ASSUME NEW r \in Requests, Stat(r) PROVE Undisturbed'
    BY <1>2 DEF Stat
  <1>3. ASSUME NEW r \in Requests, StatAgain(r) PROVE Undisturbed'
    BY <1>3 DEF StatAgain
  <1>4. ASSUME NEW r \in Requests, AuthFails(r) PROVE Undisturbed'
    BY <1>4 DEF AuthFails
  <1>5. ASSUME NEW r \in Requests, Begin(r) PROVE Undisturbed'
    BY <1>5 DEF Begin
  <1>6. ASSUME NEW r \in Requests, MakeDirectory(r) PROVE Undisturbed'
    BY <1>6 DEF MakeDirectory
  <1>7. ASSUME NEW r \in Requests, CheckHead(r) PROVE Undisturbed'
    BY <1>7 DEF CheckHead
  <1>8. ASSUME NEW r \in Requests, SetHead(r) PROVE Undisturbed'
    BY <1>8 DEF SetHead
  <1>9. ASSUME NEW r \in Requests, AddRemote(r) PROVE Undisturbed'
    BY <1>9 DEF AddRemote, CleanUp
  <1>10. ASSUME NEW r \in Requests, FetchRefs(r) PROVE Undisturbed'
    BY <1>10 DEF FetchRefs, CleanUp
  <1>11. ASSUME NEW r \in Requests, Checkout(r) PROVE Undisturbed'
    BY <1>11 DEF Checkout, CleanUp
  <1>12. ASSUME NEW r \in Requests, CheckoutFiles(r) PROVE Undisturbed'
    BY <1>12 DEF CheckoutFiles, CleanUp
  <1>13. ASSUME NEW r \in Requests, CloneFails(r) PROVE Undisturbed'
    BY <1>13 DEF CloneFails, CleanUp
  <1>14. ASSUME NEW r \in Requests, Pull(r) PROVE Undisturbed'
    BY <1>14 DEF Pull
  <1>15. ASSUME NEW r \in Requests, PullFails(r) PROVE Undisturbed'
    BY <1>15 DEF PullFails
  <1>16. ASSUME NEW r \in Requests, Reset(r) PROVE Undisturbed'
    BY <1>16 DEF Reset, LeavesFiles
  <1>17. ASSUME NEW r \in Requests, Refill(r) PROVE Undisturbed'
    BY <1>17 DEF Refill, LeavesFiles
  <1>18. ASSUME NEW r \in Requests, Read(r) PROVE Undisturbed'
    BY <1>18 DEF Read
  <1>19. ASSUME NEW r \in Requests, Commit(r) PROVE Undisturbed'
    BY <1>19 DEF Commit
  <1>20. CASE Crash
    BY <1>20 DEF Crash
  <1>21. CASE UNCHANGED vars
    BY <1>21 DEF vars
  <1> QED
    BY <1>1, <1>2, <1>3, <1>4, <1>5, <1>6, <1>7, <1>8, <1>9, <1>10, <1>11,
       <1>12, <1>13, <1>14, <1>15, <1>16, <1>17, <1>18, <1>19, <1>20, <1>21
       DEF Next, Step, Done

\* Without failures that leave something, and without deaths, a directory that
\* is not whole has a clone at work in it.
LEMMA TidyStep == Types /\ Undisturbed /\ Tidy /\ [Next]_vars => Tidy'
  <1> SUFFICES ASSUME Types, Undisturbed, Tidy, [Next]_vars PROVE Tidy'  OBVIOUS
  <1> USE DEF Types, Undisturbed, Tidy, Alone, InStep, InFlight, Dirs,
              NoHead, Fetched, Handling, Cloning, Making, Ended, Goto, history
  <1>1. ASSUME NEW r \in Requests, Arrive(r) PROVE Tidy'
    BY <1>1 DEF Arrive
  <1>2. ASSUME NEW r \in Requests, Stat(r) PROVE Tidy'
    BY <1>2 DEF Stat
  <1>3. ASSUME NEW r \in Requests, StatAgain(r) PROVE Tidy'
    BY <1>3 DEF StatAgain
  <1>4. ASSUME NEW r \in Requests, AuthFails(r) PROVE Tidy'
    BY <1>4 DEF AuthFails
  <1>5. ASSUME NEW r \in Requests, Begin(r) PROVE Tidy'
    BY <1>5 DEF Begin
  <1>6. ASSUME NEW r \in Requests, MakeDirectory(r) PROVE Tidy'
    BY <1>6 DEF MakeDirectory
  <1>7. ASSUME NEW r \in Requests, CheckHead(r) PROVE Tidy'
    BY <1>7 DEF CheckHead
  <1>8. ASSUME NEW r \in Requests, SetHead(r) PROVE Tidy'
    BY <1>8 DEF SetHead
  <1>9. ASSUME NEW r \in Requests, AddRemote(r) PROVE Tidy'
    BY <1>9 DEF AddRemote, CleanUp
  <1>10. ASSUME NEW r \in Requests, FetchRefs(r) PROVE Tidy'
    BY <1>10 DEF FetchRefs, CleanUp
  <1>11. ASSUME NEW r \in Requests, Checkout(r) PROVE Tidy'
    BY <1>11 DEF Checkout, CleanUp
  <1>12. ASSUME NEW r \in Requests, CheckoutFiles(r) PROVE Tidy'
    BY <1>12 DEF CheckoutFiles, CleanUp
  <1>13. ASSUME NEW r \in Requests, CloneFails(r) PROVE Tidy'
    BY <1>13 DEF CloneFails, CleanUp
  <1>14. ASSUME NEW r \in Requests, Pull(r) PROVE Tidy'
    BY <1>14 DEF Pull
  <1>15. ASSUME NEW r \in Requests, PullFails(r) PROVE Tidy'
    BY <1>15 DEF PullFails
  <1>16. ASSUME NEW r \in Requests, Reset(r) PROVE Tidy'
    BY <1>16 DEF Reset, LeavesFiles
  <1>17. ASSUME NEW r \in Requests, Refill(r) PROVE Tidy'
    BY <1>17 DEF Refill, LeavesFiles
  <1>18. ASSUME NEW r \in Requests, Read(r) PROVE Tidy'
    BY <1>18 DEF Read
  <1>19. ASSUME NEW r \in Requests, Commit(r) PROVE Tidy'
    BY <1>19 DEF Commit
  <1>20. CASE Crash
    BY <1>20 DEF Crash
  <1>21. CASE UNCHANGED vars
    BY <1>21 DEF vars
  <1> QED
    BY <1>1, <1>2, <1>3, <1>4, <1>5, <1>6, <1>7, <1>8, <1>9, <1>10, <1>11,
       <1>12, <1>13, <1>14, <1>15, <1>16, <1>17, <1>18, <1>19, <1>20, <1>21
       DEF Next, Step, Done

-----------------------------------------------------------------------------

\* Requests are finitely many at a time, even if there are infinitely many.
Few == IsFiniteSet(InFlight) /\ Cardinality(InFlight) <= MaxInFlight

\* Only Arrive brings a request into flight.
LEMMA FewStep == Types /\ Few /\ [Next]_vars => Few'
  <1> SUFFICES ASSUME Types, Few, [Next]_vars PROVE Few'  OBVIOUS
  <1>1. ASSUME NEW r \in Requests, Arrive(r) PROVE Few'
    <2>1. InFlight' = InFlight \cup {r} /\ r \notin InFlight
      BY <1>1 DEF Arrive, Types, InFlight, Handling, Cloning, Making, Goto
    <2>2. Cardinality(InFlight) \in Nat /\ Cardinality(InFlight) < MaxInFlight
      BY <1>1, FS_CardinalityType DEF Few, Arrive
    <2> QED  BY <2>1, <2>2, FS_AddElement, MaxInFlightAssumption DEF Few
  <1>2. ASSUME InFlight' \subseteq InFlight PROVE Few'
    BY <1>2, FS_Subset, FS_CardinalityType, MaxInFlightAssumption DEF Few
  <1>3. ASSUME NEW r \in Requests, Step(r) PROVE InFlight' \subseteq InFlight
    BY <1>3
       DEF Step, Stat, StatAgain, AuthFails, Begin, MakeDirectory, CheckHead,
           SetHead, AddRemote, FetchRefs, Checkout, CheckoutFiles, CloneFails,
           CleanUp, Pull, PullFails, Reset, Refill, Read, Commit, InFlight,
           Types, Handling, Cloning, Making, Goto
  <1>4. Crash => InFlight' \subseteq InFlight
    BY DEF Crash, InFlight, Handling, Cloning, Making
  <1>5. UNCHANGED vars => InFlight' \subseteq InFlight
    BY DEF vars, InFlight
  <1> QED  BY <1>1, <1>2, <1>3, <1>4, <1>5 DEF Next, Done

\* Every state of the clone is well typed.
THEOREM TypeCorrect == Spec => []TypeOK
  <1>1. Init => Types /\ Few
    <2>1. Init => InFlight = {}  BY DEF Init, InFlight, Handling, Cloning, Making
    <2> QED  BY <2>1, TypesInit, FS_EmptySet, MaxInFlightAssumption DEF Few
  <1>2. Types /\ Few => TypeOK
    BY DEF Types, Few, TypeOK
  <1> QED  BY <1>1, <1>2, TypesStep, FewStep, PTL DEF Spec

\* Undisturbed, every handler works in a whole clone.
THEOREM PullsAreWhole == Spec => []HandlersUseWhole
  <1>1. Init => Types /\ Undisturbed
    BY TypesInit
       DEF Init, Undisturbed, Alone, Attended, InStep, InFlight, Handling, Cloning, Making
  <1>2. Undisturbed => HandlersUseWhole
    BY DEF Undisturbed, InStep, HandlersUseWhole
  <1> QED  BY <1>1, <1>2, TypesStep, UndisturbedStep, PTL DEF Spec

\* Undisturbed, a clone that fails leaves nothing behind.
THEOREM FailuresAreCleanedUp == Spec => []FailuresLeaveNothing
  <1>1. Init => Types /\ Undisturbed /\ Tidy
    BY TypesInit
       DEF Init, Undisturbed, Alone, Attended, InStep, Tidy, InFlight, Handling, Cloning, Making
  <1>2. Tidy => FailuresLeaveNothing
    BY DEF Tidy, FailuresLeaveNothing, InFlight, Handling, Cloning
  <1> QED  BY <1>1, <1>2, TypesStep, UndisturbedStep, TidyStep, PTL DEF Spec

\* A whole clone is lost only to a request that began to clone before it was.
THEOREM WholeClonesStay == Spec => WholeStays
  <1>1. [Next]_vars =>
           [/\ dir = "whole"
            /\ \A r \in Requests : cleans[r] = "nothing" /\ pc[r] # "init"
            => dir' = "whole"]_vars
    BY DEF Next, vars, Arrive, Step, Stat, StatAgain, AuthFails, Begin, MakeDirectory,
           CheckHead, SetHead, AddRemote, FetchRefs, Checkout, CheckoutFiles, CloneFails,
           CleanUp, Pull, PullFails, Reset, Refill, LeavesFiles, Read, Commit, Crash, Done,
           NoHead, Fetched
  <1> QED  BY <1>1, PTL DEF Spec, WholeStays

\* What a dead or failed clone has left behind is never repaired.
THEOREM StuckClonesStay == Spec => StuckStays
  <1>1. Types /\ [Next]_vars => [Stuck => Stuck' /\ dir' = dir]_vars
    <2> SUFFICES ASSUME Types, [Next]_vars, Stuck PROVE Stuck' /\ dir' = dir
      OBVIOUS
    <2> USE DEF Types, Stuck, NoHead, Fetched, Handling, Cloning, Making, Ended, Goto, history
    <2>1. ASSUME NEW r \in Requests, Arrive(r) PROVE Stuck' /\ dir' = dir
      BY <2>1 DEF Arrive
    <2>2. ASSUME NEW r \in Requests, Step(r) PROVE Stuck' /\ dir' = dir
      BY <2>2
         DEF Step, Stat, StatAgain, AuthFails, Begin, MakeDirectory, CheckHead, SetHead,
             AddRemote, FetchRefs, Checkout, CheckoutFiles, CloneFails, Pull, PullFails,
             Reset, Refill, Read, Commit
    <2>3. CASE Crash
      BY <2>3 DEF Crash
    <2>4. CASE UNCHANGED vars
      BY <2>4 DEF vars
    <2> QED  BY <2>1, <2>2, <2>3, <2>4 DEF Next, Done
  <1>2. Init => Types  BY TypesInit
  <1> QED  BY <1>1, <1>2, TypesStep, PTL DEF Spec, StuckStays
=============================================================================
