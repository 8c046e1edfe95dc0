----------------------------- MODULE VoteBitmap -----------------------------
(***************************************************************************)
(* The votes on one record: BitmapService (services/bitmap_service.go) and *)
(* the statistics of /query.                                               *)
(*                                                                         *)
(* A record has two files of bytes, .bm (the votes, 1 for credible) and    *)
(* .bmi (which positions hold a vote).  They are divided into blocks of    *)
(* blockSize positions: block 0 is never used, votes fill block 1, and     *)
(* what comes after the 2 * blockSize positions is the overflow.           *)
(* ProcessCommit creates files of two blocks; AddBit, when it finds none   *)
(* (a delete came in between), starts from empty ones of four.             *)
(*                                                                         *)
(* AddBit is serialized by a mutex, its readers are not.  os.WriteFile     *)
(* empties a file before it writes it; the process may die in between, or  *)
(* the call may fail while the other votes go on.                          *)
(***************************************************************************)
EXTENDS Integers, FiniteSets, Sequences

CONSTANTS
    blockSize,    \* positions in a block (256)
    Voters,       \* the requests that vote, once each
    MaxInFlight,  \* how many votes are handled at a time
    Faults        \* the faults that may occur, among AllFaults

\* "crash": the process dies.  "io": a file cannot be read or written.
AllFaults == {"crash", "io"}

ASSUME BlockAssumption == blockSize \in Nat \ {0}
ASSUME MaxInFlightAssumption == MaxInFlight \in Nat \ {0}
ASSUME FaultsAssumption == Faults \subseteq AllFaults

\* floor(0.8 * blockSize)
ThresholdFifth == blockSize \div 5
Threshold == (4 * blockSize) \div 5

VARIABLES
    bm,      \* the file of votes
    bmi,     \* the file of marks
    pc,      \* where each vote is
    choice,  \* what each voter votes
    mutex,   \* the voters that hold BitmapService.mu
    mem,     \* what the holder of the mutex has in memory
    read,    \* the .bm file a vote has read for its statistics
    answer,  \* the statistics a vote was answered with
    cast     \* history: the voters whose vote AddBit has saved, in order

files == <<bm, bmi>>
vars  == <<bm, bmi, pc, choice, mutex, mem, read, answer, cast>>

Bits == 0..1

\* A file is its size and its bytes by position.
File(n, f) == [size |-> n, bit |-> f]
Zeros(n)   == File(n, [p \in 0..(n - 1) |-> 0])
Emptied    == Zeros(0)
Missing    == File(-1, [p \in {} |-> 0])
IsFile(f)  ==
    /\ f = File(f.size, f.bit)
    /\ f.size \in {-1, 0, 2 * blockSize, 4 * blockSize}
    /\ f.bit \in [0..(f.size - 1) -> Bits]

\* A position that is marked as holding a vote.
Marked(m, p) == p < m.size /\ m.bit[p] = 1

Block(k) == (k * blockSize)..((k + 1) * blockSize - 1)

-----------------------------------------------------------------------------
(* AddBit on the bytes in memory.                                          *)

\* readBitmap: a missing file reads as four empty blocks.
Read(f) == IF f.size = -1 THEN Zeros(4 * blockSize) ELSE f

\* The positions of block 1 that hold no vote, and the first of them.
Free(m)      == {p \in Block(1) : m.bit[p] = 0}
FirstFree(m) == CHOOSE p \in Free(m) : \A q \in Free(m) : p <= q

\* AddBit indexes within its slices.  Go panics when a file was emptied, or
\* when block 1 is full and the overflow block is missing.
Fits(b, m) ==
    /\ 2 * blockSize <= b.size /\ 2 * blockSize <= m.size
    /\ Free(m) # {} \/ (3 * blockSize <= b.size /\ 3 * blockSize <= m.size)

Store(f, p, v) == [f EXCEPT !.bit[p] = v]

\* The votes of the overflow block that are marked and credible.
Credible(b, m, S) == Cardinality({p \in S : m.bit[p] = 1 /\ b.bit[p] = 1})

\* The overflow block is filled with ones, or cleared, before it is used.
Overflow(b, m) ==
    IF Credible(b, m, Block(2)) >= Threshold
    THEN [bm  |-> File(b.size, [p \in DOMAIN b.bit |->
                     IF p \in Block(2) THEN 1 ELSE b.bit[p]]),
          bmi |-> File(m.size, [p \in DOMAIN m.bit |->
                     IF p \in Block(2) /\ b.bit[p] = 0 THEN 1 ELSE m.bit[p]])]
    ELSE [bm  |-> File(b.size, [p \in DOMAIN b.bit |->
                     IF p \in Block(2) THEN 0 ELSE b.bit[p]]),
          bmi |-> File(m.size, [p \in DOMAIN m.bit |->
                     IF p \in Block(2) THEN 0 ELSE m.bit[p]])]

\* The search of block 0 for an opposite vote to replace (step 4 of AddBit)
\* is left out: the position is below the size whenever nothing panicked.
AddBit(b, m, v) ==
    IF Free(m) # {}
    THEN [bm |-> Store(b, FirstFree(m), v), bmi |-> Store(m, FirstFree(m), 1)]
    ELSE LET o == Overflow(b, m)
         IN  [bm  |-> Store(o.bm, 2 * blockSize, v),
              bmi |-> Store(o.bmi, 2 * blockSize, 1)]

-----------------------------------------------------------------------------
(* The statistics, as a pair of credible votes and votes.                  *)

TallyUnmarked(b, m, S) ==
    [credible |-> Cardinality({p \in S : Marked(b, p)}),
     total    |-> Cardinality({p \in S : Marked(m, p)})]
Tally(b, m, S) ==
    [credible |-> Cardinality({p \in S : Marked(m, p) /\ Marked(b, p)}),
     total    |-> Cardinality({p \in S : Marked(m, p)})]

\* GetStats: block 0 if it has a vote, else block 1.
GetStatsToTheEnd(b, m) ==
    IF Tally(b, m, Block(0)).total > 0
    THEN Tally(b, m, Block(0))
    ELSE Tally(b, m, blockSize..(m.size - 1))
GetStats(b, m) ==
    IF Tally(b, m, Block(0)).total > 0
    THEN Tally(b, m, Block(0))
    ELSE Tally(b, m, Block(1))

\* It indexes bmi in both blocks, and bm where bmi has a mark.
StatsPanic(b, m) ==
    \/ m.size < 2 * blockSize
    \/ b.size < 2 * blockSize /\ GetStats(m, m).total > 0

\* /query counts over all positions that both files have.
QueryStatsAll(b, m) ==
    [credible |-> Tally(b, m, 0..(m.size - 1)).credible, total |-> m.size]
QueryStats(b, m) ==
    Tally(b, m, {p \in 0..(m.size - 1) : p < b.size})

-----------------------------------------------------------------------------
(* The votes.                                                              *)

Stages == {"idle", "emptybm", "writebm", "emptybmi", "writebmi", "commit",
           "readbm", "readbmi", "answered", "failed"}

NoAnswer == [credible |-> 0, total |-> 0]

Init ==
    /\ bm \in {Zeros(2 * blockSize), Missing}
    /\ bmi = bm
    /\ pc = [v \in Voters |-> "idle"]
    /\ choice \in [Voters -> Bits]
    /\ mutex = {}
    /\ mem = [bm |-> Emptied, bmi |-> Emptied]
    /\ read = [v \in Voters |-> Emptied]
    /\ answer = [v \in Voters |-> NoAnswer]
    /\ cast = <<>>

\* The votes being handled.
InFlight == {v \in Voters : pc[v] \notin {"idle", "answered", "failed"}}

Goto(v, label) == pc' = [pc EXCEPT ![v] = label]

\* Lock, read both files and place the vote in memory.
PlaceUnlocked(v) ==
    LET b == Read(bm)
        m == Read(bmi)
    IN  /\ pc[v] = "idle" /\ Cardinality(InFlight) < MaxInFlight
        /\ Fits(b, m)
        /\ mem' = AddBit(b, m, choice[v])
        /\ Goto(v, "emptybm")
        /\ UNCHANGED <<files, mutex, choice, read, answer, cast>>
Place(v) ==
    LET b == Read(bm)
        m == Read(bmi)
    IN  /\ pc[v] = "idle" /\ Cardinality(InFlight) < MaxInFlight
        /\ mutex = {}
        /\ Fits(b, m)
        /\ mutex' = {v}
        /\ mem' = AddBit(b, m, choice[v])
        /\ Goto(v, "emptybm")
        /\ UNCHANGED <<files, choice, read, answer, cast>>

\* An index is out of range: the deferred Unlock runs and gin answers 500.
PlacePanics(v) ==
    /\ pc[v] = "idle" /\ Cardinality(InFlight) < MaxInFlight
    /\ mutex = {}
    /\ ~Fits(Read(bm), Read(bmi))
    /\ Goto(v, "failed")
    /\ UNCHANGED <<files, choice, mutex, mem, read, answer, cast>>

\* writeBitmap empties the file and then writes it, .bm before .bmi.
EmptyBm(v) ==
    /\ pc[v] = "emptybm"
    /\ bm' = Emptied
    /\ Goto(v, "writebm")
    /\ UNCHANGED <<bmi, choice, mutex, mem, read, answer, cast>>

WriteBm(v) ==
    /\ pc[v] = "writebm"
    /\ bm' = mem.bm
    /\ Goto(v, "emptybmi")
    /\ UNCHANGED <<bmi, choice, mutex, mem, read, answer, cast>>

EmptyBmi(v) ==
    /\ pc[v] = "emptybmi"
    /\ bmi' = Emptied
    /\ Goto(v, "writebmi")
    /\ UNCHANGED <<bm, choice, mutex, mem, read, answer, cast>>

\* The vote is saved, and the mutex is released.
WriteBmiKeepsMutex(v) ==
    /\ pc[v] = "writebmi"
    /\ bmi' = mem.bmi
    /\ cast' = Append(cast, v)
    /\ Goto(v, "commit")
    /\ UNCHANGED <<bm, choice, mutex, mem, read, answer>>
WriteBmi(v) ==
    /\ pc[v] = "writebmi"
    /\ bmi' = mem.bmi
    /\ cast' = Append(cast, v)
    /\ mutex' = {}
    /\ mem' = [bm |-> Emptied, bmi |-> Emptied]
    /\ Goto(v, "commit")
    /\ UNCHANGED <<bm, choice, read, answer>>

\* writeBitmap fails, to open a file or, once it is emptied, to write it:
\* AddBit returns the error, the deferred Unlock runs, and the files stay as
\* they are by then.
WriteFails(v) ==
    /\ "io" \in Faults
    /\ pc[v] \in {"emptybm", "writebm", "emptybmi", "writebmi"}
    /\ mutex' = {}
    /\ mem' = [bm |-> Emptied, bmi |-> Emptied]
    /\ Goto(v, "failed")
    /\ UNCHANGED <<files, choice, read, answer, cast>>

\* readBitmap fails, in AddBit or in GetStats.
ReadFails(v) ==
    /\ "io" \in Faults
    /\ \/ pc[v] = "idle" /\ Cardinality(InFlight) < MaxInFlight /\ mutex = {}
       \/ pc[v] \in {"readbm", "readbmi"}
    /\ read' = [read EXCEPT ![v] = Emptied]
    /\ Goto(v, "failed")
    /\ UNCHANGED <<files, choice, mutex, mem, answer, cast>>

\* CommitChanges, which does not change the files and may fail.
Commit(v) ==
    /\ pc[v] = "commit"
    /\ Goto(v, "readbm") \/ Goto(v, "failed")
    /\ UNCHANGED <<files, choice, mutex, mem, read, answer, cast>>

\* GetStats reads both files without the mutex, .bm first.
ReadBm(v) ==
    /\ pc[v] = "readbm"
    /\ read' = [read EXCEPT ![v] = Read(bm)]
    /\ Goto(v, "readbmi")
    /\ UNCHANGED <<files, choice, mutex, mem, answer, cast>>

Answer(v) ==
    /\ pc[v] = "readbmi"
    /\ IF StatsPanic(read[v], Read(bmi))
       THEN Goto(v, "failed") /\ UNCHANGED answer
       ELSE /\ Goto(v, "answered")
            /\ answer' = [answer EXCEPT ![v] = GetStats(read[v], Read(bmi))]
    /\ read' = [read EXCEPT ![v] = Emptied]
    /\ UNCHANGED <<files, choice, mutex, mem, cast>>

\* The process dies and is restarted: the files stay as they are.
Crash ==
    /\ "crash" \in Faults
    /\ pc' = [v \in Voters |->
                IF pc[v] \in {"idle", "answered"} THEN pc[v] ELSE "failed"]
    /\ mutex' = {}
    /\ mem' = [bm |-> Emptied, bmi |-> Emptied]
    /\ read' = [v \in Voters |-> Emptied]
    /\ UNCHANGED <<files, choice, answer, cast>>

Step(v) ==
    \/ Place(v) \/ PlacePanics(v)
    \/ EmptyBm(v) \/ WriteBm(v) \/ EmptyBmi(v) \/ WriteBmi(v)
    \/ WriteFails(v) \/ ReadFails(v)
    \/ Commit(v) \/ ReadBm(v) \/ Answer(v)

\* Nobody votes any more.
AllVoted ==
    (\A v \in Voters : pc[v] \in {"answered", "failed"}) /\ UNCHANGED vars

Next == (\E v \in Voters : Step(v)) \/ Crash \/ AllVoted

Spec == Init /\ [][Next]_vars

-----------------------------------------------------------------------------
(* Properties.                                                             *)

\* The mutex is held by the one vote that is writing, and the files have
\* one of the sizes the service gives them.
Writing == {"emptybm", "writebm", "emptybmi", "writebmi"}

TypeOK ==
    /\ IsFile(bm) /\ IsFile(bmi)
    /\ pc \in [Voters -> Stages]
    /\ choice \in [Voters -> Bits]
    /\ mutex = {v \in Voters : pc[v] \in Writing}
    /\ mutex = {} \/ \E v \in Voters : mutex = {v}
    /\ IsFile(mem.bm) /\ IsFile(mem.bmi)
    /\ \A v \in Voters : IsFile(read[v])
    /\ cast \in Seq(Voters)

\* The files are neither missing nor emptied by a write that did not finish.
Intact == bm.size >= 2 * blockSize /\ bmi.size >= 2 * blockSize

\* The marks of a file, and the votes of another, are those of the votes s:
\* the first blockSize of them, each at a position of its own in block 1.
MarksOf(m, s) ==
    \A j \in 1..blockSize : m.bit[blockSize + j - 1] = 1 <=> j <= Len(s)
VotesOf(b, s) ==
    \A j \in 1..blockSize :
        j <= Len(s) => b.bit[blockSize + j - 1] = choice[s[j]]

\* No vote is lost, counted twice or altered: at every moment two whole files
\* hold exactly the votes AddBit has saved, in order, whatever votes race,
\* whichever writes fail and wherever the process dies.
TallyExact == Intact => MarksOf(bmi, cast) /\ VotesOf(bm, cast)

\* The first n votes of cast that are credible.
CredibleIn(n) == Cardinality({j \in 1..n : choice[cast[j]] = 1})

\* The credible votes that failed, or died with the process, before they
\* were saved.
Unsaved ==
    {v \in Voters : /\ pc[v] = "failed" /\ choice[v] = 1
                    /\ \A n \in 1..Len(cast) : cast[n] # v}

\* GetStats runs after AddBit has released the mutex, and reads two files at
\* two moments.  Its answer counts at least the vote it answers and all
\* before it, and no more votes than were saved; its credible votes lie
\* between the two, with one more at most, and that only if a credible vote
\* failed before it was saved: what it has left in .bm may be read, and
\* counted for the vote that has taken its position since.  The votes of
\* the overflow block are not counted.
AnswerWithinRace ==
    \A n \in 1..Len(cast) :
        LET a == answer[cast[n]]
        IN  pc[cast[n]] = "answered" /\ Len(cast) <= blockSize =>
                /\ n <= a.total /\ a.total <= Len(cast)
                /\ CredibleIn(n) <= a.credible
                /\ a.credible <= CredibleIn(Len(cast)) + (IF Unsaved = {} THEN 0 ELSE 1)

\* /vote (GetStats) and /query count the same votes of a record, although one
\* looks at a single block and the other at all positions, until votes go to
\* the overflow block.
StatsAgree ==
    mutex = {} /\ Intact /\ Len(cast) <= blockSize => QueryStats(bm, bmi) = GetStats(bm, bmi)

\* The overflow block never holds more than one vote: with four blocks,
\* every vote beyond blockSize replaces the one before it, because fewer than
\* Threshold votes are there to keep the block.
OverflowHoldsOne ==
    mutex = {} /\ Intact /\ Len(cast) > blockSize =>
        {p \in (2 * blockSize)..(bmi.size - 1) : Marked(bmi, p)} = {2 * blockSize}

\* The votes that are counted: those of block 1.
Counted == IF Len(cast) <= blockSize THEN Len(cast) ELSE blockSize

\* A file was emptied, and nobody is about to write it.
Ruined == mutex = {} /\ (bm.size = 0 \/ bmi.size = 0)

Tallies == INSTANCE VoteTally WITH
    Capacity <- blockSize,
    tally    <- [credible |-> CredibleIn(Counted), total |-> Counted],
    stored   <- IF StatsPanic(Read(bm), Read(bmi))
                THEN [credible |-> 0, total |-> -1] ELSE GetStats(Read(bm), Read(bmi)),
    ruined   <- Ruined

\* VoteBitmap implements VoteTally: although a vote is written to two files
\* in four steps, at every moment the two files together hold the count
\* without it, or the count with it, or cannot be counted, and a vote cut off
\* in between is not repaired, miscounted or followed by others.  A caller of
\* GetStats, who reads the files at two moments, may combine two counts: what
\* is left of the promise for it is AnswerWithinRace.
ImplementsTally == Tallies!Spec

\* What the code says of itself: "if the positions 256-511 are full, the
\* following block is used" (bitmap_service.go:51).  A vote always finds a
\* place: AddBit does not index beyond the files.
EveryVoteFits == mutex = {} => Fits(Read(bm), Read(bmi))
=============================================================================
