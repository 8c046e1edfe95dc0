-------------------------- MODULE VoteBitmapProofs --------------------------
(***************************************************************************)
(* No vote is lost, counted twice or altered, for every block size, every  *)
(* set of voters, whichever writes fail and wherever the process dies      *)
(* (TallyExact); /vote and /query count the files alike (StatsAgree), an   *)
(* answer counts what was saved, give or take what the code admits         *)
(* (AnswerWithinRace), the overflow block keeps one vote at most           *)
(* (OverflowHoldsOne), and the two files implement VoteTally.              *)
(*                                                                         *)
(* TallyExact is not inductive.  The invariant adds what the vote that     *)
(* holds the mutex has in memory, that .bm is already its version while    *)
(* .bmi is being written, and that a file that is missing means that no    *)
(* vote was ever saved.  The statistics need, besides, that no mark lies   *)
(* outside the block of the votes (MarksConfined), and an answer given     *)
(* while other votes are saved, that what a failed vote left in .bm is at  *)
(* most the next vote, and what a reader found in it at least its own      *)
(* (RaceInv).                                                              *)
(***************************************************************************)
EXTENDS VoteBitmap, SequenceTheorems, FiniteSetTheorems, TLAPS

\* A file that was never written belongs to a record without votes.
MissingMeansNone == bm.size = -1 \/ bmi.size = -1 => cast = <<>>

VotesExact == bm.size >= 2 * blockSize => VotesOf(bm, cast)
MarksExact == bmi.size >= 2 * blockSize => MarksOf(bmi, cast)

\* The holder of the mutex has both files in memory, with its vote added.
Prepared ==
    \A v \in mutex :
        /\ mem.bm.size >= 2 * blockSize /\ mem.bmi.size >= 2 * blockSize
        /\ VotesOf(mem.bm, Append(cast, v))
        /\ MarksOf(mem.bmi, Append(cast, v))

\* .bm is written when .bmi is.
Written ==
    \A v \in mutex : pc[v] \in {"emptybmi", "writebmi"} => bm = mem.bm

\* The inductive invariant.
IInv ==
    /\ TypeOK
    /\ MissingMeansNone
    /\ VotesExact
    /\ MarksExact
    /\ Prepared
    /\ Written

-----------------------------------------------------------------------------
(* AddBit adds one vote.                                                   *)

\* A file of n empty positions is a file.
LEMMA ZerosIsFile ==
    /\ \A n \in {0, 2 * blockSize, 4 * blockSize} :
          IsFile(Zeros(n)) /\ Zeros(n).size = n
    /\ IsFile(Missing) /\ Missing.size = -1
  BY BlockAssumption DEF Zeros, Missing, IsFile, File, Bits

\* The marks fill block 1 from its start, so the first free position is the
\* one after the last vote, and there is none when the block is full.
LEMMA FirstFreeIsNext ==
    ASSUME NEW m, IsFile(m), m.size >= 2 * blockSize,
           NEW s \in Seq(Voters), MarksOf(m, s)
    PROVE  /\ Free(m) # {} => Len(s) < blockSize
                              /\ FirstFree(m) = blockSize + Len(s)
           /\ Free(m) = {} => blockSize <= Len(s)
  <1> USE BlockAssumption
  <1>0. Len(s) \in Nat  OBVIOUS
  <1>1. \A q \in Block(1) :
          /\ q \in 0..(m.size - 1) /\ m.bit[q] \in Bits
          /\ q - blockSize + 1 \in 1..blockSize
          /\ blockSize + (q - blockSize + 1) - 1 = q
    BY DEF IsFile, Block
  <1>2. \A q \in Block(1) : m.bit[q] = 0 <=> Len(s) < q - blockSize + 1
    BY <1>0, <1>1 DEF MarksOf, Bits
  <1>3. Free(m) = {q \in Block(1) : blockSize + Len(s) <= q}
    BY <1>0, <1>1, <1>2 DEF Free, Block
  <1>4. ASSUME Free(m) # {}
        PROVE  Len(s) < blockSize /\ FirstFree(m) = blockSize + Len(s)
    <2>1. Len(s) < blockSize  BY <1>0, <1>3, <1>4 DEF Block
    <2>2. blockSize + Len(s) \in Free(m)  BY <1>0, <1>3, <2>1 DEF Block
    <2>3. \A q \in Free(m) : blockSize + Len(s) <= q  BY <1>3
    <2>4. /\ FirstFree(m) \in Free(m)
          /\ \A q \in Free(m) : FirstFree(m) <= q
      BY <2>2, <2>3 DEF FirstFree
    <2>5. FirstFree(m) <= blockSize + Len(s) /\ blockSize + Len(s) <= FirstFree(m)
      BY <2>2, <2>3, <2>4
    <2>6. FirstFree(m) \in Int  BY <2>4 DEF Free, Block
    <2> QED  BY <1>0, <2>1, <2>5, <2>6
  <1>5. ASSUME Free(m) = {}
        PROVE  blockSize <= Len(s)
    <2>1. 2 * blockSize - 1 \in Block(1)  BY DEF Block
    <2>2. 2 * blockSize - 1 \notin Free(m)  BY <1>5
    <2> QED  BY <1>0, <1>3, <2>1, <2>2
  <1> QED  BY <1>4, <1>5

\* Storing a bit at a position of a file changes this position only.
LEMMA StoreIsFile ==
    ASSUME NEW f, IsFile(f), NEW p \in 0..(f.size - 1), NEW v \in Bits
    PROVE  /\ IsFile(Store(f, p, v))
           /\ Store(f, p, v).size = f.size
           /\ Store(f, p, v).bit = [f.bit EXCEPT ![p] = v]
  BY DEF Store, IsFile, File

\* A file whose bytes are replaced one by one is a file of the same size.
LEMMA FileWithBits ==
    ASSUME NEW f, IsFile(f), NEW g, g \in [0..(f.size - 1) -> Bits]
    PROVE  /\ IsFile(File(f.size, g))
           /\ File(f.size, g).size = f.size
           /\ File(f.size, g).bit = g
  BY DEF IsFile, File

\* Filling or clearing the overflow block leaves block 1 alone.
LEMMA OverflowKeepsBlock1 ==
    ASSUME NEW b, NEW m, IsFile(b), IsFile(m),
           b.size >= 2 * blockSize, m.size >= 2 * blockSize
    PROVE  /\ IsFile(Overflow(b, m).bm) /\ Overflow(b, m).bm.size = b.size
           /\ IsFile(Overflow(b, m).bmi) /\ Overflow(b, m).bmi.size = m.size
           /\ \A p \in Block(1) : /\ Overflow(b, m).bm.bit[p] = b.bit[p]
                                  /\ Overflow(b, m).bmi.bit[p] = m.bit[p]
  <1> USE BlockAssumption
  <1>1. \A p \in Block(1) : /\ p \in 0..(b.size - 1) /\ p \in 0..(m.size - 1)
                            /\ p \notin Block(2)
    BY DEF Block, IsFile
  <1>2. /\ DOMAIN b.bit = 0..(b.size - 1) /\ DOMAIN m.bit = 0..(m.size - 1)
        /\ b.bit \in [0..(b.size - 1) -> Bits]
        /\ m.bit \in [0..(m.size - 1) -> Bits]
    BY DEF IsFile
  <1>3. CASE Credible(b, m, Block(2)) >= Threshold
    <2> DEFINE g == [p \in DOMAIN b.bit |->
                       IF p \in Block(2) THEN 1 ELSE b.bit[p]]
               h == [p \in DOMAIN m.bit |->
                       IF p \in Block(2) /\ b.bit[p] = 0 THEN 1 ELSE m.bit[p]]
    <2>1. Overflow(b, m) = [bm |-> File(b.size, g), bmi |-> File(m.size, h)]
      BY <1>3 DEF Overflow
    <2>2. g \in [0..(b.size - 1) -> Bits] /\ h \in [0..(m.size - 1) -> Bits]
      <3>1. 0 \in Bits /\ 1 \in Bits
        BY DEF Bits
      <3>2. g \in [DOMAIN b.bit -> Bits] /\ h \in [DOMAIN m.bit -> Bits]
        BY <1>2, <3>1
      <3> QED  BY <1>2, <3>2
    <2>3. ASSUME NEW p \in Block(1)
          PROVE  g[p] = b.bit[p] /\ h[p] = m.bit[p]
      <3>1. p \in DOMAIN b.bit /\ p \in DOMAIN m.bit /\ p \notin Block(2)
        BY <1>1, <1>2
      <3> QED  BY <3>1
    <2> HIDE DEF g, h
    <2>4. /\ Overflow(b, m).bm = File(b.size, g)
          /\ Overflow(b, m).bmi = File(m.size, h)
      BY <2>1
    <2>5. /\ IsFile(File(b.size, g)) /\ File(b.size, g).size = b.size
          /\ File(b.size, g).bit = g
          /\ IsFile(File(m.size, h)) /\ File(m.size, h).size = m.size
          /\ File(m.size, h).bit = h
      BY <2>2, FileWithBits
    <2> QED  BY <2>3, <2>4, <2>5
  <1>4. CASE ~(Credible(b, m, Block(2)) >= Threshold)
    <2> DEFINE g == [p \in DOMAIN b.bit |->
                       IF p \in Block(2) THEN 0 ELSE b.bit[p]]
               h == [p \in DOMAIN m.bit |->
                       IF p \in Block(2) THEN 0 ELSE m.bit[p]]
    <2>1. Overflow(b, m) = [bm |-> File(b.size, g), bmi |-> File(m.size, h)]
      BY <1>4 DEF Overflow
    <2>2. g \in [0..(b.size - 1) -> Bits] /\ h \in [0..(m.size - 1) -> Bits]
      <3>1. 0 \in Bits /\ 1 \in Bits
        BY DEF Bits
      <3>2. g \in [DOMAIN b.bit -> Bits] /\ h \in [DOMAIN m.bit -> Bits]
        BY <1>2, <3>1
      <3> QED  BY <1>2, <3>2
    <2>3. ASSUME NEW p \in Block(1)
          PROVE  g[p] = b.bit[p] /\ h[p] = m.bit[p]
      <3>1. p \in DOMAIN b.bit /\ p \in DOMAIN m.bit /\ p \notin Block(2)
        BY <1>1, <1>2
      <3> QED  BY <3>1
    <2> HIDE DEF g, h
    <2>4. /\ Overflow(b, m).bm = File(b.size, g)
          /\ Overflow(b, m).bmi = File(m.size, h)
      BY <2>1
    <2>5. /\ IsFile(File(b.size, g)) /\ File(b.size, g).size = b.size
          /\ File(b.size, g).bit = g
          /\ IsFile(File(m.size, h)) /\ File(m.size, h).size = m.size
          /\ File(m.size, h).bit = h
      BY <2>2, FileWithBits
    <2> QED  BY <2>3, <2>4, <2>5
  <1> QED  BY <1>3, <1>4

\* AddBit on files that hold the votes s yields files that hold s and v.
LEMMA AddBitAppends ==
    ASSUME TypeOK, NEW b, NEW m, IsFile(b), IsFile(m), Fits(b, m),
           NEW s \in Seq(Voters), NEW v \in Voters,
           VotesOf(b, s), MarksOf(m, s)
    PROVE  LET r == AddBit(b, m, choice[v])
           IN  /\ IsFile(r.bm) /\ IsFile(r.bmi)
               /\ r.bm.size >= 2 * blockSize /\ r.bmi.size >= 2 * blockSize
               /\ VotesOf(r.bm, Append(s, v)) /\ MarksOf(r.bmi, Append(s, v))
  <1> USE BlockAssumption
  <1> DEFINE r == AddBit(b, m, choice[v])
             t == Append(s, v)
  <1>0. /\ Len(s) \in Nat /\ Len(t) = Len(s) + 1 /\ t[Len(s) + 1] = v
        /\ \A j \in 1..Len(s) : t[j] = s[j]
    OBVIOUS
  <1>1. /\ choice[v] \in Bits /\ 1 \in Bits
        /\ b.size \in Int /\ m.size \in Int
        /\ b.size >= 2 * blockSize /\ m.size >= 2 * blockSize
    BY DEF TypeOK, Fits, IsFile, Bits
  <1>2. CASE Free(m) # {}
    <2> DEFINE p == blockSize + Len(s)
    <2>1. Len(s) < blockSize /\ FirstFree(m) = p
      BY <1>1, <1>2, FirstFreeIsNext
    <2>2. p \in 0..(b.size - 1) /\ p \in 0..(m.size - 1)
      BY <1>0, <1>1, <2>1
    <2>3. r.bm = Store(b, p, choice[v]) /\ r.bmi = Store(m, p, 1)
      BY <1>2, <2>1 DEF AddBit
    <2>4. /\ IsFile(r.bm) /\ r.bm.size = b.size
          /\ r.bm.bit = [b.bit EXCEPT ![p] = choice[v]]
          /\ IsFile(r.bmi) /\ r.bmi.size = m.size
          /\ r.bmi.bit = [m.bit EXCEPT ![p] = 1]
      BY <1>1, <2>2, <2>3, StoreIsFile
    <2>5. ASSUME NEW j \in 1..blockSize
          PROVE  /\ r.bmi.bit[blockSize + j - 1] = 1 <=> j <= Len(t)
                 /\ j <= Len(t) =>
                      r.bm.bit[blockSize + j - 1] = choice[t[j]]
      <3>1. /\ blockSize + j - 1 \in DOMAIN b.bit
            /\ blockSize + j - 1 \in DOMAIN m.bit
        BY <1>1 DEF IsFile
      <3>2. CASE j = Len(s) + 1
        <4>1. blockSize + j - 1 = p  BY <1>0, <3>2
        <4> QED  BY <1>0, <2>4, <3>1, <3>2, <4>1
      <3>3. CASE j # Len(s) + 1
        <4>1. blockSize + j - 1 # p  BY <1>0, <3>3
        <4>2. /\ r.bmi.bit[blockSize + j - 1] = m.bit[blockSize + j - 1]
              /\ r.bm.bit[blockSize + j - 1] = b.bit[blockSize + j - 1]
          BY <2>4, <3>1, <4>1
        <4>3. j <= Len(t) <=> j <= Len(s)  BY <1>0, <3>3
        <4> QED  BY <1>0, <4>2, <4>3 DEF MarksOf, VotesOf
      <3> QED  BY <3>2, <3>3
    <2> QED  BY <1>1, <2>4, <2>5 DEF MarksOf, VotesOf
  <1>3. CASE Free(m) = {}
    <2> DEFINE o == Overflow(b, m)
               q == 2 * blockSize
    <2>1. blockSize <= Len(s)  BY <1>1, <1>3, FirstFreeIsNext
    <2>2. q \in 0..(b.size - 1) /\ q \in 0..(m.size - 1)
      BY <1>1, <1>3 DEF Fits
    <2>3. /\ IsFile(o.bm) /\ o.bm.size = b.size
          /\ IsFile(o.bmi) /\ o.bmi.size = m.size
          /\ \A p \in Block(1) : o.bm.bit[p] = b.bit[p] /\ o.bmi.bit[p] = m.bit[p]
      BY <1>1, OverflowKeepsBlock1
    <2>4. r.bm = Store(o.bm, q, choice[v]) /\ r.bmi = Store(o.bmi, q, 1)
      BY <1>3 DEF AddBit
    <2> HIDE DEF r, o
    <2>5. /\ IsFile(r.bm) /\ r.bm.size = b.size
          /\ r.bm.bit = [o.bm.bit EXCEPT ![q] = choice[v]]
          /\ IsFile(r.bmi) /\ r.bmi.size = m.size
          /\ r.bmi.bit = [o.bmi.bit EXCEPT ![q] = 1]
      BY <1>1, <2>2, <2>3, <2>4, StoreIsFile
    <2>6. ASSUME NEW j \in 1..blockSize
          PROVE  /\ r.bmi.bit[blockSize + j - 1] = 1 <=> j <= Len(t)
                 /\ j <= Len(t) =>
                      r.bm.bit[blockSize + j - 1] = choice[t[j]]
      <3>1. /\ blockSize + j - 1 \in Block(1)
            /\ blockSize + j - 1 # q
            /\ blockSize + j - 1 \in 0..(b.size - 1)
            /\ blockSize + j - 1 \in 0..(m.size - 1)
        BY <1>1 DEF Block
      <3>2. /\ blockSize + j - 1 \in DOMAIN o.bm.bit
            /\ blockSize + j - 1 \in DOMAIN o.bmi.bit
        BY <2>3, <3>1 DEF IsFile
      <3>3. /\ r.bmi.bit[blockSize + j - 1] = m.bit[blockSize + j - 1]
            /\ r.bm.bit[blockSize + j - 1] = b.bit[blockSize + j - 1]
        BY <2>3, <2>5, <3>1, <3>2
      <3>4. j <= Len(s) /\ j <= Len(t)  BY <1>0, <2>1
      <3> QED  BY <1>0, <3>3, <3>4 DEF MarksOf, VotesOf
    <2>7. r.bm.size >= 2 * blockSize /\ r.bmi.size >= 2 * blockSize
      BY <1>1, <2>5
    <2>8. VotesOf(r.bm, t) /\ MarksOf(r.bmi, t)
      BY <2>6 DEF MarksOf, VotesOf
    <2> QED  BY <2>5, <2>7, <2>8 DEF r
  <1> QED  BY <1>2, <1>3

-----------------------------------------------------------------------------
(* Type correctness.                                                       *)

LEMMA TypeInit == Init => TypeOK
  <1> SUFFICES ASSUME Init PROVE TypeOK  OBVIOUS
  <1>1. IsFile(bm) /\ IsFile(bmi) /\ IsFile(Emptied)
    BY ZerosIsFile DEF Init, Emptied
  <1>2. mutex = {v \in Voters : pc[v] \in Writing}
    BY DEF Init, Writing
  <1> QED  BY <1>1, <1>2 DEF Init, TypeOK, Stages

\* What AddBit reads are files, whether they exist or not.
LEMMA ReadIsFile == ASSUME NEW f, IsFile(f) PROVE IsFile(Read(f))
  BY ZerosIsFile DEF Read

\* What AddBit reads of the files when it fits holds the votes saved so far.
LEMMA ReadHoldsCast ==
    ASSUME IInv, Fits(Read(bm), Read(bmi))
    PROVE  /\ IsFile(Read(bm)) /\ IsFile(Read(bmi))
           /\ VotesOf(Read(bm), cast) /\ MarksOf(Read(bmi), cast)
  <1> USE BlockAssumption
  <1>1. IsFile(Read(bm)) /\ IsFile(Read(bmi))
    BY ReadIsFile DEF IInv, TypeOK
  <1>2. bm.size \in Int /\ bmi.size \in Int
    BY DEF IInv, TypeOK, IsFile
  <1>3. VotesOf(Read(bm), cast)
    <2>1. CASE bm.size = -1
      <3>1. cast = <<>>  BY <2>1 DEF IInv, MissingMeansNone
      <3> QED  BY <3>1 DEF VotesOf
    <2>2. CASE bm.size # -1
      <3>1. Read(bm) = bm  BY <2>2 DEF Read
      <3> QED  BY <3>1 DEF IInv, VotesExact, Fits
    <2> QED  BY <2>1, <2>2
  <1>4. MarksOf(Read(bmi), cast)
    <2>1. CASE bmi.size = -1
      <3>1. cast = <<>>  BY <2>1 DEF IInv, MissingMeansNone
      <3>2. Read(bmi) = Zeros(4 * blockSize)  BY <2>1 DEF Read
      <3>3. \A j \in 1..blockSize : Read(bmi).bit[blockSize + j - 1] = 0
        BY <3>2 DEF Zeros, File
      <3>4. Len(cast) = 0  BY <3>1
      <3> QED  BY <3>3, <3>4 DEF MarksOf
    <2>2. CASE bmi.size # -1
      <3>1. Read(bmi) = bmi  BY <2>2 DEF Read
      <3>2. 2 * blockSize <= bmi.size
        BY <1>1, <1>2, <3>1 DEF Fits, IsFile
      <3> QED  BY <3>1, <3>2, <1>2 DEF IInv, MarksExact
    <2> QED  BY <2>1, <2>2
  <1> QED  BY <1>1, <1>3, <1>4

-----------------------------------------------------------------------------
(* The invariant.                                                          *)

LEMMA InvInit == Init => IInv
  <1> SUFFICES ASSUME Init PROVE IInv  OBVIOUS
  <1>1. TypeOK  BY TypeInit
  <1>2. bm = bmi /\ cast = <<>> /\ Len(cast) = 0 /\ mutex = {}
    BY DEF Init
  <1>3. MarksExact
    <2>1. CASE bm = Zeros(2 * blockSize)
      <3>1. bmi = Zeros(2 * blockSize)  BY <1>2, <2>1
      <3>2. \A j \in 1..blockSize : bmi.bit[blockSize + j - 1] = 0
        BY <3>1, BlockAssumption DEF Zeros, File
      <3> QED  BY <1>2, <3>2 DEF MarksExact, MarksOf
    <2>2. CASE bm = Missing
      BY <1>2, <2>2, BlockAssumption DEF MarksExact, Missing, File
    <2> QED  BY <2>1, <2>2 DEF Init
  <1>4. VotesExact  BY <1>2 DEF VotesExact, VotesOf
  <1> QED
    BY <1>1, <1>2, <1>3, <1>4 DEF IInv, MissingMeansNone, Prepared, Written

\* The part of TypeOK about the mutex, when a vote moves to another stage.
LEMMA MutexMoves ==
    ASSUME TypeOK, NEW v \in Voters, NEW label \in Stages, Goto(v, label)
    PROVE  /\ pc' \in [Voters -> Stages]
           /\ label \in Writing <=> v \in {u \in Voters : pc'[u] \in Writing}
           /\ {u \in Voters : pc'[u] \in Writing} \ {v} = mutex \ {v}
  BY DEF TypeOK, Goto

LEMMA InvStep == IInv /\ [Next]_vars => IInv'
  <1> SUFFICES ASSUME IInv, [Next]_vars PROVE IInv'  OBVIOUS
  <1> USE BlockAssumption
  <1>t. TypeOK  BY DEF IInv
  <1>e. IsFile(Emptied) /\ Emptied.size = 0
    BY ZerosIsFile DEF Emptied
  <1>s. cast \in Seq(Voters)  BY <1>t DEF TypeOK
  \* Steps that leave the files, the mutex and what is cast alone.
  <1>1. ASSUME UNCHANGED <<files, choice, mutex, mem, cast>>,
               pc' \in [Voters -> Stages],
               {u \in Voters : pc'[u] \in Writing} = mutex,
               \A u \in mutex : pc'[u] = pc[u],
               \A u \in Voters : IsFile(read'[u])
        PROVE  IInv'
    <2>1. TypeOK'  BY <1>1, <1>t DEF TypeOK, files
    <2>2. MissingMeansNone' /\ VotesExact' /\ MarksExact' /\ Prepared' /\ Written'
      BY <1>1 DEF IInv, MissingMeansNone, VotesExact, MarksExact, Prepared,
                  Written, VotesOf, MarksOf, files
    <2> QED  BY <2>1, <2>2 DEF IInv
  <1>2. ASSUME NEW v \in Voters, Place(v) PROVE IInv'
    <2> DEFINE b == Read(bm)
               m == Read(bmi)
    <2>1. /\ Fits(b, m) /\ mem' = AddBit(b, m, choice[v]) /\ mutex' = {v}
          /\ mutex = {} /\ Goto(v, "emptybm")
          /\ UNCHANGED <<files, choice, read, answer, cast>>
      BY <1>2 DEF Place
    <2>2. /\ IsFile(b) /\ IsFile(m) /\ VotesOf(b, cast) /\ MarksOf(m, cast)
      BY <2>1, ReadHoldsCast
    <2>3. /\ IsFile(mem'.bm) /\ IsFile(mem'.bmi)
          /\ mem'.bm.size >= 2 * blockSize /\ mem'.bmi.size >= 2 * blockSize
          /\ VotesOf(mem'.bm, Append(cast, v)) /\ MarksOf(mem'.bmi, Append(cast, v))
      BY <1>s, <1>t, <2>1, <2>2, AddBitAppends
    <2>4. pc' \in [Voters -> Stages] /\ mutex' = {u \in Voters : pc'[u] \in Writing}
      BY <1>t, <2>1, MutexMoves DEF Stages, Writing
    <2>5. TypeOK'  BY <1>t, <2>1, <2>3, <2>4 DEF TypeOK, files
    <2>6. Prepared'
      BY <2>1, <2>3 DEF Prepared, VotesOf, MarksOf
    <2>7. Written'
      BY <1>t, <2>1 DEF Written, Goto, TypeOK
    <2>8. MissingMeansNone' /\ VotesExact' /\ MarksExact'
      BY <2>1 DEF IInv, MissingMeansNone, VotesExact, MarksExact, VotesOf,
                  MarksOf, files
    <2> QED  BY <2>5, <2>6, <2>7, <2>8 DEF IInv
  \* The holder of the mutex writes the files.
  <1>3. ASSUME NEW v \in Voters, pc[v] \in Writing
        PROVE  /\ mutex = {v}
               /\ mem.bm.size >= 2 * blockSize /\ mem.bmi.size >= 2 * blockSize
               /\ VotesOf(mem.bm, Append(cast, v))
               /\ MarksOf(mem.bmi, Append(cast, v))
               /\ VotesOf(mem.bm, cast)
               /\ pc[v] \in {"emptybmi", "writebmi"} => bm = mem.bm
    <2>1. mutex = {v}  BY <1>3, <1>t DEF TypeOK
    <2>2. /\ mem.bm.size >= 2 * blockSize /\ mem.bmi.size >= 2 * blockSize
          /\ VotesOf(mem.bm, Append(cast, v))
          /\ MarksOf(mem.bmi, Append(cast, v))
      BY <2>1 DEF IInv, Prepared
    <2>3. VotesOf(mem.bm, cast)
      <3>1. /\ Len(cast) \in Nat /\ Len(Append(cast, v)) = Len(cast) + 1
            /\ \A j \in 1..Len(cast) : Append(cast, v)[j] = cast[j]
        BY <1>s
      <3> QED  BY <2>2, <3>1 DEF VotesOf
    <2> QED  BY <2>1, <2>2, <2>3 DEF IInv, Written
  <1>4. ASSUME NEW v \in Voters, EmptyBm(v) PROVE IInv'
    <2>1. /\ pc[v] = "emptybm" /\ bm' = Emptied /\ Goto(v, "writebm")
          /\ UNCHANGED <<bmi, choice, mutex, mem, read, answer, cast>>
      BY <1>4 DEF EmptyBm
    <2>2. mutex = {v}  BY <1>3, <2>1 DEF Writing
    <2>3. TypeOK'
      BY <1>t, <1>e, <2>1, <2>2, MutexMoves DEF TypeOK, Stages, Writing
    <2>4. MissingMeansNone' /\ VotesExact' /\ MarksExact' /\ Prepared'
      BY <1>e, <2>1 DEF IInv, MissingMeansNone, VotesExact, MarksExact,
                        Prepared, VotesOf, MarksOf
    <2>5. Written'  BY <1>t, <2>1, <2>2 DEF Written, Goto, TypeOK
    <2> QED  BY <2>3, <2>4, <2>5 DEF IInv
  <1>5. ASSUME NEW v \in Voters, WriteBm(v) PROVE IInv'
    <2>1. /\ pc[v] = "writebm" /\ bm' = mem.bm /\ Goto(v, "emptybmi")
          /\ UNCHANGED <<bmi, choice, mutex, mem, read, answer, cast>>
      BY <1>5 DEF WriteBm
    <2>2. mutex = {v} /\ mem.bm.size >= 2 * blockSize /\ VotesOf(mem.bm, cast)
      BY <1>3, <2>1 DEF Writing
    <2>3. TypeOK'
      BY <1>t, <2>1, <2>2, MutexMoves DEF TypeOK, Stages, Writing
    <2>4. mem.bm.size # -1  BY <2>2
    <2>5. MissingMeansNone' /\ VotesExact' /\ MarksExact' /\ Prepared'
      BY <2>1, <2>2, <2>4 DEF IInv, MissingMeansNone, VotesExact, MarksExact,
                        Prepared, VotesOf, MarksOf
    <2>6. Written'  BY <2>1 DEF Written
    <2> QED  BY <2>3, <2>5, <2>6 DEF IInv
  <1>6. ASSUME NEW v \in Voters, EmptyBmi(v) PROVE IInv'
    <2>1. /\ pc[v] = "emptybmi" /\ bmi' = Emptied /\ Goto(v, "writebmi")
          /\ UNCHANGED <<bm, choice, mutex, mem, read, answer, cast>>
      BY <1>6 DEF EmptyBmi
    <2>2. mutex = {v} /\ bm = mem.bm  BY <1>3, <2>1 DEF Writing
    <2>3. TypeOK'
      BY <1>t, <1>e, <2>1, <2>2, MutexMoves DEF TypeOK, Stages, Writing
    <2>4. MissingMeansNone' /\ VotesExact' /\ MarksExact' /\ Prepared'
      BY <1>e, <2>1 DEF IInv, MissingMeansNone, VotesExact, MarksExact,
                        Prepared, VotesOf, MarksOf
    <2>5. Written'  BY <2>1, <2>2 DEF Written
    <2> QED  BY <2>3, <2>4, <2>5 DEF IInv
  <1>7. ASSUME NEW v \in Voters, WriteBmi(v) PROVE IInv'
    <2>1. /\ pc[v] = "writebmi" /\ bmi' = mem.bmi /\ cast' = Append(cast, v)
          /\ mutex' = {} /\ mem' = [bm |-> Emptied, bmi |-> Emptied]
          /\ Goto(v, "commit") /\ UNCHANGED <<bm, choice, read, answer>>
      BY <1>7 DEF WriteBmi
    <2>2. /\ mutex = {v} /\ bm = mem.bm
          /\ mem.bm.size >= 2 * blockSize /\ mem.bmi.size >= 2 * blockSize
          /\ VotesOf(mem.bm, Append(cast, v)) /\ MarksOf(mem.bmi, Append(cast, v))
      BY <1>3, <2>1 DEF Writing
    <2>3. pc' \in [Voters -> Stages] /\ {u \in Voters : pc'[u] \in Writing} = {}
      BY <1>t, <2>1, <2>2, MutexMoves DEF Stages, Writing
    <2>4. cast' \in Seq(Voters)  BY <1>s, <2>1
    <2>5. TypeOK'
      BY <1>t, <1>e, <2>1, <2>3, <2>4 DEF TypeOK
    <2>6. bm'.size # -1 /\ bmi'.size # -1  BY <2>1, <2>2
    <2>7. MissingMeansNone' /\ VotesExact' /\ MarksExact'
      BY <2>1, <2>2, <2>6 DEF MissingMeansNone, VotesExact, MarksExact,
                              VotesOf, MarksOf
    <2>8. Prepared' /\ Written'  BY <2>1 DEF Prepared, Written
    <2> QED  BY <2>5, <2>7, <2>8 DEF IInv
  <1>8. ASSUME NEW v \in Voters,
               PlacePanics(v) \/ ReadFails(v) \/ Commit(v) \/ ReadBm(v) \/ Answer(v)
        PROVE  IInv'
    <2>1. /\ pc[v] \notin Writing
          /\ \E label \in Stages \ Writing : Goto(v, label)
          /\ UNCHANGED <<files, choice, mutex, mem, cast>>
      BY <1>8 DEF PlacePanics, ReadFails, Commit, ReadBm, Answer, Stages, Writing
    <2>2. /\ pc' \in [Voters -> Stages]
          /\ {u \in Voters : pc'[u] \in Writing} = mutex
          /\ \A u \in mutex : pc'[u] = pc[u]
      BY <1>t, <2>1 DEF TypeOK, Goto
    <2>3. \A u \in Voters : IsFile(read'[u])
      <3>1. CASE read' = read  BY <3>1, <1>t DEF TypeOK
      <3>2. CASE read' = [read EXCEPT ![v] = Read(bm)]
        BY <3>2, <1>t, ReadIsFile DEF TypeOK
      <3>3. CASE read' = [read EXCEPT ![v] = Emptied]
        BY <3>3, <1>t, <1>e DEF TypeOK
      <3> QED
        BY <1>8, <3>1, <3>2, <3>3 DEF PlacePanics, ReadFails, Commit, ReadBm, Answer
    <2> QED  BY <1>1, <2>1, <2>2, <2>3
  <1>9. ASSUME Crash PROVE IInv'
    <2>1. /\ mutex' = {} /\ mem' = [bm |-> Emptied, bmi |-> Emptied]
          /\ read' = [v \in Voters |-> Emptied]
          /\ pc' = [v \in Voters |->
                      IF pc[v] \in {"idle", "answered"} THEN pc[v] ELSE "failed"]
          /\ UNCHANGED <<files, choice, answer, cast>>
      BY <1>9 DEF Crash
    <2>2. pc' \in [Voters -> Stages] /\ {u \in Voters : pc'[u] \in Writing} = {}
      BY <2>1 DEF Stages, Writing
    <2>3. TypeOK'  BY <1>t, <1>e, <2>1, <2>2 DEF TypeOK, files
    <2>4. MissingMeansNone' /\ VotesExact' /\ MarksExact' /\ Prepared' /\ Written'
      BY <2>1 DEF IInv, MissingMeansNone, VotesExact, MarksExact, Prepared,
                  Written, VotesOf, MarksOf, files
    <2> QED  BY <2>3, <2>4 DEF IInv
  <1>10. CASE UNCHANGED vars
    BY <1>1, <1>10, <1>t DEF vars, files, TypeOK
  <1>11. ASSUME NEW v \in Voters, WriteFails(v) PROVE IInv'
    <2>1. /\ pc[v] \in Writing /\ mutex' = {} /\ mem' = [bm |-> Emptied, bmi |-> Emptied]
          /\ Goto(v, "failed") /\ UNCHANGED <<files, choice, read, answer, cast>>
      BY <1>11 DEF WriteFails, Writing
    <2>2. mutex = {v}  BY <1>3, <2>1
    <2>3. pc' \in [Voters -> Stages] /\ {u \in Voters : pc'[u] \in Writing} = {}
      BY <1>t, <2>1, <2>2, MutexMoves DEF Stages, Writing
    <2>4. TypeOK'  BY <1>t, <1>e, <2>1, <2>3 DEF TypeOK, files
    <2>5. MissingMeansNone' /\ VotesExact' /\ MarksExact' /\ Prepared' /\ Written'
      BY <2>1 DEF IInv, MissingMeansNone, VotesExact, MarksExact, Prepared,
                  Written, VotesOf, MarksOf, files
    <2> QED  BY <2>4, <2>5 DEF IInv
  <1> QED
    BY <1>2, <1>4, <1>5, <1>6, <1>7, <1>8, <1>9, <1>10, <1>11
       DEF Next, Step, AllVoted

\* The invariant holds in every reachable state.
THEOREM Invariance == Spec => []IInv
  BY InvInit, InvStep, PTL DEF Spec

\* Every state of the bitmaps and the votes is well typed; at most one vote
\* at a time writes the files.
THEOREM TypeCorrect == Spec => []TypeOK
  <1>1. IInv => TypeOK  BY DEF IInv
  <1> QED  BY Invariance, <1>1, PTL

\* AddBit under BitmapService.mu never loses, repeats or alters a vote of the
\* first blockSize, and a crash or a failing write loses at most the vote being
\* written.
THEOREM VotesAreKept == Spec => []TallyExact
  <1>1. IInv => TallyExact
    BY DEF IInv, TallyExact, Intact, VotesExact, MarksExact
  <1> QED  BY Invariance, <1>1, PTL

-----------------------------------------------------------------------------
(* Counting positions.                                                     *)

\* As many positions as votes, wherever the block begins.
LEMMA ShiftKeepsCount ==
    ASSUME NEW S \in SUBSET Int, IsFiniteSet(S), NEW k \in Int
    PROVE  /\ IsFiniteSet({k + j : j \in S})
           /\ Cardinality({k + j : j \in S}) = Cardinality(S)
  <1> DEFINE T == {k + j : j \in S}
             f == [j \in S |-> k + j]
  <1>1. f \in [S -> T]  OBVIOUS
  <1>2. \A t \in T : \E j \in S : f[j] = t  OBVIOUS
  <1>3. \A i, j \in S : f[i] = f[j] => i = j  OBVIOUS
  <1>4. f \in Bijection(S, T)
    BY <1>1, <1>2, <1>3 DEF Bijection, Injection, Surjection, IsInjective
  <1>5. ExistsBijection(S, T)
    BY <1>4 DEF ExistsBijection
  <1> QED  BY <1>5, FS_Bijection

\* The votes of s that are counted, and those among them that are credible.
Within(s)      == IF Len(s) <= blockSize THEN Len(s) ELSE blockSize
Credibles(s, n) == {j \in 1..n : choice[s[j]] = 1}

LEMMA CrediblesAreFinite ==
    ASSUME NEW s, NEW n \in Nat
    PROVE  /\ IsFiniteSet(Credibles(s, n)) /\ Cardinality(Credibles(s, n)) \in Nat
           /\ Credibles(s, n) \in SUBSET Int
  <1>1. IsFiniteSet(1..n)  BY FS_Interval
  <1>2. IsFiniteSet(Credibles(s, n))
    BY <1>1, FS_Subset DEF Credibles
  <1> QED  BY <1>2, FS_CardinalityType DEF Credibles

LEMMA CrediblesGrow ==
    ASSUME NEW s, NEW n \in Nat, NEW k \in Nat, k <= n
    PROVE  Cardinality(Credibles(s, k)) <= Cardinality(Credibles(s, n))
  <1>1. Credibles(s, k) \in SUBSET Credibles(s, n)  BY DEF Credibles
  <1> QED  BY <1>1, CrediblesAreFinite, FS_Subset

\* The positions of block 1 that are marked are those of the counted votes.
LEMMA MarkedPositions ==
    ASSUME NEW m, IsFile(m), m.size >= 2 * blockSize,
           NEW s \in Seq(Voters), MarksOf(m, s)
    PROVE  {p \in Block(1) : Marked(m, p)} = {(blockSize - 1) + j : j \in 1..Within(s)}
  <1> USE BlockAssumption
  <1>1. Len(s) \in Nat /\ m.size \in Int  BY DEF IsFile
  <1>2. ASSUME NEW p \in Block(1)
        PROVE  /\ p - (blockSize - 1) \in 1..blockSize /\ p < m.size
               /\ Marked(m, p) <=> p - (blockSize - 1) <= Len(s)
    <2>1. p - (blockSize - 1) \in 1..blockSize /\ p < m.size
          /\ blockSize + (p - (blockSize - 1)) - 1 = p
      BY <1>1 DEF Block
    <2> QED  BY <2>1 DEF MarksOf, Marked
  <1>3. ASSUME NEW p \in Block(1), Marked(m, p)
        PROVE  \E j \in 1..Within(s) : p = (blockSize - 1) + j
    <2>1. p - (blockSize - 1) \in 1..Within(s) /\ p = (blockSize - 1) + (p - (blockSize - 1))
      BY <1>1, <1>2, <1>3 DEF Within, Block
    <2> QED  BY <2>1
  <1>4. ASSUME NEW j \in 1..Within(s)
        PROVE  (blockSize - 1) + j \in Block(1) /\ Marked(m, (blockSize - 1) + j)
    <2>1. (blockSize - 1) + j \in Block(1) /\ j <= Len(s)
      BY <1>1 DEF Within, Block
    <2> QED  BY <1>1, <1>2, <2>1
  <1> QED  BY <1>3, <1>4

\* The marks of block 1 count the votes, up to its size.
LEMMA MarkedCount ==
    ASSUME NEW m, IsFile(m), m.size >= 2 * blockSize,
           NEW s \in Seq(Voters), MarksOf(m, s)
    PROVE  /\ IsFiniteSet({p \in Block(1) : Marked(m, p)})
           /\ Cardinality({p \in Block(1) : Marked(m, p)}) = Within(s)
  <1> USE BlockAssumption
  <1>1. Within(s) \in Nat  BY DEF Within
  <1>2. IsFiniteSet(1..Within(s)) /\ Cardinality(1..Within(s)) = Within(s)
    BY <1>1, FS_Interval
  <1>3. (1..Within(s)) \in SUBSET Int /\ blockSize - 1 \in Int  BY <1>1
  <1> QED  BY <1>2, <1>3, MarkedPositions, ShiftKeepsCount

\* Of the marked votes, those that are credible in another file lie between
\* the credible ones of two numbers of votes, if that file has at least those
\* of the first and at most those of the second and some others.
AtLeast(b, s, n) == \A j \in 1..blockSize : j <= n => b.bit[blockSize + j - 1] = choice[s[j]]

CredibleMarks(b, m) == {p \in Block(1) : Marked(m, p) /\ Marked(b, p)}

LEMMA CredibleAtLeast ==
    ASSUME NEW m, IsFile(m), m.size >= 2 * blockSize, NEW b, IsFile(b), b.size >= 2 * blockSize,
           NEW s \in Seq(Voters), MarksOf(m, s), NEW n \in 0..Within(s), AtLeast(b, s, n)
    PROVE  Cardinality(Credibles(s, n)) <= Cardinality(CredibleMarks(b, m))
  <1> USE BlockAssumption
  <1> DEFINE k == blockSize - 1
             T == {k + j : j \in Credibles(s, n)}
  <1>1. Within(s) \in Nat /\ n \in Nat /\ n <= blockSize /\ k \in Int /\ b.size \in Int
    BY DEF Within, IsFile
  <1>2. IsFiniteSet(Credibles(s, n)) /\ Credibles(s, n) \in SUBSET Int
    BY <1>1, CrediblesAreFinite
  <1>3. Cardinality(T) = Cardinality(Credibles(s, n))
    BY <1>1, <1>2, ShiftKeepsCount
  <1>4. ASSUME NEW j \in Credibles(s, n)
        PROVE  k + j \in CredibleMarks(b, m)
    <2>1. j \in 1..Within(s) /\ j \in 1..blockSize /\ j <= n /\ choice[s[j]] = 1
      BY <1>1 DEF Credibles
    <2>2. k + j \in {p \in Block(1) : Marked(m, p)}
      BY <2>1, MarkedPositions
    <2>3. b.bit[blockSize + j - 1] = 1 /\ blockSize + j - 1 = k + j /\ k + j < b.size
      BY <1>1, <2>1 DEF AtLeast
    <2> QED  BY <2>2, <2>3 DEF CredibleMarks, Marked
  <1>5. IsFiniteSet(CredibleMarks(b, m))
    BY MarkedCount, FS_Subset DEF CredibleMarks
  <1>6. T \in SUBSET CredibleMarks(b, m)  BY <1>4
  <1> QED  BY <1>3, <1>5, <1>6, FS_Subset

LEMMA CredibleAtMost ==
    ASSUME NEW m, IsFile(m), m.size >= 2 * blockSize, NEW b, IsFile(b),
           NEW s \in Seq(Voters), MarksOf(m, s), NEW X \in SUBSET Int, IsFiniteSet(X),
           \A j \in 1..Within(s) : b.bit[blockSize + j - 1] = 1 => choice[s[j]] = 1 \/ j \in X
    PROVE  /\ Cardinality(CredibleMarks(b, m)) <= Cardinality(Credibles(s, Within(s)) \cup X)
           /\ Cardinality(CredibleMarks(b, m)) \in Nat
  <1> USE BlockAssumption
  <1> DEFINE k == blockSize - 1
             Y == Credibles(s, Within(s)) \cup X
             T == {k + j : j \in Y}
  <1>1. Within(s) \in Nat /\ k \in Int
    BY DEF Within
  <1>2. IsFiniteSet(Y) /\ Y \in SUBSET Int
    BY <1>1, CrediblesAreFinite, FS_Union
  <1>3. IsFiniteSet(T) /\ Cardinality(T) = Cardinality(Y)
    <2> HIDE DEF Y
    <2> QED  BY <1>1, <1>2, ShiftKeepsCount
  <1>4. ASSUME NEW p \in CredibleMarks(b, m)
        PROVE  p \in T
    <2>1. p \in {q \in Block(1) : Marked(m, q)} /\ b.bit[p] = 1
      BY DEF CredibleMarks, Marked
    <2>2. PICK j \in 1..Within(s) : p = k + j
      BY <2>1, MarkedPositions
    <2>3. blockSize + j - 1 = p  BY <1>1, <2>2
    <2>4. j \in Y
      BY <1>1, <2>1, <2>2, <2>3 DEF Credibles
    <2> QED  BY <2>2, <2>4
  <1>5. CredibleMarks(b, m) \in SUBSET T  BY <1>4
  <1>6. IsFiniteSet(CredibleMarks(b, m)) /\ Cardinality(CredibleMarks(b, m)) <= Cardinality(T)
    BY <1>3, <1>5, FS_Subset
  <1> QED  BY <1>3, <1>6, FS_CardinalityType

\* What the statistics of a record with the votes s are.
Tallied(s) == [credible |-> Cardinality(Credibles(s, Within(s))), total |-> Within(s)]

\* Without marks in block 0 the statistics are those of block 1.
LEMMA StatsOfBlock1 ==
    ASSUME NEW b, NEW m, \A p \in Block(0) : m.bit[p] = 0
    PROVE  GetStats(b, m) = [credible |-> Cardinality(CredibleMarks(b, m)),
                             total    |-> Cardinality({p \in Block(1) : Marked(m, p)})]
  <1>1. {p \in Block(0) : Marked(m, p)} = {}  BY DEF Marked
  <1>2. Tally(b, m, Block(0)).total = 0  BY <1>1, FS_EmptySet DEF Tally
  <1>3. ~(Tally(b, m, Block(0)).total > 0)  BY <1>2
  <1> QED  BY <1>3 DEF GetStats, Tally, CredibleMarks

\* Two whole files are read without a panic, and count exactly the votes.
LEMMA StatsAreExact ==
    ASSUME NEW m, IsFile(m), m.size >= 2 * blockSize, NEW b, IsFile(b), b.size >= 2 * blockSize,
           NEW s \in Seq(Voters), MarksOf(m, s), VotesOf(b, s), \A p \in Block(0) : m.bit[p] = 0
    PROVE  ~StatsPanic(b, m) /\ GetStats(b, m) = Tallied(s)
  <1> USE BlockAssumption
  <1>1. /\ Within(s) \in Nat /\ Within(s) \in 0..Within(s) /\ Within(s) <= Len(s)
        /\ Within(s) <= blockSize /\ m.size \in Int /\ b.size \in Int
    BY DEF Within, IsFile
  <1>2. AtLeast(b, s, Within(s))
    BY <1>1 DEF VotesOf, AtLeast
  <1>3. \A j \in 1..Within(s) : b.bit[blockSize + j - 1] = 1 => choice[s[j]] = 1
    BY <1>1 DEF VotesOf
  <1>4. Cardinality(CredibleMarks(b, m)) = Cardinality(Credibles(s, Within(s)))
    <2>1. Cardinality(Credibles(s, Within(s))) <= Cardinality(CredibleMarks(b, m))
      BY <1>1, <1>2, CredibleAtLeast
    <2>2. /\ Cardinality(CredibleMarks(b, m)) <= Cardinality(Credibles(s, Within(s)))
          /\ Cardinality(CredibleMarks(b, m)) \in Nat
      <3>1. IsFiniteSet({}) /\ {} \in SUBSET Int  BY FS_EmptySet
      <3>2. Credibles(s, Within(s)) \cup {} = Credibles(s, Within(s))  OBVIOUS
      <3> QED  BY <1>3, <3>1, <3>2, CredibleAtMost
    <2>3. Cardinality(Credibles(s, Within(s))) \in Nat  BY <1>1, CrediblesAreFinite
    <2> QED  BY <2>1, <2>2, <2>3
  <1>5. GetStats(b, m) = Tallied(s)
    BY <1>4, MarkedCount, StatsOfBlock1 DEF Tallied
  <1>6. ~StatsPanic(b, m)  BY <1>1 DEF StatsPanic
  <1> QED  BY <1>5, <1>6

-----------------------------------------------------------------------------
(* Where marks can be.                                                     *)

\* Block 0 has none; the overflow block has none until block 1 is full, and
\* then one, because two would be needed to keep it (blockSize >= 3).
Confined(m, s) ==
    /\ \A p \in Block(0) : m.bit[p] = 0
    /\ Len(s) > blockSize => m.size > 2 * blockSize
    /\ \A p \in (2 * blockSize)..(m.size - 1) :
          /\ Len(s) <= blockSize => m.bit[p] = 0
          /\ Len(s) > blockSize /\ blockSize >= 3 => (m.bit[p] = 1 <=> p = 2 * blockSize)

MarksConfined ==
    /\ bmi.size >= 2 * blockSize => Confined(bmi, cast)
    /\ \A v \in mutex : Confined(mem.bmi, Append(cast, v))

\* A file without marks.
LEMMA ZerosAreConfined ==
    ASSUME NEW s, Len(s) = 0
    PROVE  Confined(Zeros(4 * blockSize), s) /\ Confined(Zeros(2 * blockSize), s)
  BY BlockAssumption DEF Confined, Zeros, File, Block

\* The overflow block is cleared when a further vote comes.
LEMMA OverflowIsCleared ==
    ASSUME NEW b, NEW m, IsFile(b), IsFile(m), NEW s \in Seq(Voters),
           3 * blockSize <= m.size, 3 * blockSize <= b.size,
           blockSize <= Len(s), blockSize >= 3, Confined(m, s)
    PROVE  Overflow(b, m).bmi = File(m.size, [p \in DOMAIN m.bit |->
                     IF p \in Block(2) THEN 0 ELSE m.bit[p]])
  <1> USE BlockAssumption
  <1> DEFINE S == {p \in Block(2) : m.bit[p] = 1 /\ b.bit[p] = 1}
  <1>1. m.size \in Int /\ Len(s) \in Nat  BY DEF IsFile
  <1>2. \A p \in Block(2) : p \in (2 * blockSize)..(m.size - 1)
    BY <1>1 DEF Block
  <1>3. S \in SUBSET {2 * blockSize}
    BY <1>1, <1>2 DEF Confined
  <1>4. Cardinality(S) <= 1 /\ Cardinality(S) \in Nat
    <2> DEFINE T == {2 * blockSize}
    <2>1. IsFiniteSet(T) /\ Cardinality(T) = 1  BY FS_Singleton
    <2>2. S \in SUBSET T  BY <1>3
    <2> HIDE DEF S, T
    <2> QED  BY <2>1, <2>2, FS_Subset, FS_CardinalityType
  <1>5. Threshold >= 2 /\ Threshold \in Int
    BY DEF Threshold
  <1>6. ~(Credible(b, m, Block(2)) >= Threshold)
    BY <1>4, <1>5 DEF Credible
  <1> QED  BY <1>6 DEF Overflow

\* Overflow changes the overflow block only.
LEMMA OverflowKeepsRest ==
    ASSUME NEW b, NEW m, IsFile(b), IsFile(m)
    PROVE  /\ Overflow(b, m).bm.size = b.size /\ Overflow(b, m).bmi.size = m.size
           /\ \A p \in (0..(m.size - 1)) \ Block(2) : Overflow(b, m).bmi.bit[p] = m.bit[p]
           /\ \A p \in (0..(b.size - 1)) \ Block(2) : Overflow(b, m).bm.bit[p] = b.bit[p]
  <1>1. DOMAIN b.bit = 0..(b.size - 1) /\ DOMAIN m.bit = 0..(m.size - 1)
    BY DEF IsFile
  <1>2. CASE Credible(b, m, Block(2)) >= Threshold
    BY <1>1, <1>2 DEF Overflow, File
  <1>3. CASE ~(Credible(b, m, Block(2)) >= Threshold)
    BY <1>1, <1>3 DEF Overflow, File
  <1> QED  BY <1>2, <1>3

\* AddBit keeps the marks where they belong.
LEMMA AddBitConfines ==
    ASSUME TypeOK, NEW b, NEW m, IsFile(b), IsFile(m), Fits(b, m),
           NEW s \in Seq(Voters), NEW v \in Voters, MarksOf(m, s), Confined(m, s)
    PROVE  Confined(AddBit(b, m, choice[v]).bmi, Append(s, v))
  <1> USE BlockAssumption
  <1> DEFINE r == AddBit(b, m, choice[v])
             t == Append(s, v)
  <1>0. Len(s) \in Nat /\ Len(t) = Len(s) + 1
    OBVIOUS
  <1>1. /\ b.size \in Int /\ m.size \in Int /\ 1 \in Bits
        /\ b.size >= 2 * blockSize /\ m.size >= 2 * blockSize
    BY DEF Fits, IsFile, Bits
  <1>2. CASE Free(m) # {}
    <2> DEFINE p == blockSize + Len(s)
    <2>1. Len(s) < blockSize /\ FirstFree(m) = p
      BY <1>1, <1>2, FirstFreeIsNext
    <2>2. p \in 0..(m.size - 1)
      BY <1>0, <1>1, <2>1
    <2>3. r.bmi = Store(m, p, 1)
      BY <1>2, <2>1 DEF AddBit
    <2>4. r.bmi.size = m.size /\ r.bmi.bit = [m.bit EXCEPT ![p] = 1]
      BY <1>1, <2>2, <2>3, StoreIsFile
    <2>5. \A q \in 0..(m.size - 1) : q # p => r.bmi.bit[q] = m.bit[q]
      BY <2>4 DEF IsFile
    <2>6. \A q \in Block(0) : q \in 0..(m.size - 1) /\ q # p
      BY <1>0, <1>1 DEF Block
    <2>7. \A q \in (2 * blockSize)..(m.size - 1) : q \in 0..(m.size - 1) /\ q # p
      BY <1>0, <1>1, <2>1
    <2> QED  BY <1>0, <2>1, <2>4, <2>5, <2>6, <2>7 DEF Confined
  <1>3. CASE Free(m) = {}
    <2> DEFINE o == Overflow(b, m)
               q == 2 * blockSize
    <2>1. blockSize <= Len(s)  BY <1>1, <1>3, FirstFreeIsNext
    <2>2. q \in 0..(m.size - 1) /\ 3 * blockSize <= m.size /\ 3 * blockSize <= b.size
      BY <1>1, <1>3 DEF Fits
    <2>3. IsFile(o.bmi) /\ o.bmi.size = m.size
      BY <1>1, OverflowKeepsBlock1
    <2>4. r.bmi = Store(o.bmi, q, 1)
      BY <1>3 DEF AddBit
    <2>5. r.bmi.size = m.size /\ r.bmi.bit = [o.bmi.bit EXCEPT ![q] = 1]
      BY <1>1, <2>2, <2>3, <2>4, StoreIsFile
    <2>6. \A p \in 0..(m.size - 1) : r.bmi.bit[p] = IF p = q THEN 1 ELSE o.bmi.bit[p]
      BY <2>3, <2>5 DEF IsFile
    <2>7. \A p \in Block(0) : r.bmi.bit[p] = 0
      <3>1. \A p \in Block(0) : p \in (0..(m.size - 1)) \ Block(2) /\ p # q
        BY <1>1 DEF Block
      <3>2. \A p \in Block(0) : o.bmi.bit[p] = m.bit[p]
        BY <3>1, OverflowKeepsRest
      <3> QED  BY <2>6, <3>1, <3>2 DEF Confined
    <2>8. ASSUME blockSize >= 3, NEW p \in (2 * blockSize)..(m.size - 1)
          PROVE  r.bmi.bit[p] = 1 <=> p = q
      <3>1. p \in DOMAIN m.bit /\ p \in 0..(m.size - 1)
        BY <1>1, <2>8 DEF IsFile
      <3>2. o.bmi.bit[p] = IF p \in Block(2) THEN 0 ELSE m.bit[p]
        <4> DEFINE g == [x \in DOMAIN m.bit |-> IF x \in Block(2) THEN 0 ELSE m.bit[x]]
        <4>1. o.bmi = File(m.size, g)
          BY <2>1, <2>2, <2>8, OverflowIsCleared
        <4>2. o.bmi.bit = g  BY <4>1 DEF File
        <4> QED  BY <3>1, <4>2
      <3>3. p \notin Block(2) => p # q  BY DEF Block
      <3>4. p \notin Block(2) => m.bit[p] # 1
        BY <1>0, <2>1, <2>8, <3>3 DEF Confined
      <3> QED  BY <2>6, <3>1, <3>2, <3>4
    <2>9. ~(Len(t) <= blockSize) /\ m.size > 2 * blockSize  BY <1>0, <1>1, <2>1, <2>2
    <2> QED  BY <2>5, <2>7, <2>8, <2>9 DEF Confined
  <1> QED  BY <1>2, <1>3

\* A file that is not whole is missing, or was emptied.
LEMMA FilesAreWholeOrNot ==
    ASSUME NEW f, IsFile(f)
    PROVE  f.size \in Int /\ (f.size >= 2 * blockSize \/ f.size = 0 \/ f.size = -1)
  BY BlockAssumption DEF IsFile

LEMMA FilesAndCast ==
    ASSUME TypeOK
    PROVE  /\ IsFile(bm) /\ IsFile(bmi) /\ IsFile(Read(bm)) /\ IsFile(Read(bmi))
           /\ bm.size \in Int /\ bmi.size \in Int
           /\ cast \in Seq(Voters) /\ Len(cast) \in Nat
  <1>1. IsFile(bm) /\ IsFile(bmi) /\ cast \in Seq(Voters)  BY DEF TypeOK
  <1> QED  BY <1>1, ReadIsFile, FilesAreWholeOrNot

LEMMA ReadIsConfined ==
    ASSUME IInv, MarksConfined, Fits(Read(bm), Read(bmi))
    PROVE  Confined(Read(bmi), cast)
  <1>1. bmi.size \in Int /\ 2 * blockSize <= Read(bmi).size
    BY FilesAndCast DEF IInv, Fits
  <1>2. CASE bmi.size = -1
    <2>1. Len(cast) = 0  BY <1>2 DEF IInv, MissingMeansNone
    <2> QED  BY <1>2, <2>1, ZerosAreConfined DEF Read
  <1>3. CASE bmi.size # -1
    BY <1>1, <1>3, BlockAssumption DEF Read, MarksConfined
  <1> QED  BY <1>2, <1>3

LEMMA ConfinedInit == Init => MarksConfined
  <1> SUFFICES ASSUME Init PROVE MarksConfined  OBVIOUS
  <1>1. Len(cast) = 0 /\ mutex = {} /\ bmi \in {Zeros(2 * blockSize), Missing}
    BY DEF Init
  <1>2. CASE bmi = Missing
    BY <1>1, <1>2, BlockAssumption DEF MarksConfined, Missing, File
  <1>3. CASE bmi = Zeros(2 * blockSize)
    BY <1>1, <1>3, ZerosAreConfined DEF MarksConfined
  <1> QED  BY <1>1, <1>2, <1>3

LEMMA ConfinedStep == IInv /\ MarksConfined /\ [Next]_vars => MarksConfined'
  <1> SUFFICES ASSUME IInv, MarksConfined, [Next]_vars PROVE MarksConfined'
    OBVIOUS
  <1>1. ASSUME NEW v \in Voters, Place(v) PROVE MarksConfined'
    <2>1. /\ Fits(Read(bm), Read(bmi)) /\ mutex' = {v} /\ UNCHANGED <<bmi, cast>>
          /\ mem' = AddBit(Read(bm), Read(bmi), choice[v])
      BY <1>1 DEF Place, files
    <2>2. /\ IsFile(Read(bm)) /\ IsFile(Read(bmi)) /\ MarksOf(Read(bmi), cast)
          /\ Confined(Read(bmi), cast) /\ TypeOK /\ cast \in Seq(Voters)
      BY <2>1, ReadHoldsCast, ReadIsConfined DEF IInv, TypeOK
    <2>3. Confined(mem'.bmi, Append(cast, v))
      BY <2>1, <2>2, AddBitConfines
    <2> QED  BY <2>1, <2>3 DEF MarksConfined, Confined
  <1>2. ASSUME NEW v \in Voters, EmptyBmi(v) PROVE MarksConfined'
    <2>1. bmi'.size = 0 /\ UNCHANGED <<mutex, mem, cast>>
      BY <1>2, ZerosIsFile DEF EmptyBmi, Emptied
    <2>2. ~(bmi'.size >= 2 * blockSize)  BY <2>1, BlockAssumption
    <2> QED  BY <2>1, <2>2 DEF MarksConfined, Confined
  <1>3. ASSUME NEW v \in Voters, WriteBmi(v) PROVE MarksConfined'
    <2>1. pc[v] \in Writing /\ bmi' = mem.bmi /\ cast' = Append(cast, v) /\ mutex' = {}
      BY <1>3 DEF WriteBmi, Writing
    <2>2. v \in mutex  BY <2>1 DEF IInv, TypeOK
    <2> QED  BY <2>1, <2>2 DEF MarksConfined, Confined
  <1>4. ASSUME UNCHANGED <<bmi, cast>>, mutex' = {} \/ UNCHANGED <<mutex, mem>>
        PROVE  MarksConfined'
    BY <1>4 DEF MarksConfined, Confined
  <1>5. ASSUME NEW v \in Voters,
               \/ PlacePanics(v) \/ EmptyBm(v) \/ WriteBm(v) \/ WriteFails(v) \/ ReadFails(v)
               \/ Commit(v) \/ ReadBm(v) \/ Answer(v)
        PROVE  MarksConfined'
    BY <1>4, <1>5
       DEF PlacePanics, EmptyBm, WriteBm, WriteFails, ReadFails, Commit, ReadBm, Answer, files
  <1>6. CASE Crash  BY <1>4, <1>6 DEF Crash, files
  <1>7. CASE UNCHANGED vars  BY <1>4, <1>7 DEF vars, files
  <1> QED
    BY <1>1, <1>2, <1>3, <1>5, <1>6, <1>7 DEF Next, Step, AllVoted

LEMMA ConfinedAlways == Spec => [](IInv /\ MarksConfined)
  BY InvInit, InvStep, ConfinedInit, ConfinedStep, PTL DEF Spec

\* /vote and /query count the same votes, whatever happened before, until
\* votes go to the overflow block.
THEOREM StatisticsAgree == Spec => []StatsAgree
  <1>1. ASSUME IInv, MarksConfined PROVE StatsAgree
    <2> USE BlockAssumption
    <2> SUFFICES ASSUME Intact, Len(cast) <= blockSize
                 PROVE  QueryStats(bm, bmi) = GetStats(bm, bmi)
      BY DEF StatsAgree
    <2> DEFINE S == {p \in 0..(bmi.size - 1) : p < bm.size}
    <2>1. /\ bm.size \in Int /\ bmi.size \in Int
          /\ bm.size >= 2 * blockSize /\ bmi.size >= 2 * blockSize /\ Confined(bmi, cast)
      BY <1>1, FilesAndCast DEF IInv, Intact, MarksConfined
    <2>2. ASSUME NEW p \in S, Marked(bmi, p)
          PROVE  p \in Block(1)
      <3>1. p \notin Block(0) /\ p \notin (2 * blockSize)..(bmi.size - 1)
        BY <2>1, <2>2 DEF Confined, Marked
      <3> QED  BY <2>1, <3>1 DEF Block
    <2>3. \A p \in Block(1) : p \in S  BY <2>1 DEF Block
    <2>4. {p \in S : Marked(bmi, p)} = {p \in Block(1) : Marked(bmi, p)}
      BY <2>2, <2>3
    <2>5. {p \in S : Marked(bmi, p) /\ Marked(bm, p)} = CredibleMarks(bm, bmi)
      BY <2>2, <2>3 DEF CredibleMarks
    <2>6. GetStats(bm, bmi) = [credible |-> Cardinality(CredibleMarks(bm, bmi)),
                               total    |-> Cardinality({p \in Block(1) : Marked(bmi, p)})]
      BY <2>1, StatsOfBlock1 DEF Confined
    <2> QED  BY <2>4, <2>5, <2>6 DEF QueryStats, Tally
  <1> QED  BY <1>1, ConfinedAlways, PTL

\* With blocks of three positions or more (the code has 256) the overflow
\* block never keeps a second vote.
THEOREM OverflowKeepsOne ==
    ASSUME blockSize >= 3
    PROVE  Spec => []OverflowHoldsOne
  <1>1. ASSUME IInv, MarksConfined PROVE OverflowHoldsOne
    <2> SUFFICES ASSUME Intact, Len(cast) > blockSize
                 PROVE  {p \in (2 * blockSize)..(bmi.size - 1) : Marked(bmi, p)} = {2 * blockSize}
      BY DEF OverflowHoldsOne
    <2>1. /\ bmi.size \in Int /\ Len(cast) \in Nat /\ bmi.size > 2 * blockSize
          /\ \A p \in (2 * blockSize)..(bmi.size - 1) : bmi.bit[p] = 1 <=> p = 2 * blockSize
      BY <1>1, FilesAndCast DEF IInv, Intact, MarksConfined, Confined
    <2>2. 2 * blockSize \in (2 * blockSize)..(bmi.size - 1)
      BY <2>1, BlockAssumption
    <2> QED  BY <2>1, <2>2 DEF Marked
  <1> QED  BY <1>1, ConfinedAlways, PTL

-----------------------------------------------------------------------------
(* VoteBitmap implements VoteTally.                                        *)

Stored == IF StatsPanic(Read(bm), Read(bmi))
         THEN [credible |-> 0, total |-> -1] ELSE GetStats(Read(bm), Read(bmi))

LEMMA NoVotesTallied ==
    ASSUME NEW s, Len(s) = 0 PROVE Tallied(s) = NoAnswer
  <1>1. Within(s) = 0  BY BlockAssumption DEF Within
  <1>2. Credibles(s, 0) = {}  BY DEF Credibles
  <1> QED  BY <1>1, <1>2, FS_EmptySet DEF Tallied, NoAnswer

\* Marks of nothing: whatever the other file is, nothing is counted.
LEMMA NoMarksNoStats ==
    ASSUME NEW b, NEW m, \A p \in Block(0) : m.bit[p] = 0, \A p \in Block(1) : ~Marked(m, p)
    PROVE  GetStats(b, m) = NoAnswer
  <1>1. {p \in Block(1) : Marked(m, p)} = {} /\ CredibleMarks(b, m) = {}
    BY DEF CredibleMarks
  <1> QED  BY <1>1, StatsOfBlock1, FS_EmptySet DEF NoAnswer

\* Together, the two files hold the votes saved, or nothing that can be counted.
LEMMA StoredIsTallied ==
    ASSUME IInv, MarksConfined
    PROVE  /\ Stored \in {Tallied(cast), [credible |-> 0, total |-> -1]}
           /\ mutex = {} /\ bm.size # 0 /\ bmi.size # 0 => Stored = Tallied(cast)
  <1> USE BlockAssumption
  <1> DEFINE b == Read(bm)
             m == Read(bmi)
  <1>1. /\ IsFile(bm) /\ IsFile(bmi) /\ IsFile(b) /\ IsFile(m) /\ cast \in Seq(Voters)
        /\ bm.size \in Int /\ bmi.size \in Int
    BY FilesAndCast DEF IInv
  <1>2. CASE bmi.size = 0
    <2>1. m = bmi /\ m.size < 2 * blockSize  BY <1>2 DEF Read
    <2>2. StatsPanic(b, m)  BY <2>1 DEF StatsPanic
    <2> QED  BY <1>2, <2>2 DEF Stored
  <1>3. CASE bmi.size # 0
    <2>1. /\ m.size >= 2 * blockSize /\ m.size \in Int
          /\ Len(cast) \in Nat
      BY <1>1, <1>3, FilesAreWholeOrNot, ZerosIsFile DEF Read
    <2>2. MarksOf(m, cast) /\ Confined(m, cast)
      <3>1. CASE bmi.size = -1
        <4>1. Len(cast) = 0  BY <3>1 DEF IInv, MissingMeansNone
        <4>2. m = Zeros(4 * blockSize)  BY <3>1 DEF Read
        <4>3. \A j \in 1..blockSize : m.bit[blockSize + j - 1] = 0
          BY <4>2 DEF Zeros, File
        <4> QED  BY <4>1, <4>2, <4>3, ZerosAreConfined DEF MarksOf
      <3>2. CASE bmi.size # -1
        <4>1. m = bmi /\ bmi.size >= 2 * blockSize
          BY <1>1, <1>3, <3>2, FilesAreWholeOrNot DEF Read
        <4> QED  BY <4>1 DEF IInv, MarksExact, MarksConfined
      <3> QED  BY <3>1, <3>2
    <2>3. CASE b.size >= 2 * blockSize
      <3>1. VotesOf(b, cast)
        <4>1. CASE bm.size = -1
          <5>1. Len(cast) = 0  BY <4>1 DEF IInv, MissingMeansNone
          <5> QED  BY <5>1 DEF VotesOf
        <4>2. CASE bm.size # -1
          <5>1. b = bm  BY <4>2 DEF Read
          <5> QED  BY <2>3, <5>1 DEF IInv, VotesExact
        <4> QED  BY <4>1, <4>2
      <3>2. ~StatsPanic(b, m) /\ GetStats(b, m) = Tallied(cast)
        BY <1>1, <2>1, <2>2, <2>3, <3>1, StatsAreExact DEF Confined
      <3> QED  BY <3>2 DEF Stored
    <2>4. CASE ~(b.size >= 2 * blockSize)
      <3>1. bm.size = 0
        BY <1>1, <2>4, FilesAreWholeOrNot, ZerosIsFile DEF Read
      <3>2. CASE Len(cast) = 0
        <4>1. Within(cast) = 0  BY <3>2 DEF Within
        <4>2. {p \in Block(1) : Marked(m, p)} = {}
          BY <1>1, <2>1, <2>2, <4>1, MarkedPositions
        <4>3. GetStats(b, m) = NoAnswer /\ GetStats(m, m) = NoAnswer
          BY <2>2, <4>2, NoMarksNoStats DEF Confined
        <4>4. ~StatsPanic(b, m)  BY <2>1, <4>3 DEF StatsPanic, NoAnswer
        <4> QED  BY <3>1, <3>2, <4>3, <4>4, NoVotesTallied DEF Stored
      <3>3. CASE Len(cast) # 0
        <4>1. Within(cast) > 0  BY <2>1, <3>3 DEF Within
        <4>2. GetStats(m, m).total = Within(cast)
          <5>1. GetStats(m, m) = [credible |-> Cardinality(CredibleMarks(m, m)),
                                  total    |-> Cardinality({p \in Block(1) : Marked(m, p)})]
            BY <2>2, StatsOfBlock1 DEF Confined
          <5>2. Cardinality({p \in Block(1) : Marked(m, p)}) = Within(cast)
            BY <1>1, <2>1, <2>2, MarkedCount
          <5> QED  BY <5>1, <5>2
        <4>3. b.size < 2 * blockSize
          BY <1>1, <2>4 DEF IsFile
        <4>4. StatsPanic(b, m)  BY <4>1, <4>2, <4>3 DEF StatsPanic
        <4> QED  BY <3>1, <4>4 DEF Stored
      <3> QED  BY <3>2, <3>3
    <2> QED  BY <2>3, <2>4
  <1> QED  BY <1>2, <1>3

\* What the mapping of VoteTally consists of.
LEMMA TallyIsTallied ==
    /\ [credible |-> CredibleIn(Counted), total |-> Counted] = Tallied(cast)
    /\ Tallied(cast) = [credible |-> Cardinality(Credibles(cast, Within(cast))),
                        total    |-> Within(cast)]
  BY DEF Tallied, Credibles, CredibleIn, Within, Counted

\* A further vote counts if block 1 has room for it, and then it counts as one.
LEMMA TalliedNext ==
    ASSUME TypeOK, NEW v \in Voters
    PROVE  LET t == Append(cast, v)
           IN  IF Within(cast) < blockSize
               THEN Tallied(t) = [credible |-> Tallied(cast).credible + choice[v],
                                  total    |-> Tallied(cast).total + 1]
               ELSE Tallied(t) = Tallied(cast)
  <1> USE BlockAssumption
  <1> DEFINE t == Append(cast, v)
             n == Within(cast)
  <1>1. /\ Len(cast) \in Nat /\ Len(t) = Len(cast) + 1 /\ t[Len(cast) + 1] = v
        /\ \A j \in 1..Len(cast) : t[j] = cast[j]
        /\ choice[v] \in Bits
    BY FilesAndCast DEF TypeOK
  <1>2. n \in Nat /\ n <= Len(cast) /\ n <= blockSize
    BY <1>1 DEF Within
  <1>3. Credibles(t, n) = Credibles(cast, n)
    BY <1>1, <1>2 DEF Credibles
  <1>4. CASE n < blockSize
    <2>1. n = Len(cast) /\ Within(t) = n + 1
      BY <1>1, <1>4 DEF Within
    <2>2. Credibles(t, n + 1) = IF choice[v] = 1 THEN Credibles(t, n) \cup {n + 1}
                                                 ELSE Credibles(t, n)
      BY <1>1, <1>2, <2>1 DEF Credibles
    <2>3. n + 1 \notin Credibles(t, n)  BY <1>2 DEF Credibles
    <2>4. IsFiniteSet(Credibles(t, n)) /\ Cardinality(Credibles(t, n)) \in Nat
      BY <1>2, CrediblesAreFinite
    <2>5. Cardinality(Credibles(t, n) \cup {n + 1}) = Cardinality(Credibles(t, n)) + 1
      BY <2>3, <2>4, FS_AddElement
    <2>6. Cardinality(Credibles(t, n + 1)) = Cardinality(Credibles(t, n)) + choice[v]
      BY <1>1, <2>2, <2>4, <2>5 DEF Bits
    <2> QED  BY <1>3, <1>4, <2>1, <2>6 DEF Tallied
  <1>5. CASE ~(n < blockSize)
    <2>1. Within(t) = n  BY <1>1, <1>5 DEF Within
    <2> QED  BY <1>3, <1>5, <2>1 DEF Tallied
  <1> QED  BY <1>4, <1>5

\* Only WriteBmi saves a vote, and only writers change the files.
LEMMA WhatStepsDo ==
    ASSUME IInv, [Next]_vars
    PROVE  /\ choice' = choice
           /\ \/ cast' = cast
              \/ \E v \in mutex : cast' = Append(cast, v) /\ bmi' = mem.bmi /\ bm' = bm /\ bm = mem.bm
           /\ Ruined => Ruined' /\ UNCHANGED <<bm, bmi, cast>>
  <1> USE BlockAssumption DEF files
  <1>1. ASSUME NEW v \in Voters, pc[v] \in Writing
        PROVE  mutex = {v}
    BY <1>1 DEF IInv, TypeOK
  <1>2. ASSUME NEW v \in Voters, Place(v)
        PROVE  ~Ruined /\ UNCHANGED <<choice, cast>>
    BY <1>2 DEF Place, Ruined, Fits, Read
  <1>3. ASSUME NEW v \in Voters, EmptyBm(v) \/ WriteBm(v) \/ EmptyBmi(v) \/ WriteFails(v)
        PROVE  ~Ruined /\ UNCHANGED <<choice, cast>>
    BY <1>1, <1>3 DEF EmptyBm, WriteBm, EmptyBmi, WriteFails, Ruined, Writing
  <1>4. ASSUME NEW v \in Voters, WriteBmi(v)
        PROVE  /\ ~Ruined /\ choice' = choice /\ v \in mutex
               /\ cast' = Append(cast, v) /\ bmi' = mem.bmi /\ bm' = bm /\ bm = mem.bm
    BY <1>1, <1>4 DEF WriteBmi, Ruined, Writing, IInv, Written
  <1>5. ASSUME NEW v \in Voters,
               PlacePanics(v) \/ ReadFails(v) \/ Commit(v) \/ ReadBm(v) \/ Answer(v)
        PROVE  UNCHANGED <<bm, bmi, mutex, choice, cast>>
    BY <1>5 DEF PlacePanics, ReadFails, Commit, ReadBm, Answer
  <1>6. CASE Crash
    BY <1>6 DEF Crash, Ruined
  <1>7. CASE UNCHANGED vars  BY <1>7 DEF vars, Ruined
  <1> QED
    BY <1>2, <1>3, <1>4, <1>5, <1>6, <1>7 DEF Next, Step, AllVoted, Ruined

\* Although a vote is written to two files in four steps, at every moment the
\* two together hold the votes without it, or with it, or cannot be counted; a
\* vote cut off in between is never miscounted or followed by another.  It is
\* about the files; a caller of GetStats reads them at two moments.
THEOREM VotesImplementTally == Spec => ImplementsTally
  <1> DEFINE Inv == IInv /\ MarksConfined
  <1>1. Init => Tallies!Init
    <2> SUFFICES ASSUME Init PROVE Tallies!Init  OBVIOUS
    <2>1. IInv /\ MarksConfined  BY InvInit, ConfinedInit
    <2>2. bm.size # 0 /\ bmi.size # 0 /\ mutex = {} /\ Len(cast) = 0
      BY ZerosIsFile, BlockAssumption DEF Init
    <2>3. Stored = Tallied(cast) /\ Tallied(cast) = NoAnswer /\ ~Ruined
      BY <2>1, <2>2, StoredIsTallied, NoVotesTallied DEF Ruined
    <2> QED  BY <2>3, TallyIsTallied DEF Tallies!Init, Stored, NoAnswer
  <1>a. Inv => Stored \in {Tallied(cast), [credible |-> 0, total |-> -1]}
    BY StoredIsTallied
  <1>b. Inv' => (Stored \in {Tallied(cast), [credible |-> 0, total |-> -1]})'
    BY <1>a, PTL
  <1>c. [credible |-> CredibleIn(Counted), total |-> Counted] = Tallied(cast)
    BY TallyIsTallied
  <1>d. ([credible |-> CredibleIn(Counted), total |-> Counted] = Tallied(cast))'
    BY <1>c, PTL
  <1>2. Inv /\ Inv' /\ [Next]_vars => [Tallies!Next]_(Tallies!vars)
    <2> SUFFICES ASSUME Inv, Inv', [Next]_vars
                 PROVE  Tallies!Next \/ UNCHANGED Tallies!vars
      OBVIOUS
    <2>1. Stored' \in {Tallied(cast)', [credible |-> 0, total |-> -1]}
      BY <1>b
    <2>2. /\ [credible |-> CredibleIn(Counted), total |-> Counted] = Tallied(cast)
          /\ [credible |-> CredibleIn(Counted), total |-> Counted]' = Tallied(cast)'
      BY <1>c, <1>d
    <2>3. Tallies!Holds
      BY <2>1, <2>2 DEF Tallies!Holds, Tallies!Uncountable, Stored
    <2>4. CASE Ruined
      <3>1. UNCHANGED <<bm, bmi, cast, choice>> /\ Ruined' = Ruined
        BY <2>4, WhatStepsDo DEF Ruined
      <3>2. Stored' = Stored  BY <3>1 DEF Stored
      <3>3. Tallied(cast)' = Tallied(cast)
        BY <3>1 DEF Tallied, Credibles, Within
      <3> QED  BY <2>2, <3>1, <3>2, <3>3 DEF Tallies!vars, Stored
    <2>5. CASE ~Ruined /\ cast' = cast
      <3>1. Tallied(cast)' = Tallied(cast)
        BY <2>5, WhatStepsDo DEF Tallied, Credibles, Within
      <3>2. CASE Ruined'
        BY <2>2, <2>3, <2>5, <3>1, <3>2 DEF Tallies!Next, Tallies!Ruin
      <3>3. CASE ~Ruined'
        BY <2>2, <2>3, <2>5, <3>1, <3>3 DEF Tallies!Next, Tallies!Write
      <3> QED  BY <3>2, <3>3
    <2>6. CASE ~Ruined /\ cast' # cast
      <3>1. PICK v \in mutex : cast' = Append(cast, v) /\ bmi' = mem.bmi /\ bm' = bm /\ bm = mem.bm
        BY <2>6, WhatStepsDo
      <3>2. v \in Voters /\ choice[v] \in 0..1 /\ choice' = choice
        BY WhatStepsDo DEF IInv, TypeOK, Bits
      <3>3. ~Ruined'
        BY <3>1, BlockAssumption DEF IInv, Prepared, Ruined
      <3>4. Tallied(cast)' = Tallied(Append(cast, v))
        BY <3>1, <3>2 DEF Tallied, Credibles, Within
      <3>5. CASE Within(cast) < blockSize
        <4>1. Tallied(cast)' = [credible |-> Tallied(cast).credible + choice[v],
                                total    |-> Tallied(cast).total + 1]
          BY <3>2, <3>4, <3>5, TalliedNext DEF IInv
        <4>2. Tallied(cast).total < blockSize  BY <3>5 DEF Tallied
        <4>3. Tallies!Vote(choice[v])
          BY <2>2, <2>3, <2>6, <3>3, <4>1, <4>2 DEF Tallies!Vote
        <4> QED  BY <3>2, <4>3 DEF Tallies!Next
      <3>6. CASE ~(Within(cast) < blockSize)
        <4>1. Tallied(cast)' = Tallied(cast)
          BY <3>2, <3>4, <3>6, TalliedNext DEF IInv
        <4> QED  BY <2>2, <2>3, <2>6, <3>3, <4>1 DEF Tallies!Next, Tallies!Write
      <3> QED  BY <3>5, <3>6
    <2> QED  BY <2>4, <2>5, <2>6
  <1> QED  BY <1>1, <1>2, ConfinedAlways, PTL DEF Spec, ImplementsTally, Tallies!Spec

-----------------------------------------------------------------------------
(* What a vote is answered, while others are saved.                        *)

\* The votes that are credible in a file and not among the votes s.
Beyond(b, s) ==
    {j \in 1..blockSize : b.bit[blockSize + j - 1] = 1 /\ ~(j <= Len(s) /\ choice[s[j]] = 1)}

\* A file has one credible vote more than those saved, at most: the one being
\* saved, or one that failed before it was.
Excused(b) ==
    /\ \A i, j \in Beyond(b, cast) : i = j
    /\ Beyond(b, cast) # {} =>
          Unsaved # {} \/ \E v \in mutex : Beyond(b, Append(cast, v)) = {}

\* A vote that was cut off may have left a bit at the next position.
LeftoverIsNext ==
    bm.size >= 2 * blockSize =>
        /\ Excused(bm)
        /\ \A j \in 1..blockSize : bm.bit[blockSize + j - 1] = 1 => j <= Len(cast) + 1
WritersClean == \A v \in mutex : Beyond(mem.bm, Append(cast, v)) = {}

\* What a reader has read has its own vote and those before it.
HasRead ==
    \A v \in Voters : pc[v] = "readbmi" /\ read[v].size >= 2 * blockSize =>
        /\ Excused(read[v])
        /\ \A n \in 1..Len(cast) : cast[n] = v => AtLeast(read[v], cast, n)

\* A vote that is saved is not written any more.
SavedAreDone ==
    \A n \in 1..Len(cast) :
        pc[cast[n]] \in {"commit", "readbm", "readbmi", "answered", "failed"}

Answers == \A v \in Voters : answer[v].credible \in Nat /\ answer[v].total \in Nat

RaceInv ==
    /\ LeftoverIsNext /\ WritersClean /\ HasRead /\ SavedAreDone
    /\ DOMAIN answer = Voters /\ DOMAIN read = Voters /\ Answers /\ AnswerWithinRace

\* A file that holds the votes s and nothing beyond them.
LEMMA BeyondOfVotes ==
    ASSUME NEW b, NEW s, VotesOf(b, s),
           \A j \in 1..blockSize : b.bit[blockSize + j - 1] = 1 => j <= Len(s)
    PROVE  Beyond(b, s) = {}
  BY DEF VotesOf, Beyond

LEMMA BeyondShrinks ==
    ASSUME NEW b, NEW s \in Seq(Voters), NEW v \in Voters
    PROVE  Beyond(b, Append(s, v)) \subseteq Beyond(b, s)
  <1>1. /\ Len(s) \in Nat /\ Len(Append(s, v)) = Len(s) + 1
        /\ \A j \in 1..Len(s) : Append(s, v)[j] = s[j]
    OBVIOUS
  <1> QED  BY <1>1 DEF Beyond

\* AddBit overwrites what a vote that was cut off has left.
LEMMA AddBitCleans ==
    ASSUME TypeOK, NEW b, NEW m, IsFile(b), IsFile(m), Fits(b, m),
           NEW s \in Seq(Voters), NEW v \in Voters, VotesOf(b, s), MarksOf(m, s),
           \A j \in 1..blockSize : b.bit[blockSize + j - 1] = 1 => j <= Len(s) + 1
    PROVE  Beyond(AddBit(b, m, choice[v]).bm, Append(s, v)) = {}
  <1> USE BlockAssumption
  <1> DEFINE r == AddBit(b, m, choice[v])
             t == Append(s, v)
  <1>1. VotesOf(r.bm, t)  BY AddBitAppends
  <1>2. /\ Len(s) \in Nat /\ Len(t) = Len(s) + 1 /\ choice[v] \in Bits
        /\ b.size \in Int /\ m.size \in Int
        /\ b.size >= 2 * blockSize /\ m.size >= 2 * blockSize
    BY DEF TypeOK, Fits, IsFile
  <1>3. CASE Free(m) # {}
    <2> DEFINE p == blockSize + Len(s)
    <2>1. Len(s) < blockSize /\ FirstFree(m) = p
      BY <1>2, <1>3, FirstFreeIsNext
    <2>2. p \in 0..(b.size - 1)  BY <1>2, <2>1
    <2>3. r.bm = Store(b, p, choice[v])
      BY <1>3, <2>1 DEF AddBit
    <2>4. r.bm.bit = [b.bit EXCEPT ![p] = choice[v]]
      BY <1>2, <2>2, <2>3, StoreIsFile
    <2>5. ASSUME NEW j \in 1..blockSize, r.bm.bit[blockSize + j - 1] = 1
          PROVE  j <= Len(t)
      <3>1. blockSize + j - 1 \in DOMAIN b.bit  BY <1>2 DEF IsFile
      <3>2. CASE j = Len(s) + 1  BY <1>2, <3>2
      <3>3. CASE j # Len(s) + 1
        <4>1. b.bit[blockSize + j - 1] = 1
          BY <1>2, <2>4, <2>5, <3>1, <3>3
        <4> QED  BY <1>2, <4>1
      <3> QED  BY <3>2, <3>3
    <2> QED  BY <1>1, <2>5, BeyondOfVotes
  <1>4. CASE Free(m) = {}
    <2>1. blockSize <= Len(s)  BY <1>2, <1>4, FirstFreeIsNext
    <2>2. \A j \in 1..blockSize : j <= Len(t)  BY <1>2, <2>1
    <2> QED  BY <1>1, <2>2, BeyondOfVotes
  <1> QED  BY <1>3, <1>4

\* The answer of a vote, from what it has read and the marks it finds.
LEMMA AnswerIsBetween ==
    ASSUME NEW m, IsFile(m), m.size >= 2 * blockSize, NEW b, IsFile(b), b.size >= 2 * blockSize,
           NEW s \in Seq(Voters), MarksOf(m, s), \A p \in Block(0) : m.bit[p] = 0,
           Len(s) <= blockSize, NEW n \in 1..Len(s), AtLeast(b, s, n),
           NEW X \in SUBSET Int, IsFiniteSet(X),
           \A j \in 1..Len(s) : b.bit[blockSize + j - 1] = 1 => choice[s[j]] = 1 \/ j \in X
    PROVE  LET a == GetStats(b, m)
           IN  /\ a.total = Len(s) /\ a.credible \in Nat
               /\ Cardinality(Credibles(s, n)) <= a.credible
               /\ a.credible <= Cardinality(Credibles(s, Len(s)) \cup X)
  <1>1. Within(s) = Len(s) /\ Len(s) \in Nat /\ n \in 0..Within(s)  BY DEF Within
  <1>2. GetStats(b, m) = [credible |-> Cardinality(CredibleMarks(b, m)),
                          total    |-> Cardinality({p \in Block(1) : Marked(m, p)})]
    BY StatsOfBlock1
  <1>3. Cardinality({p \in Block(1) : Marked(m, p)}) = Len(s)
    BY <1>1, MarkedCount
  <1>4. Cardinality(Credibles(s, n)) <= Cardinality(CredibleMarks(b, m))
    BY <1>1, CredibleAtLeast
  <1>5. /\ Cardinality(CredibleMarks(b, m)) <= Cardinality(Credibles(s, Len(s)) \cup X)
        /\ Cardinality(CredibleMarks(b, m)) \in Nat
    BY <1>1, CredibleAtMost
  <1> QED  BY <1>2, <1>3, <1>4, <1>5

\* Whatever files are read, the statistics are numbers.
LEMMA StatsAreNumbers ==
    ASSUME NEW b, NEW m
    PROVE  GetStats(b, m).credible \in Nat /\ GetStats(b, m).total \in Nat
  <1>1. ASSUME NEW k \in {0, 1}
        PROVE  Tally(b, m, Block(k)).credible \in Nat /\ Tally(b, m, Block(k)).total \in Nat
    <2>1. k * blockSize \in Int /\ (k + 1) * blockSize - 1 \in Int
      BY BlockAssumption
    <2>2. IsFiniteSet(Block(k))  BY <2>1, FS_Interval DEF Block
    <2>3. /\ IsFiniteSet({p \in Block(k) : Marked(m, p) /\ Marked(b, p)})
          /\ IsFiniteSet({p \in Block(k) : Marked(m, p)})
      BY <2>2, FS_Subset
    <2> QED  BY <2>3, FS_CardinalityType DEF Tally
  <1> QED  BY <1>1 DEF GetStats

LEMMA RaceInit == Init => RaceInv
  <1> SUFFICES ASSUME Init PROVE RaceInv  OBVIOUS
  <1>1. mutex = {} /\ Len(cast) = 0 /\ \A v \in Voters : pc[v] = "idle"
    BY DEF Init
  <1>2. LeftoverIsNext
    <2>1. bm = Zeros(2 * blockSize) \/ bm.size = -1
      BY ZerosIsFile DEF Init
    <2>2. bm = Zeros(2 * blockSize) => \A j \in 1..blockSize : bm.bit[blockSize + j - 1] = 0
      BY BlockAssumption DEF Zeros, File
    <2>3. bm = Zeros(2 * blockSize) => Beyond(bm, cast) = {}
      BY <2>2 DEF Beyond
    <2>4. Beyond(bm, cast) = {} => Excused(bm)
      BY DEF Excused
    <2>5. bm.size = -1 => ~(bm.size >= 2 * blockSize)
      BY BlockAssumption
    <2> QED
      <3> HIDE DEF Excused
      <3>1. CASE bm.size = -1
        BY <2>5, <3>1 DEF LeftoverIsNext
      <3>2. CASE bm = Zeros(2 * blockSize)
        <4>1. \A j \in 1..blockSize : bm.bit[blockSize + j - 1] # 1
          BY <2>2, <3>2
        <4> QED  BY <2>3, <2>4, <3>2, <4>1 DEF LeftoverIsNext
      <3> QED  BY <2>1, <3>1, <3>2
  <1>3. DOMAIN answer = Voters /\ DOMAIN read = Voters /\ Answers
    BY DEF Init, Answers, NoAnswer
  <1> QED
    BY <1>1, <1>2, <1>3 DEF RaceInv, WritersClean, HasRead, SavedAreDone, AnswerWithinRace

\* A vote that failed before it was saved has failed for good.
LEMMA UnsavedStay ==
    ASSUME TypeOK, choice' = choice, \A u \in Voters : pc[u] = "failed" => pc'[u] = "failed",
           cast' = cast \/ \E v \in Voters : pc[v] # "failed" /\ cast' = Append(cast, v)
    PROVE  Unsaved \subseteq Unsaved'
  <1> SUFFICES ASSUME NEW u \in Unsaved, NEW n \in 1..Len(cast'), cast'[n] = u PROVE FALSE
    BY DEF Unsaved
  <1>1. cast \in Seq(Voters)  BY DEF TypeOK
  <1>2. u \in Voters /\ pc[u] = "failed" /\ \A k \in 1..Len(cast) : cast[k] # u
    BY DEF Unsaved
  <1>3. PICK v \in Voters : pc[v] # "failed" /\ cast' = Append(cast, v)
    BY <1>2
  <1>4. /\ Len(cast) \in Nat /\ Len(cast') = Len(cast) + 1 /\ cast'[Len(cast) + 1] = v
        /\ \A k \in 1..Len(cast) : cast'[k] = cast[k]
    BY <1>1, <1>3
  <1>5. n = Len(cast) + 1  BY <1>2, <1>4
  <1> QED  BY <1>2, <1>3, <1>4, <1>5

\* It is what a reader has read that is excused, wherever it is kept.
LEMMA ExcusedIsOfValue ==
    ASSUME NEW c, NEW u \in Voters, read'[u] = c, Excused(c)' PROVE Excused(read[u])'
  <1>1. Beyond(read[u], cast)' = Beyond(c, cast)'  BY DEF Beyond
  <1>2. \A v : Beyond(read[u], Append(cast, v))' = Beyond(c, Append(cast, v))'  BY DEF Beyond
  <1> QED  BY <1>1, <1>2 DEF Excused

\* The holder of the mutex is not saved yet; when it fails, it is one of those
\* that excuse what it has written.
LEMMA ExcusedGoesOn ==
    ASSUME TypeOK, SavedAreDone, UNCHANGED <<cast, choice>>,
           \A u \in Voters : pc[u] = "failed" => pc'[u] = "failed",
           \A v \in mutex : v \in mutex' \/ pc'[v] = "failed",
           NEW b, Excused(b)
    PROVE  Excused(b)'
  <1>1. Beyond(b, cast)' = Beyond(b, cast) /\ \A v : Beyond(b, Append(cast, v))' = Beyond(b, Append(cast, v))
    BY DEF Beyond
  <1>2. Unsaved \subseteq Unsaved'  BY UnsavedStay
  <1>3. ASSUME NEW v \in mutex, v \notin mutex', Beyond(b, Append(cast, v)) = {}, Beyond(b, cast) # {}
        PROVE  v \in Unsaved'
    <2>1. cast \in Seq(Voters) /\ v \in Voters /\ pc[v] \in Writing  BY DEF TypeOK
    <2>2. /\ Len(cast) \in Nat /\ Len(Append(cast, v)) = Len(cast) + 1
          /\ Append(cast, v)[Len(cast) + 1] = v
          /\ \A j \in 1..Len(cast) : Append(cast, v)[j] = cast[j]
      BY <2>1
    <2>3. PICK j \in 1..blockSize : b.bit[blockSize + j - 1] = 1 /\ ~(j <= Len(cast) /\ choice[cast[j]] = 1)
      BY <1>3 DEF Beyond
    <2>4. j <= Len(cast) + 1 /\ choice[Append(cast, v)[j]] = 1
      BY <1>3, <2>2, <2>3 DEF Beyond
    <2>5. j = Len(cast) + 1  BY <2>2, <2>3, <2>4, BlockAssumption
    <2>6. choice[v] = 1  BY <2>2, <2>4, <2>5
    <2>7. \A n \in 1..Len(cast) : cast[n] # v
      BY <2>1 DEF SavedAreDone, Writing
    <2> QED  BY <1>3, <2>1, <2>6, <2>7 DEF Unsaved
  <1>4. CASE Beyond(b, cast) = {}
    BY <1>1, <1>4 DEF Excused
  <1>5. CASE Unsaved # {}
    BY <1>1, <1>2, <1>5 DEF Excused
  <1>6. CASE Beyond(b, cast) # {} /\ \E v \in mutex : Beyond(b, Append(cast, v)) = {}
    <2>1. PICK v \in mutex : Beyond(b, Append(cast, v)) = {}  BY <1>6
    <2>2. v \in mutex' \/ v \in Unsaved'  BY <1>3, <1>6, <2>1
    <2> QED  BY <1>1, <2>1, <2>2 DEF Excused
  <1> QED  BY <1>4, <1>5, <1>6 DEF Excused

\* When the vote that is written is saved, it is no excuse any more, nor needed.
LEMMA ExcusedIsSaved ==
    ASSUME TypeOK, NEW v \in Voters, mutex = {v}, pc[v] # "failed", cast' = Append(cast, v),
           choice' = choice, \A u \in Voters : pc[u] = "failed" => pc'[u] = "failed",
           NEW b, Excused(b)
    PROVE  Excused(b)'
  <1>1. Beyond(b, cast)' = Beyond(b, Append(cast, v))  BY DEF Beyond
  <1>2. Beyond(b, Append(cast, v)) \subseteq Beyond(b, cast)
    BY BeyondShrinks DEF TypeOK
  <1>3. Unsaved \subseteq Unsaved'  BY UnsavedStay
  <1> QED  BY <1>1, <1>2, <1>3 DEF Excused

\* Answers already given stay right when votes are saved or fail.
LEMMA AnswersStay ==
    ASSUME TypeOK, RaceInv, UNCHANGED <<choice, answer>>,
           \A u \in Voters : pc[u] = "failed" => pc'[u] = "failed",
           \A u \in Voters : pc'[u] = "answered" => pc[u] = "answered",
           cast' = cast \/ \E v \in Voters : pc[v] # "failed" /\ pc'[v] # "answered" /\ cast' = Append(cast, v)
    PROVE  AnswerWithinRace'
  <1> SUFFICES ASSUME NEW n \in 1..Len(cast'), pc'[cast'[n]] = "answered", Len(cast') <= blockSize
               PROVE  LET a == answer[cast'[n]]
                      IN  /\ n <= a.total /\ a.total <= Len(cast')
                          /\ Cardinality(Credibles(cast', n)) <= a.credible
                          /\ a.credible <= Cardinality(Credibles(cast', Len(cast')))
                                           + (IF Unsaved' = {} THEN 0 ELSE 1)
    BY DEF AnswerWithinRace, CredibleIn, Credibles
  <1> USE BlockAssumption
  <1> DEFINE a == answer[cast'[n]]
  <1>0. cast \in Seq(Voters) /\ Len(cast) \in Nat  BY DEF TypeOK
  <1>1. Unsaved \subseteq Unsaved'  BY UnsavedStay
  <1>2. /\ Len(cast) <= Len(cast') /\ Len(cast') \in Nat
        /\ \A j \in 1..Len(cast) : cast'[j] = cast[j] /\ cast[j] \in Voters
        /\ n \in 1..Len(cast)
    <2>1. CASE cast' = cast  BY <1>0, <2>1
    <2>2. CASE cast' # cast
      <3>1. PICK v \in Voters : pc'[v] # "answered" /\ cast' = Append(cast, v)
        BY <2>2
      <3>2. /\ Len(cast') = Len(cast) + 1 /\ cast'[Len(cast) + 1] = v
            /\ \A j \in 1..Len(cast) : cast'[j] = cast[j] /\ cast[j] \in Voters
        BY <1>0, <3>1
      <3>3. n # Len(cast) + 1  BY <3>1, <3>2
      <3> QED  BY <1>0, <3>2, <3>3
    <2> QED  BY <2>1, <2>2
  <1>3. pc[cast[n]] = "answered" /\ Len(cast) <= blockSize /\ a = answer[cast[n]] /\ cast[n] \in Voters
    BY <1>0, <1>2
  <1>4. /\ n <= a.total /\ a.total <= Len(cast) /\ a.total \in Nat /\ a.credible \in Nat
        /\ Cardinality(Credibles(cast, n)) <= a.credible
        /\ a.credible <= Cardinality(Credibles(cast, Len(cast))) + (IF Unsaved = {} THEN 0 ELSE 1)
    BY <1>2, <1>3 DEF RaceInv, AnswerWithinRace, Answers, CredibleIn, Credibles
  <1>5. Credibles(cast', Len(cast)) = Credibles(cast, Len(cast)) /\ Credibles(cast', n) = Credibles(cast, n)
    BY <1>0, <1>2 DEF Credibles
  <1>6. /\ Cardinality(Credibles(cast', Len(cast))) <= Cardinality(Credibles(cast', Len(cast')))
        /\ Cardinality(Credibles(cast', Len(cast))) \in Nat
        /\ Cardinality(Credibles(cast', Len(cast'))) \in Nat
    BY <1>0, <1>2, CrediblesGrow, CrediblesAreFinite
  <1>7. (IF Unsaved = {} THEN 0 ELSE 1) <= (IF Unsaved' = {} THEN 0 ELSE 1)
    BY <1>1
  <1> QED  BY <1>0, <1>2, <1>4, <1>5, <1>6, <1>7

\* A step that saves no vote, reads nothing and answers nothing.
LEMMA RaceElsewhere ==
    ASSUME TypeOK, RaceInv, UNCHANGED <<cast, choice, answer>>, DOMAIN read' = Voters,
           \A u \in Voters : pc[u] = "failed" => pc'[u] = "failed",
           \A u \in Voters : pc'[u] = "answered" => pc[u] = "answered",
           \A u \in Voters : pc'[u] = "readbmi" => pc[u] = "readbmi" /\ read'[u] = read[u],
           \A u \in Voters : pc'[u] \in {"idle"} \cup Writing => pc[u] \in {"idle"} \cup Writing,
           pc' \in [Voters -> Stages],
           \A v \in mutex : v \in mutex' \/ pc'[v] = "failed"
    PROVE  /\ HasRead' /\ SavedAreDone' /\ Answers' /\ AnswerWithinRace'
           /\ DOMAIN answer' = Voters /\ DOMAIN read' = Voters
  <1>1. HasRead'
    <2> SUFFICES ASSUME NEW u \in Voters, pc'[u] = "readbmi", read'[u].size >= 2 * blockSize
                 PROVE  /\ Excused(read[u])'
                        /\ \A n \in 1..Len(cast') : cast'[n] = u => AtLeast(read[u], cast, n)'
      BY DEF HasRead
    <2>1. PICK c : c = read[u]  OBVIOUS
    <2>2. /\ read'[u] = c /\ Excused(c)
          /\ \A n \in 1..Len(cast) : cast[n] = u => AtLeast(c, cast, n)
      BY <2>1 DEF RaceInv, HasRead
    <2>3. Excused(c)'  BY <2>2, ExcusedGoesOn DEF RaceInv
    <2> QED  BY <2>2, <2>3, ExcusedIsOfValue DEF AtLeast
  <1>2. SavedAreDone'
    <2>1. \A n \in 1..Len(cast) : cast[n] \in Voters  BY DEF TypeOK
    <2>2. \A u \in Voters : pc[u] \notin {"idle"} \cup Writing =>
              pc'[u] \in {"commit", "readbm", "readbmi", "answered", "failed"}
      BY DEF Stages, Writing
    <2> QED  BY <2>1, <2>2 DEF RaceInv, SavedAreDone, Writing
  <1>3. AnswerWithinRace'  BY AnswersStay
  <1> QED  BY <1>1, <1>2, <1>3 DEF RaceInv, Answers

LEMMA RaceStep == IInv /\ MarksConfined /\ RaceInv /\ [Next]_vars => RaceInv'
  <1> SUFFICES ASSUME IInv, MarksConfined, RaceInv, [Next]_vars PROVE RaceInv'
    OBVIOUS
  <1> USE BlockAssumption DEF files
  <1>t. TypeOK /\ cast \in Seq(Voters) /\ Len(cast) \in Nat /\ SavedAreDone
    BY FilesAndCast DEF IInv, RaceInv
  <1>w. ASSUME NEW v \in Voters, pc[v] \in Writing
        PROVE  mutex = {v} /\ Beyond(mem.bm, Append(cast, v)) = {}
    BY <1>w, <1>t DEF TypeOK, RaceInv, WritersClean
  \* A vote moves on, and answers nothing.
  <1>m. ASSUME NEW v \in Voters, NEW label \in Stages, Goto(v, label), pc[v] # "failed",
               label \notin {"idle", "answered", "readbmi"},
               label \in Writing => pc[v] \in {"idle"} \cup Writing,
               UNCHANGED <<cast, choice, answer>>, DOMAIN read' = Voters,
               \A u \in Voters \ {v} : read'[u] = read[u],
               \A u \in mutex : u \in mutex' \/ (u = v /\ label = "failed")
        PROVE  /\ HasRead' /\ SavedAreDone' /\ Answers' /\ AnswerWithinRace'
               /\ DOMAIN answer' = Voters /\ DOMAIN read' = Voters
               /\ \A b : Excused(b) => Excused(b)'
    <2>1. /\ pc' \in [Voters -> Stages] /\ pc'[v] = label
          /\ \A u \in Voters \ {v} : pc'[u] = pc[u]
      BY <1>m, <1>t DEF Goto, TypeOK
    <2>2. /\ \A u \in Voters : pc[u] = "failed" => pc'[u] = "failed"
          /\ \A u \in Voters : pc'[u] = "answered" => pc[u] = "answered"
          /\ \A u \in Voters : pc'[u] = "readbmi" => pc[u] = "readbmi" /\ read'[u] = read[u]
          /\ \A u \in Voters : pc'[u] \in {"idle"} \cup Writing => pc[u] \in {"idle"} \cup Writing
          /\ \A u \in mutex : u \in mutex' \/ pc'[u] = "failed"
      BY <1>m, <2>1 DEF Writing
    <2>3. \A b : Excused(b) => Excused(b)'
      BY <1>m, <1>t, <2>2, ExcusedGoesOn
    <2> QED  BY <1>m, <1>t, <2>1, <2>2, <2>3, RaceElsewhere
  \* The file of votes stays as it is.
  <1>f. ASSUME UNCHANGED <<bm, cast, choice>>, \A b : Excused(b) => Excused(b)',
               mutex' = {} \/ UNCHANGED <<mutex, mem>>
        PROVE  LeftoverIsNext' /\ WritersClean'
    <2>1. PICK c : c = bm  OBVIOUS
    <2>2. bm.size >= 2 * blockSize => Excused(c)'
      BY <1>f, <2>1 DEF RaceInv, LeftoverIsNext
    <2>3. /\ Beyond(bm, cast)' = Beyond(c, cast)'
          /\ \A v : Beyond(bm, Append(cast, v))' = Beyond(c, Append(cast, v))'
      BY <1>f, <2>1 DEF Beyond
    <2>4. bm.size >= 2 * blockSize => Excused(bm)'
      BY <2>2, <2>3 DEF Excused
    <2>5. LeftoverIsNext'
      BY <1>f, <2>4 DEF RaceInv, LeftoverIsNext
    <2> QED  BY <1>f, <2>5 DEF RaceInv, WritersClean, Beyond
  <1>1. ASSUME NEW v \in Voters, Place(v) PROVE RaceInv'
    <2> DEFINE b == Read(bm)
               m == Read(bmi)
    <2>1. /\ Fits(b, m) /\ mem' = AddBit(b, m, choice[v]) /\ mutex = {} /\ mutex' = {v}
          /\ pc[v] = "idle" /\ Goto(v, "emptybm") /\ UNCHANGED <<bm, choice, read, answer, cast>>
      BY <1>1 DEF Place
    <2>2. /\ IsFile(b) /\ IsFile(m) /\ VotesOf(b, cast) /\ MarksOf(m, cast)
      BY <2>1, ReadHoldsCast
    <2>3. \A j \in 1..blockSize : b.bit[blockSize + j - 1] = 1 => j <= Len(cast) + 1
      <3>1. CASE bm.size = -1
        BY <3>1 DEF Read, Zeros, File
      <3>2. CASE bm.size # -1
        <4>1. b = bm /\ 2 * blockSize <= b.size  BY <2>1, <3>2 DEF Read, Fits
        <4>2. bm.size >= 2 * blockSize  BY <1>t, <4>1, FilesAndCast
        <4> QED  BY <4>1, <4>2 DEF RaceInv, LeftoverIsNext
      <3> QED  BY <3>1, <3>2
    <2>4. Beyond(mem'.bm, Append(cast, v)) = {}
      BY <1>t, <2>1, <2>2, <2>3, AddBitCleans
    <2>5. WritersClean'  BY <2>1, <2>4 DEF WritersClean, Beyond
    <2>6. /\ HasRead' /\ SavedAreDone' /\ Answers' /\ AnswerWithinRace'
          /\ DOMAIN answer' = Voters /\ DOMAIN read' = Voters
          /\ \A c : Excused(c) => Excused(c)'
      BY <1>m, <2>1 DEF RaceInv, Stages, Writing
    <2>7. LeftoverIsNext'
      <3>1. PICK c : c = bm  OBVIOUS
      <3>2. bm.size >= 2 * blockSize => Excused(c)'
        BY <2>6, <3>1 DEF RaceInv, LeftoverIsNext
      <3>3. /\ Beyond(bm, cast)' = Beyond(c, cast)'
            /\ \A u : Beyond(bm, Append(cast, u))' = Beyond(c, Append(cast, u))'
        BY <2>1, <3>1 DEF Beyond
      <3>4. bm.size >= 2 * blockSize => Excused(bm)'
        BY <3>2, <3>3 DEF Excused
      <3> QED  BY <2>1, <3>4 DEF RaceInv, LeftoverIsNext
    <2> QED  BY <2>5, <2>6, <2>7 DEF RaceInv
  <1>2. ASSUME NEW v \in Voters, EmptyBm(v) PROVE RaceInv'
    <2>1. /\ bm'.size = 0 /\ pc[v] = "emptybm" /\ Goto(v, "writebm")
          /\ UNCHANGED <<choice, mutex, mem, read, answer, cast>>
      BY <1>2, ZerosIsFile DEF EmptyBm, Emptied
    <2>2. /\ HasRead' /\ SavedAreDone' /\ Answers' /\ AnswerWithinRace'
          /\ DOMAIN answer' = Voters /\ DOMAIN read' = Voters
      BY <1>m, <2>1 DEF RaceInv, Stages, Writing
    <2>3. LeftoverIsNext'  BY <2>1 DEF LeftoverIsNext
    <2>4. WritersClean'  BY <2>1 DEF RaceInv, WritersClean, Beyond
    <2> QED  BY <2>2, <2>3, <2>4 DEF RaceInv
  <1>3. ASSUME NEW v \in Voters, WriteBm(v) PROVE RaceInv'
    <2>1. /\ bm' = mem.bm /\ pc[v] = "writebm" /\ Goto(v, "emptybmi") /\ mutex = {v}
          /\ Beyond(mem.bm, Append(cast, v)) = {} /\ UNCHANGED <<choice, mutex, mem, read, answer, cast>>
      BY <1>3, <1>w DEF WriteBm, Writing
    <2>2. /\ Len(Append(cast, v)) = Len(cast) + 1
          /\ \A j \in 1..Len(cast) : Append(cast, v)[j] = cast[j]
      BY <1>t
    <2>3. \A j \in 1..blockSize : mem.bm.bit[blockSize + j - 1] = 1 => j <= Len(cast) + 1
      BY <2>1, <2>2 DEF Beyond
    <2>4. \A j \in Beyond(mem.bm, cast) : j = Len(cast) + 1
      <3> SUFFICES ASSUME NEW j \in Beyond(mem.bm, cast), j # Len(cast) + 1 PROVE FALSE
        OBVIOUS
      <3>1. /\ j \in 1..blockSize /\ mem.bm.bit[blockSize + j - 1] = 1
            /\ ~(j <= Len(cast) /\ choice[cast[j]] = 1)
        BY DEF Beyond
      <3>2. j \in 1..Len(cast)  BY <1>t, <2>3, <3>1
      <3>3. choice[Append(cast, v)[j]] = 1  BY <2>1, <3>1 DEF Beyond
      <3> QED  BY <2>2, <3>1, <3>2, <3>3
    <2>5. PICK c : c = mem.bm  OBVIOUS
    <2>6. /\ Beyond(bm, cast)' = Beyond(c, cast)
          /\ Beyond(bm, Append(cast, v))' = Beyond(c, Append(cast, v))
      BY <2>1, <2>5 DEF Beyond
    <2>7. Excused(bm)'
      BY <2>1, <2>4, <2>5, <2>6 DEF Excused
    <2>8. LeftoverIsNext'  BY <2>1, <2>3, <2>7 DEF LeftoverIsNext
    <2>9. WritersClean'  BY <2>1 DEF RaceInv, WritersClean, Beyond
    <2>10. /\ HasRead' /\ SavedAreDone' /\ Answers' /\ AnswerWithinRace'
           /\ DOMAIN answer' = Voters /\ DOMAIN read' = Voters
      BY <1>m, <2>1 DEF RaceInv, Stages, Writing
    <2> QED  BY <2>8, <2>9, <2>10 DEF RaceInv
  <1>4. ASSUME NEW v \in Voters,
               PlacePanics(v) \/ EmptyBmi(v) \/ WriteFails(v) \/ ReadFails(v) \/ Commit(v)
        PROVE  RaceInv'
    <2>1. /\ \E label \in {"failed", "writebmi", "readbm"} :
                Goto(v, label) /\ (label = "writebmi" => pc[v] = "emptybmi")
                               /\ (mutex' # mutex => label = "failed" /\ pc[v] \in Writing)
          /\ pc[v] # "failed"
          /\ UNCHANGED <<bm, choice, answer, cast>>
          /\ mutex' = {} \/ UNCHANGED <<mutex, mem>>
          /\ read' = read \/ read' = [read EXCEPT ![v] = Emptied]
      BY <1>4 DEF PlacePanics, EmptyBmi, WriteFails, ReadFails, Commit, Writing
    <2>2. /\ DOMAIN read' = Voters /\ \A u \in Voters \ {v} : read'[u] = read[u]
      BY <2>1 DEF RaceInv
    <2>3. mutex' # mutex => mutex = {v}  BY <1>w, <2>1
    <2>4. /\ HasRead' /\ SavedAreDone' /\ Answers' /\ AnswerWithinRace'
          /\ DOMAIN answer' = Voters /\ DOMAIN read' = Voters
          /\ \A c : Excused(c) => Excused(c)'
      <3>1. PICK label \in {"failed", "writebmi", "readbm"} :
                Goto(v, label) /\ (label = "writebmi" => pc[v] = "emptybmi")
                               /\ (mutex' # mutex => label = "failed" /\ pc[v] \in Writing)
        BY <2>1
      <3>2. \A u \in mutex : u \in mutex' \/ (u = v /\ label = "failed")
        BY <2>3, <3>1
      <3> QED  BY <1>m, <2>1, <2>2, <3>1, <3>2 DEF Stages, Writing
    <2> QED  BY <1>f, <2>1, <2>4 DEF RaceInv
  \* The vote is saved: what was expected is there.
  <1>5. ASSUME NEW v \in Voters, WriteBmi(v) PROVE RaceInv'
    <2>1. /\ cast' = Append(cast, v) /\ mutex' = {} /\ mutex = {v} /\ bm = mem.bm /\ pc[v] = "writebmi"
          /\ Beyond(mem.bm, Append(cast, v)) = {} /\ Goto(v, "commit")
          /\ UNCHANGED <<bm, choice, read, answer>>
      BY <1>5, <1>w DEF WriteBmi, Writing, IInv, Written
    <2>2. /\ Len(cast') = Len(cast) + 1 /\ cast'[Len(cast) + 1] = v
          /\ \A j \in 1..Len(cast) : cast'[j] = cast[j] /\ cast[j] \in Voters
      BY <1>t, <2>1
    <2>3. /\ pc'[v] = "commit" /\ \A u \in Voters : u # v => pc'[u] = pc[u]
      BY <1>t, <2>1 DEF Goto, TypeOK
    <2>4. LeftoverIsNext'
      <3>1. Beyond(bm, cast)' = {}  BY <2>1 DEF Beyond
      <3>2. \A j \in 1..blockSize : bm.bit[blockSize + j - 1] = 1 => j <= Len(cast')
        BY <2>1 DEF Beyond
      <3> QED  BY <1>t, <2>1, <2>2, <3>1, <3>2 DEF LeftoverIsNext, Excused
    <2>5. WritersClean'  BY <2>1 DEF WritersClean
    <2>6. HasRead'
      <3> SUFFICES ASSUME NEW u \in Voters, pc'[u] = "readbmi", read'[u].size >= 2 * blockSize
                   PROVE  /\ Excused(read[u])'
                          /\ \A n \in 1..Len(cast') : cast'[n] = u => AtLeast(read[u], cast, n)'
        BY DEF HasRead
      <3>1. u # v /\ pc[u] = "readbmi"  BY <2>3
      <3>2. PICK c : c = read[u]  OBVIOUS
      <3>3. /\ read'[u] = c /\ Excused(c)
            /\ \A n \in 1..Len(cast) : cast[n] = u => AtLeast(c, cast, n)
        BY <2>1, <3>1, <3>2 DEF RaceInv, HasRead
      <3>4. Excused(c)'
        <4>1. \A w \in Voters : pc[w] = "failed" => pc'[w] = "failed"  BY <2>1, <2>3
        <4>2. mutex = {v} /\ pc[v] # "failed" /\ cast' = Append(cast, v) /\ choice' = choice
          BY <2>1
        <4> QED  BY <1>t, <3>3, <4>1, <4>2, ExcusedIsSaved
      <3>5. ASSUME NEW n \in 1..Len(cast'), cast'[n] = u
            PROVE  AtLeast(read[u], cast, n)'
        <4>1. n \in 1..Len(cast) /\ cast[n] = u  BY <1>t, <2>2, <3>1, <3>5
        <4> QED  BY <1>t, <2>1, <2>2, <3>3, <4>1 DEF AtLeast
      <3> QED  BY <3>3, <3>4, <3>5, ExcusedIsOfValue
    <2>7. SavedAreDone'
      BY <1>t, <2>2, <2>3 DEF SavedAreDone
    <2>8. AnswerWithinRace'
      <3>1. /\ \A u \in Voters : pc[u] = "failed" => pc'[u] = "failed"
            /\ \A u \in Voters : pc'[u] = "answered" => pc[u] = "answered"
            /\ \E w \in Voters : pc[w] # "failed" /\ pc'[w] # "answered" /\ cast' = Append(cast, w)
        BY <2>1, <2>3
      <3> QED  BY <1>t, <2>1, <3>1, AnswersStay
    <2> QED  BY <2>1, <2>4, <2>5, <2>6, <2>7, <2>8 DEF RaceInv, Answers
  <1>6. ASSUME NEW v \in Voters, ReadBm(v) PROVE RaceInv'
    <2>1. /\ pc[v] = "readbm" /\ read' = [read EXCEPT ![v] = Read(bm)] /\ Goto(v, "readbmi")
          /\ UNCHANGED <<bm, choice, mutex, mem, answer, cast>>
      BY <1>6 DEF ReadBm
    <2>2. /\ pc'[v] = "readbmi" /\ \A u \in Voters : u # v => pc'[u] = pc[u] /\ read'[u] = read[u]
          /\ read'[v] = Read(bm) /\ DOMAIN read' = Voters
      BY <1>t, <2>1 DEF Goto, TypeOK, RaceInv
    <2>3. \A u \in Voters : pc[u] = "failed" => pc'[u] = "failed"
      BY <2>1, <2>2
    <2>4. \A c : Excused(c) => Excused(c)'
      BY <1>t, <2>1, <2>3, ExcusedGoesOn
    <2>5. HasRead'
      <3> SUFFICES ASSUME NEW u \in Voters, pc'[u] = "readbmi", read'[u].size >= 2 * blockSize
                   PROVE  /\ Excused(read[u])'
                          /\ \A n \in 1..Len(cast') : cast'[n] = u => AtLeast(read[u], cast, n)'
        BY DEF HasRead
      <3>1. PICK c : c = read'[u]  OBVIOUS
      <3>2. Excused(c) /\ \A n \in 1..Len(cast) : cast[n] = u => AtLeast(c, cast, n)
        <4>1. CASE u # v
          BY <2>2, <3>1, <4>1 DEF RaceInv, HasRead
        <4>2. CASE u = v
          <5>1. c = Read(bm)  BY <2>2, <3>1, <4>2
          <5>2. CASE bm.size = -1
            <6>1. Len(cast) = 0  BY <5>2 DEF IInv, MissingMeansNone
            <6>2. \A j \in 1..blockSize : c.bit[blockSize + j - 1] = 0
              BY <5>1, <5>2 DEF Read, Zeros, File
            <6>3. ASSUME NEW j \in Beyond(c, cast) PROVE FALSE
              <7>1. j \in 1..blockSize /\ c.bit[blockSize + j - 1] = 1
                BY <6>3 DEF Beyond
              <7>2. c.bit[blockSize + j - 1] = 0  BY <6>2, <7>1
              <7> QED  BY <7>1, <7>2
            <6>4. Beyond(c, cast) = {}  BY <6>3
            <6> QED  BY <6>1, <6>4 DEF Excused
          <5>3. CASE bm.size # -1
            <6>1. c = bm  BY <5>1, <5>3 DEF Read
            <6>2. Excused(c) /\ VotesOf(c, cast)
              BY <3>1, <6>1 DEF RaceInv, LeftoverIsNext, IInv, VotesExact
            <6> QED  BY <1>t, <6>2 DEF AtLeast, VotesOf
          <5> QED  BY <5>2, <5>3
        <4> QED  BY <4>1, <4>2
      <3>3. Excused(c)'  BY <2>4, <3>2
      <3> QED  BY <2>1, <3>1, <3>2, <3>3, ExcusedIsOfValue DEF AtLeast
    <2>6. SavedAreDone'
      BY <1>t, <2>1, <2>2 DEF SavedAreDone
    <2>7. AnswerWithinRace'
      <3>1. \A u \in Voters : pc'[u] = "answered" => pc[u] = "answered"  BY <2>1, <2>2
      <3> QED  BY <1>t, <2>1, <2>3, <3>1, AnswersStay
    <2> QED  BY <1>f, <2>1, <2>2, <2>4, <2>5, <2>6, <2>7 DEF RaceInv, Answers
  <1>7. ASSUME NEW v \in Voters, Answer(v) PROVE RaceInv'
    <2> DEFINE m == Read(bmi)
               a == GetStats(read[v], m)
    <2>1. /\ pc[v] = "readbmi" /\ read' = [read EXCEPT ![v] = Emptied]
          /\ \/ Goto(v, "failed") /\ UNCHANGED answer
             \/ Goto(v, "answered") /\ ~StatsPanic(read[v], m) /\ answer' = [answer EXCEPT ![v] = a]
          /\ UNCHANGED <<bm, choice, mutex, mem, cast>>
      BY <1>7 DEF Answer
    <2>2. \A u \in Voters \ {v} : pc'[u] = pc[u] /\ read'[u] = read[u] /\ answer'[u] = answer[u]
      BY <1>t, <2>1 DEF Goto, TypeOK, RaceInv
    <2>3. pc'[v] \in {"failed", "answered"} /\ \A u \in Voters : pc[u] = "failed" => pc'[u] = "failed"
      BY <1>t, <2>1, <2>2 DEF Goto, TypeOK
    <2>4. \A c : Excused(c) => Excused(c)'
      BY <1>t, <2>1, <2>3, ExcusedGoesOn
    <2>5. HasRead'
      <3> SUFFICES ASSUME NEW u \in Voters, pc'[u] = "readbmi", read'[u].size >= 2 * blockSize
                   PROVE  /\ Excused(read[u])'
                          /\ \A n \in 1..Len(cast') : cast'[n] = u => AtLeast(read[u], cast, n)'
        BY DEF HasRead
      <3>1. PICK c : c = read[u]  OBVIOUS
      <3>2. u # v /\ read'[u] = c /\ pc[u] = "readbmi"  BY <2>2, <2>3, <3>1
      <3>3. Excused(c) /\ \A n \in 1..Len(cast) : cast[n] = u => AtLeast(c, cast, n)
        BY <3>1, <3>2 DEF RaceInv, HasRead
      <3>4. Excused(c)'  BY <2>4, <3>3
      <3> QED  BY <2>1, <3>2, <3>3, <3>4, ExcusedIsOfValue DEF AtLeast
    <2>6. DOMAIN answer' = Voters /\ DOMAIN read' = Voters /\ Answers'
      BY <2>1, StatsAreNumbers DEF RaceInv, Answers
    <2>7. SavedAreDone'
      BY <1>t, <2>1, <2>2, <2>3 DEF SavedAreDone
    <2>8. AnswerWithinRace'
      <3> SUFFICES ASSUME NEW n \in 1..Len(cast), pc'[cast[n]] = "answered", Len(cast) <= blockSize
                   PROVE  LET c == answer'[cast[n]]
                          IN  /\ n <= c.total /\ c.total <= Len(cast)
                              /\ CredibleIn(n) <= c.credible
                              /\ c.credible <= CredibleIn(Len(cast)) + (IF Unsaved' = {} THEN 0 ELSE 1)
        BY <2>1 DEF AnswerWithinRace, CredibleIn
      <3>0. Unsaved \subseteq Unsaved'  BY <1>t, <2>1, <2>3, UnsavedStay
      <3>1. cast[n] \in Voters  BY <1>t
      <3>2. CASE cast[n] # v
        <4> DEFINE c == answer[cast[n]]
        <4>1. pc[cast[n]] = "answered" /\ answer'[cast[n]] = c  BY <2>2, <3>1, <3>2
        <4>2. /\ n <= c.total /\ c.total <= Len(cast) /\ CredibleIn(n) <= c.credible
              /\ c.credible <= CredibleIn(Len(cast)) + (IF Unsaved = {} THEN 0 ELSE 1)
          BY <4>1 DEF RaceInv, AnswerWithinRace
        <4>3. CredibleIn(Len(cast)) \in Nat /\ c.credible \in Nat
          BY <1>t, <3>1, CrediblesAreFinite DEF RaceInv, Answers, CredibleIn, Credibles
        <4> QED  BY <3>0, <4>1, <4>2, <4>3
      <3>3. CASE cast[n] = v
        <4>1. Goto(v, "answered") /\ ~StatsPanic(read[v], m) /\ answer'[v] = a
          BY <1>t, <2>1, <3>3 DEF Goto, TypeOK, RaceInv
        <4>2. cast # <<>>  BY <1>t
        <4>3. bmi.size # -1 /\ m = bmi  BY <4>2 DEF IInv, MissingMeansNone, Read
        <4>4. /\ IsFile(m) /\ m.size \in Int /\ IsFile(read[v]) /\ read[v].size \in Int
              /\ m.size >= 2 * blockSize
          BY <1>t, <3>1, <3>3, <4>1, <4>3, FilesAndCast, FilesAreWholeOrNot DEF TypeOK, StatsPanic
        <4>5. MarksOf(m, cast) /\ Confined(m, cast)
          BY <4>3, <4>4 DEF IInv, MarksExact, MarksConfined
        <4>6. read[v].size >= 2 * blockSize
          <5>1. GetStats(m, m) = [credible |-> Cardinality(CredibleMarks(m, m)),
                                  total    |-> Cardinality({p \in Block(1) : Marked(m, p)})]
            BY <4>5, StatsOfBlock1 DEF Confined
          <5>2. Cardinality({p \in Block(1) : Marked(m, p)}) = Within(cast)
            BY <1>t, <4>4, <4>5, MarkedCount
          <5>3. GetStats(m, m).total > 0  BY <1>t, <5>1, <5>2 DEF Within
          <5> QED  BY <4>1, <4>4, <5>3 DEF StatsPanic
        <4>7. /\ Excused(read[v]) /\ AtLeast(read[v], cast, n)
          BY <2>1, <3>1, <3>3, <4>6 DEF RaceInv, HasRead
        <4> DEFINE X == Beyond(read[v], cast) \cap (1..Len(cast))
        <4>8. /\ X \in SUBSET Int
              /\ \A j \in 1..Len(cast) :
                    read[v].bit[blockSize + j - 1] = 1 => choice[cast[j]] = 1 \/ j \in X
          BY <1>t DEF Beyond
        <4>9. X # {} => Unsaved # {}
          <5> SUFFICES ASSUME NEW j \in X, NEW w \in mutex, Beyond(read[v], Append(cast, w)) = {}
                       PROVE  FALSE
            BY <4>7 DEF Excused
          <5>1. /\ j \in 1..blockSize /\ j \in 1..Len(cast) /\ read[v].bit[blockSize + j - 1] = 1
                /\ choice[cast[j]] # 1
            BY DEF Beyond
          <5>2. Append(cast, w)[j] = cast[j]  BY <1>t, <5>1
          <5>3. choice[Append(cast, w)[j]] = 1  BY <5>1 DEF Beyond
          <5> QED  BY <5>1, <5>2, <5>3
        <4>10. X = {} \/ \E x \in Int : X = {x}
          <5>1. \A i, j \in X : i = j  BY <4>7 DEF Excused
          <5> HIDE DEF X
          <5> QED  BY <4>8, <5>1
        <4> DEFINE C == Credibles(cast, Len(cast))
        <4>11. /\ IsFiniteSet(X) /\ Cardinality(C) \in Nat
               /\ Cardinality(C \cup X) <= Cardinality(C) + (IF Unsaved = {} THEN 0 ELSE 1)
          <5>1. IsFiniteSet(C) /\ Cardinality(C) \in Nat  BY <1>t, CrediblesAreFinite
          <5> HIDE DEF X, C
          <5>2. CASE X = {}
            <6>1. C \cup X = C  BY <5>2
            <6> QED  BY <5>1, <5>2, <6>1, FS_EmptySet
          <5>3. CASE X # {}
            <6>1. PICK x \in Int : X = {x}  BY <4>10, <5>3
            <6>2. Cardinality(C \cup {x}) = IF x \in C THEN Cardinality(C) ELSE Cardinality(C) + 1
              BY <5>1, FS_AddElement
            <6>3. IsFiniteSet(X)  BY <6>1, FS_Singleton
            <6> QED  BY <4>9, <5>1, <5>3, <6>1, <6>2, <6>3
          <5> QED  BY <5>2, <5>3
        <4>12. /\ a.total = Len(cast) /\ a.credible \in Nat
               /\ Cardinality(Credibles(cast, n)) <= a.credible
               /\ a.credible <= Cardinality(C \cup X)
          <5> HIDE DEF X
          <5> QED
            BY <1>t, <4>4, <4>5, <4>6, <4>7, <4>8, <4>11, AnswerIsBetween DEF Confined
        <4>13. Cardinality(C \cup X) \in Nat
          <5>1. IsFiniteSet(C)  BY <1>t, CrediblesAreFinite
          <5> HIDE DEF X, C
          <5> QED  BY <4>11, <5>1, FS_Union, FS_CardinalityType
        <4>14. CredibleIn(n) = Cardinality(Credibles(cast, n)) /\ CredibleIn(Len(cast)) = Cardinality(C)
          BY DEF CredibleIn, Credibles
        <4>15. (IF Unsaved = {} THEN 0 ELSE 1) <= (IF Unsaved' = {} THEN 0 ELSE 1)
          BY <3>0
        <4> HIDE DEF C, X
        <4> QED  BY <1>t, <3>3, <4>1, <4>11, <4>12, <4>13, <4>14, <4>15
      <3> QED  BY <3>2, <3>3
    <2> QED  BY <1>f, <2>1, <2>4, <2>5, <2>6, <2>7, <2>8 DEF RaceInv
  <1>8. CASE Crash
    <2>1. /\ mutex' = {} /\ read' = [v \in Voters |-> Emptied] /\ UNCHANGED <<bm, choice, answer, cast>>
          /\ pc' = [v \in Voters |-> IF pc[v] \in {"idle", "answered"} THEN pc[v] ELSE "failed"]
      BY <1>8 DEF Crash
    <2>2. /\ pc' \in [Voters -> Stages] /\ DOMAIN read' = Voters
          /\ \A u \in Voters : pc[u] = "failed" => pc'[u] = "failed"
          /\ \A u \in Voters : pc'[u] = "answered" => pc[u] = "answered"
          /\ \A u \in Voters : pc'[u] # "readbmi"
          /\ \A u \in Voters : pc'[u] \in {"idle"} \cup Writing => pc[u] \in {"idle"} \cup Writing
          /\ \A v \in mutex : pc'[v] = "failed"
      BY <1>t, <2>1 DEF Stages, Writing, TypeOK
    <2>3. \A c : Excused(c) => Excused(c)'
      BY <1>t, <2>1, <2>2, ExcusedGoesOn
    <2>4. /\ HasRead' /\ SavedAreDone' /\ Answers' /\ AnswerWithinRace'
          /\ DOMAIN answer' = Voters /\ DOMAIN read' = Voters
      BY <1>t, <2>1, <2>2, RaceElsewhere
    <2> QED  BY <1>f, <2>1, <2>3, <2>4 DEF RaceInv
  <1>9. CASE UNCHANGED vars
    <2>1. UNCHANGED <<cast, choice, answer, read, pc, mutex, mem, bm>>  BY <1>9 DEF vars
    <2>2. /\ \A u \in Voters : pc[u] = "failed" => pc'[u] = "failed"
          /\ \A u \in Voters : pc'[u] = "answered" => pc[u] = "answered"
          /\ \A u \in Voters : pc'[u] = "readbmi" => pc[u] = "readbmi" /\ read'[u] = read[u]
          /\ \A u \in Voters : pc'[u] \in {"idle"} \cup Writing => pc[u] \in {"idle"} \cup Writing
          /\ pc' \in [Voters -> Stages] /\ DOMAIN read' = Voters
          /\ \A v \in mutex : v \in mutex' \/ pc'[v] = "failed"
      BY <1>t, <2>1 DEF TypeOK, RaceInv
    <2>3. \A c : Excused(c) => Excused(c)'
      BY <1>t, <2>1, <2>2, ExcusedGoesOn
    <2>4. /\ HasRead' /\ SavedAreDone' /\ Answers' /\ AnswerWithinRace'
          /\ DOMAIN answer' = Voters /\ DOMAIN read' = Voters
      BY <1>t, <2>1, <2>2, RaceElsewhere
    <2> QED  BY <1>f, <2>1, <2>3, <2>4 DEF RaceInv
  <1> QED
    BY <1>1, <1>2, <1>3, <1>4, <1>5, <1>6, <1>7, <1>8, <1>9 DEF Next, Step, AllVoted

\* The statistics a vote is answered with count that vote and all before it,
\* no more votes than were saved, and one credible vote too many at most, left
\* behind by one that failed, although GetStats reads the two files without the
\* mutex, at two moments, while other votes empty and rewrite them, or fail to.
THEOREM AnswersAreWithinRace == Spec => []AnswerWithinRace
  <1>1. RaceInv => AnswerWithinRace  BY DEF RaceInv
  <1> QED
    BY <1>1, RaceInit, RaceStep, InvInit, InvStep, ConfinedInit, ConfinedStep, PTL DEF Spec
=============================================================================
