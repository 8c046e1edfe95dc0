----------------------------- MODULE FormatProofs -----------------------------
(***************************************************************************)
(* Texts and messages are taken apart as they were put together, whatever  *)
(* they hold: RecordTokens for all texts, WechatMessage for all bytes.     *)
(***************************************************************************)
EXTENDS RecordTokens, WechatMessage, SequenceTheorems, TLAPS

\* Two sequences, one after the other.
IsConcat(S, ab, a, b) ==
    /\ ab \in Seq(S) /\ Len(a) \in Nat /\ Len(b) \in Nat
    /\ Len(ab) = Len(a) + Len(b)
    /\ \A i \in 1..Len(a) : ab[i] = a[i]
    /\ \A i \in 1..Len(b) : ab[Len(a) + i] = b[i]
    /\ SubSeq(ab, 1, Len(a)) = a
    /\ SubSeq(ab, Len(a) + 1, Len(a) + Len(b)) = b

\* What is put together comes apart again.
LEMMA Apart ==
  ASSUME NEW S, NEW a \in Seq(S), NEW b \in Seq(S)
  PROVE  IsConcat(S, a \o b, a, b)
  <1> DEFINE ab == a \o b
  <1>0. Len(a) \in Nat /\ Len(b) \in Nat
    BY LenProperties
  <1>1. /\ ab \in Seq(S) /\ Len(ab) = Len(a) + Len(b)
        /\ Len(a) \in Nat /\ Len(b) \in Nat
    BY <1>0, ConcatProperties
  <1>2. \A i \in 1..(Len(a) + Len(b)) : ab[i] = IF i <= Len(a) THEN a[i] ELSE b[i - Len(a)]
    BY ConcatProperties
  <1>3. \A i \in 1..(Len(a) + Len(b)) : ab[i] \in S
    BY <1>1, ElementOfSeq
  <1>4. \A i \in 1..Len(a) : ab[i] = a[i]
    BY <1>1, <1>2
  <1>5. \A i \in 1..Len(b) : ab[Len(a) + i] = b[i]
    BY <1>1, <1>2
  <1>6. SubSeq(ab, 1, Len(a)) = a
    <2>1. /\ SubSeq(ab, 1, Len(a)) \in Seq(S)
          /\ Len(SubSeq(ab, 1, Len(a))) = Len(a)
          /\ \A i \in 1..Len(a) : SubSeq(ab, 1, Len(a))[i] = ab[i]
      <3> HIDE DEF ab
      <3>1. \A i \in 1..Len(a) : ab[i] \in S  BY <1>1, <1>3
      <3> QED  BY <1>1, <3>1, SubSeqProperties
    <2> QED  BY <2>1, <1>4, SeqEqual
  <1>7. SubSeq(ab, Len(a) + 1, Len(a) + Len(b)) = b
    <2> DEFINE rest == SubSeq(ab, Len(a) + 1, Len(a) + Len(b))
    <2>1. /\ rest \in Seq(S)
          /\ Len(rest) = Len(b)
          /\ \A i \in 1..Len(b) : rest[i] = ab[Len(a) + i]
      <3> HIDE DEF ab
      <3>1. \A i \in (Len(a) + 1)..(Len(a) + Len(b)) : ab[i] \in S  BY <1>1, <1>3
      <3> QED  BY <1>1, <3>1, SubSeqProperties
    <2> HIDE DEF rest
    <2> QED  BY <2>1, <1>5, SeqEqual
  <1> QED  BY <1>1, <1>4, <1>5, <1>6, <1>7 DEF IsConcat

-----------------------------------------------------------------------------
(* Records and tokens.                                                     *)

\* Two texts with a dash between them.
IsJoined(S, t, a, b) ==
    /\ t \in Seq(S) /\ Len(a) \in Nat /\ Len(b) \in Nat
    /\ Len(t) = Len(a) + 1 + Len(b)
    /\ t[Len(a) + 1] = Dash
    /\ SubSeq(t, 1, Len(a)) = a
    /\ SubSeq(t, Len(a) + 2, Len(t)) = b
    /\ \A i \in 1..Len(a) : t[i] = a[i]
    /\ \A i \in 1..Len(b) : t[Len(a) + 1 + i] = b[i]

\* Joined puts a dash between two texts.
LEMMA JoinedFacts ==
  ASSUME NEW S, NEW a \in Seq(S), NEW b \in Seq(S), Dash \in S
  PROVE  IsJoined(S, Joined(a, b), a, b)
  <1> DEFINE h == a \o <<Dash>>
  <1>1. <<Dash>> \in Seq(S) /\ Len(<<Dash>>) = 1 /\ <<Dash>>[1] = Dash  OBVIOUS
  <1>2. Len(a) \in Nat /\ Len(b) \in Nat  BY LenProperties
  <1>3. /\ h \in Seq(S) /\ Len(h) = Len(a) + 1
        /\ \A i \in 1..Len(a) : h[i] = a[i]
        /\ h[Len(a) + 1] = Dash
    BY <1>1, <1>2, Apart DEF IsConcat
  <1>4. /\ Joined(a, b) = h \o b
        /\ Joined(a, b) = a \o (<<Dash>> \o b)
    <2>1. Joined(a, b) = h \o b  BY DEF Joined
    <2>2. h \o b = a \o (<<Dash>> \o b)  BY <1>1, ConcatAssociative
    <2> QED  BY <2>1, <2>2
  <1>5. /\ Joined(a, b) \in Seq(S)
        /\ Len(Joined(a, b)) = Len(h) + Len(b)
        /\ \A i \in 1..Len(h) : Joined(a, b)[i] = h[i]
        /\ \A i \in 1..Len(b) : Joined(a, b)[Len(h) + i] = b[i]
        /\ SubSeq(Joined(a, b), Len(h) + 1, Len(h) + Len(b)) = b
    BY <1>3, <1>4, Apart DEF IsConcat
  <1>6. SubSeq(Joined(a, b), 1, Len(a)) = a
    BY <1>1, <1>4, Apart DEF IsConcat
  <1> HIDE DEF h
  <1>7. /\ Len(Joined(a, b)) = Len(a) + 1 + Len(b)
        /\ Joined(a, b)[Len(a) + 1] = Dash
        /\ \A i \in 1..Len(a) : Joined(a, b)[i] = a[i]
        /\ \A i \in 1..Len(b) : Joined(a, b)[Len(a) + 1 + i] = b[i]
    BY <1>2, <1>3, <1>5
  <1>8. SubSeq(Joined(a, b), Len(a) + 2, Len(a) + 1 + Len(b)) = b
    BY <1>2, <1>3, <1>5
  <1> QED  BY <1>2, <1>5, <1>6, <1>7, <1>8 DEF IsJoined

\* Where its dashes are.
LEMMA JoinedDashes ==
  ASSUME NEW S, NEW t, NEW a, NEW b, IsJoined(S, t, a, b), Plain(b)
  PROVE  /\ Len(a) + 1 \in Dashes(t)
         /\ \A k \in Dashes(t) : k \in Nat /\ k <= Len(a) + 1
         /\ Plain(a) => Dashes(t) = {Len(a) + 1}
  <1>1. /\ Len(t) = Len(a) + 1 + Len(b) /\ Len(a) \in Nat /\ Len(b) \in Nat
        /\ t[Len(a) + 1] = Dash
        /\ \A i \in 1..Len(a) : t[i] = a[i]
        /\ \A i \in 1..Len(b) : t[Len(a) + 1 + i] = b[i]
    BY DEF IsJoined
  <1>2. Len(a) + 1 \in Dashes(t)  BY <1>1 DEF Dashes
  <1>3. ASSUME NEW k \in Dashes(t) PROVE k \in Nat /\ k <= Len(a) + 1
    <2>1. k \in 1..Len(t) /\ t[k] = Dash  BY <1>3 DEF Dashes
    <2>2. SUFFICES ASSUME k > Len(a) + 1 PROVE FALSE  BY <2>1, <1>1
    <2>3. k - (Len(a) + 1) \in 1..Len(b)  BY <2>1, <2>2, <1>1
    <2>4. t[Len(a) + 1 + (k - (Len(a) + 1))] = b[k - (Len(a) + 1)]  BY <2>3, <1>1
    <2>5. Len(a) + 1 + (k - (Len(a) + 1)) = k  BY <2>1, <1>1
    <2> QED  BY <2>1, <2>3, <2>4, <2>5 DEF Plain, Dashes
  <1>4. ASSUME Plain(a), NEW k \in Dashes(t) PROVE k = Len(a) + 1
    <2>1. k \in 1..Len(t) /\ t[k] = Dash /\ k <= Len(a) + 1  BY <1>3, <1>4 DEF Dashes
    <2>2. k \notin 1..Len(a)  BY <2>1, <1>1, <1>4 DEF Plain, Dashes
    <2> QED  BY <2>1, <2>2, <1>1
  <1> QED  BY <1>2, <1>3, <1>4

\* A token comes apart into what CommitRecord joined, even if it holds dashes,
\* as long as the id holds none and is not empty.
THEOREM TokensAreParsed ==
  ASSUME NEW S, NEW token \in Seq(S), NEW id \in Seq(S),
         Dash \in S, Plain(id), Len(id) > 0
  PROVE  ParseTokenAndID(FullToken(token, id)) = {<<token, id>>}
  <1> DEFINE t == Joined(token, id)
             d == Len(token) + 1
  <1>0. IsJoined(S, t, token, id)  BY JoinedFacts
  <1>1. /\ Len(t) = d + Len(id) /\ d \in Nat /\ Len(id) \in Nat
        /\ SubSeq(t, 1, d - 1) = token
        /\ SubSeq(t, d + 1, Len(t)) = id
    <2>1. d - 1 = Len(token) /\ d + 1 = Len(token) + 2  BY <1>0 DEF IsJoined
    <2> QED  BY <1>0, <2>1 DEF IsJoined
  <1>2. d \in Dashes(t) /\ \A k \in Dashes(t) : k \in Nat /\ k <= d
    BY <1>0, JoinedDashes
  <1> HIDE DEF t, d
  <1>3. {i \in Dashes(t) \ {Len(t)} : \A k \in Dashes(t) : k <= i} = {d}
    <2>1. d # Len(t)  BY <1>1
    <2>2. ASSUME NEW i \in Dashes(t), \A k \in Dashes(t) : k <= i PROVE i = d
      <3>1. i \in Nat /\ i <= d /\ d <= i  BY <1>2, <2>2
      <3> QED  BY <3>1, <1>1
    <2> QED  BY <1>2, <2>1, <2>2
  <1>4. ParseTokenAndID(t) = {<<SubSeq(t, 1, d - 1), SubSeq(t, d + 1, Len(t))>>}
    BY <1>3 DEF ParseTokenAndID
  <1> QED  BY <1>1, <1>4 DEF FullToken, t

\* The id that goes into the token is the one in the names of the files.
THEOREM IDsAreTaken ==
  ASSUME NEW S, NEW timestamp \in Seq(S), NEW id \in Seq(S),
         Dash \in S, Plain(timestamp), Plain(id)
  PROVE  IDOfPrefix(FileNamePrefix(timestamp, id)) = {id}
  <1> DEFINE t == Joined(timestamp, id)
             d == Len(timestamp) + 1
  <1>0. IsJoined(S, t, timestamp, id)  BY JoinedFacts
  <1>1. /\ Len(t) = d + Len(id) /\ d \in Nat /\ Len(id) \in Nat
        /\ SubSeq(t, d + 1, Len(t)) = id
    <2>1. d + 1 = Len(timestamp) + 2  BY <1>0 DEF IsJoined
    <2> QED  BY <1>0, <2>1 DEF IsJoined
  <1>2. Dashes(t) = {d}
    BY <1>0, JoinedDashes
  <1> HIDE DEF t, d
  <1>3. {i \in Dashes(t) : \A k \in Dashes(t) : i <= k} = {d}
    BY <1>1, <1>2
  <1>4. PartEnds(t, d) = {Len(t) + 1}
    BY <1>1, <1>2 DEF PartEnds
  <1>5. IDOfPrefix(t) = {SubSeq(t, d + 1, Len(t) + 1 - 1)}
    <2> DEFINE Parts(i) == {SubSeq(t, i + 1, j - 1) : j \in PartEnds(t, i)}
    <2>1. IDOfPrefix(t) = UNION {Parts(i) : i \in {d}}
      BY <1>3 DEF IDOfPrefix
    <2>2. Parts(d) = {SubSeq(t, d + 1, Len(t) + 1 - 1)}
      BY <1>4
    <2> HIDE DEF Parts
    <2>3. UNION {Parts(i) : i \in {d}} = Parts(d)  OBVIOUS
    <2> QED  BY <2>1, <2>2, <2>3
  <1>6. Len(t) + 1 - 1 = Len(t)  BY <1>1
  <1> QED  BY <1>1, <1>5, <1>6 DEF FileNamePrefix, t

\* Of all records, the pattern of an id finds those that have this id, when
\* the id is literal, as every id is that the service has given out.
THEOREM OwnRecordIsFound ==
  ASSUME NEW S, NEW timestamp \in Seq(S), NEW own \in Seq(S), NEW id \in Seq(S),
         Dash \in S, Plain(own), Plain(id), Literal(id)
  PROVE  Found({FileNamePrefix(timestamp, own)}, id) # {} <=> own = id
  <1> DEFINE t == Joined(timestamp, own)
             d == Len(timestamp) + 1
             e == Len(t) - Len(id)
             tail == SubSeq(t, e, Len(t))
             wanted == <<Dash>> \o id
  <1>0. IsJoined(S, t, timestamp, own)  BY JoinedFacts
  <1>1. /\ t \in Seq(S) /\ Len(t) = d + Len(own) /\ d \in Nat /\ d > 0
        /\ Len(own) \in Nat /\ Len(id) \in Nat
        /\ t[d] = Dash
        /\ SubSeq(t, d + 1, Len(t)) = own
        /\ \A i \in 1..Len(own) : t[d + i] = own[i]
    <2>1. Len(id) \in Nat  BY LenProperties
    <2>2. d + 1 = Len(timestamp) + 2  BY <1>0 DEF IsJoined
    <2> QED  BY <1>0, <2>1, <2>2 DEF IsJoined
  <1>2. /\ wanted \in Seq(S) /\ Len(wanted) = Len(id) + 1
        /\ wanted[1] = Dash
        /\ \A i \in 1..Len(id) : wanted[1 + i] = id[i]
    <2>1. <<Dash>> \in Seq(S) /\ Len(<<Dash>>) = 1 /\ <<Dash>>[1] = Dash  OBVIOUS
    <2>2. IsConcat(S, wanted, <<Dash>>, id)  BY <2>1, Apart
    <2> QED  BY <2>1, <2>2 DEF IsConcat
  <1>3. Found({t}, id) # {} <=> Len(t) > Len(id) /\ tail = wanted
    BY DEF Found
  <1>4. \A k \in Dashes(t) : k \in Nat /\ k <= d
    BY <1>0, JoinedDashes
  <1> HIDE DEF t, d, wanted
  <1>5. ASSUME Len(t) > Len(id)
        PROVE  /\ tail \in Seq(S) /\ Len(tail) = Len(id) + 1 /\ e \in Nat /\ e > 0
               /\ \A i \in 1..(Len(id) + 1) : tail[i] = t[e + i - 1]
    <2>1. e \in Nat /\ e > 0 /\ Len(t) \in Nat /\ e <= Len(t)  BY <1>1, <1>5
    <2>2. \A i \in e..Len(t) : t[i] \in S  BY <1>1, <2>1, ElementOfSeq
    <2>3. Len(t) - e + 1 = Len(id) + 1  BY <1>1
    <2> HIDE DEF e
    <2> QED  BY <2>1, <2>2, <2>3, SubSeqProperties
  <1> HIDE DEF tail
  <1>6. ASSUME Len(t) > Len(id), tail = wanted PROVE own = id
    <2>1. t[e] = Dash
      <3>1. tail[1] = t[e + 1 - 1]  BY <1>1, <1>5, <1>6
      <3>2. e + 1 - 1 = e  BY <1>1
      <3> QED  BY <3>1, <3>2, <1>2, <1>6
    <2>2. e <= d
      BY <2>1, <1>1, <1>4, <1>5, <1>6 DEF Dashes
    <2>3. e >= d
      <3>1. SUFFICES ASSUME e < d PROVE FALSE  BY <1>1
      <3>2. d - e \in 1..Len(id)  BY <3>1, <1>1, <1>5, <1>6
      <3>3. wanted[1 + (d - e)] = id[d - e]  BY <3>2, <1>2
      <3>4. tail[1 + (d - e)] = t[e + (1 + (d - e)) - 1]
        <4>1. 1 + (d - e) \in 1..(Len(id) + 1)  BY <3>2, <1>1
        <4> QED  BY <4>1, <1>5, <1>6
      <3>5. e + (1 + (d - e)) - 1 = d  BY <1>1
      <3>6. id[d - e] = Dash  BY <3>3, <3>4, <3>5, <1>1, <1>6
      <3> QED  BY <3>2, <3>6 DEF Plain, Dashes
    <2>4. e = d /\ Len(own) = Len(id)  BY <2>2, <2>3, <1>1
    <2>5. ASSUME NEW i \in 1..Len(own) PROVE own[i] = id[i]
      <3>1. tail[1 + i] = t[e + (1 + i) - 1]  BY <2>4, <1>1, <1>5, <1>6
      <3>2. e + (1 + i) - 1 = d + i  BY <2>4, <1>1
      <3>3. wanted[1 + i] = id[i]  BY <2>4, <1>2
      <3> QED  BY <3>1, <3>2, <3>3, <1>1, <1>6
    <2> QED  BY <2>4, <2>5, SeqEqual
  <1>7. ASSUME own = id PROVE Len(t) > Len(id) /\ tail = wanted
    <2>1. Len(t) > Len(id) /\ e = d  BY <1>1, <1>7
    <2>2. ASSUME NEW i \in 1..(Len(id) + 1) PROVE tail[i] = wanted[i]
      <3>1. tail[i] = t[e + i - 1]  BY <2>1, <1>5
      <3>2. CASE i = 1
        <4>1. e + i - 1 = d  BY <3>2, <2>1, <1>1
        <4> QED  BY <3>1, <3>2, <4>1, <1>1, <1>2
      <3>3. CASE i # 1
        <4>1. i - 1 \in 1..Len(id) /\ e + i - 1 = d + (i - 1) /\ 1 + (i - 1) = i
          <5>1. Len(id) \in Nat /\ d \in Nat /\ e = d  BY <2>1, <1>1
          <5>2. i \in Nat /\ 1 < i /\ i <= Len(id) + 1  BY <3>3, <5>1
          <5> HIDE DEF e
          <5> QED  BY <5>1, <5>2
        <4>2. wanted[1 + (i - 1)] = id[i - 1] /\ t[d + (i - 1)] = own[i - 1]
          BY <4>1, <1>1, <1>2, <1>7
        <4> QED  BY <3>1, <4>1, <4>2, <1>7
      <3> QED  BY <3>2, <3>3
    <2> QED  BY <2>1, <2>2, <1>2, <1>5, SeqEqual
  <1> QED  BY <1>3, <1>6, <1>7 DEF FileNamePrefix, t

-----------------------------------------------------------------------------
(* Messages.                                                               *)

\* The length field holds a length of 32 bits, in four bytes.
LEMMA LengthFieldFacts ==
  ASSUME NEW n \in Nat, High(High(High(n))) < 256, NEW f, f = LengthField(n)
  PROVE  /\ f \in Seq(Byte)
         /\ Len(f) = 4
         /\ ((f[1] * 256 + f[2]) * 256 + f[3]) * 256 + f[4] = n
         /\ f[1] = High(High(High(n)))
  <1> DEFINE a == High(High(High(n)))
             b == High(High(n)) % 256
             c == High(n) % 256
             d == n % 256
  <1>1. ASSUME NEW m \in Nat
        PROVE  High(m) \in Nat /\ m % 256 \in 0..255 /\ High(m) * 256 + (m % 256) = m
    BY DEF High
  <1>2. High(n) \in Nat /\ High(High(n)) \in Nat /\ a \in 0..255
    <2>1. High(n) \in Nat  BY <1>1
    <2>2. High(High(n)) \in Nat  BY <1>1, <2>1
    <2>3. a \in Nat  BY <1>1, <2>2
    <2> QED  BY <2>1, <2>2, <2>3
  <1>3. /\ b \in 0..255 /\ c \in 0..255 /\ d \in 0..255
        /\ a * 256 + b = High(High(n)) /\ High(High(n)) * 256 + c = High(n)
        /\ High(n) * 256 + d = n
    <2>1. d \in 0..255 /\ High(n) * 256 + d = n  BY <1>1
    <2>2. c \in 0..255 /\ High(High(n)) * 256 + c = High(n)  BY <1>1, <1>2
    <2>3. b \in 0..255 /\ a * 256 + b = High(High(n))  BY <1>1, <1>2
    <2> QED  BY <2>1, <2>2, <2>3
  <1>4. f = <<a, b, c, d>>
    BY DEF LengthField
  <1> HIDE DEF a, b, c, d
  <1>5. <<a, b, c, d>> \in Seq(Byte)
    BY <1>2, <1>3 DEF Byte
  <1>6. ((a * 256 + b) * 256 + c) * 256 + d = n
    BY <1>2, <1>3
  <1>7. a = High(High(High(n)))
    BY DEF a
  <1> QED  BY <1>4, <1>5, <1>6, <1>7

\* What a frame holds, and where.
IsFrame(p, message, appID) ==
    /\ p \in Seq(Byte)
    /\ Len(p) = 20 + Len(message) + Len(appID)
    /\ MessageLength(p) = Len(message)
    /\ p[17] = High(High(High(Len(message))))
    /\ Content(p) = message
    /\ SubSeq(p, 21 + Len(message), Len(p)) = appID

\* A frame holds its parts.
LEMMA FrameFacts ==
  ASSUME NEW random \in Seq(Byte), Len(random) = 16,
         NEW message \in Seq(Byte), High(High(High(Len(message)))) < 256,
         NEW appID \in Seq(Byte)
  PROVE  IsFrame(Frame(random, message, appID), message, appID)
  <1> DEFINE n == Len(message)
             f == LengthField(n)
             rf == random \o f
             rfm == rf \o message
             p == rfm \o appID
  <1>1. n \in Nat /\ Len(appID) \in Nat  BY LenProperties
  <1>2. /\ f \in Seq(Byte) /\ Len(f) = 4
        /\ ((f[1] * 256 + f[2]) * 256 + f[3]) * 256 + f[4] = n
        /\ f[1] = High(High(High(n)))
    BY <1>1, LengthFieldFacts
  <1> HIDE DEF f
  <1>3. /\ rf \in Seq(Byte) /\ Len(rf) = 20
        /\ rf[17] = f[1] /\ rf[18] = f[2] /\ rf[19] = f[3] /\ rf[20] = f[4]
    <2>1. /\ rf \in Seq(Byte) /\ Len(rf) = 16 + 4
          /\ \A i \in 1..4 : rf[16 + i] = f[i]
      <3>1. IsConcat(Byte, rf, random, f)  BY <1>2, Apart
      <3> QED  BY <1>2, <3>1 DEF IsConcat
    <2> HIDE DEF rf
    <2>2. rf[17] = f[1] /\ rf[18] = f[2] /\ rf[19] = f[3] /\ rf[20] = f[4]
      <3>1. 1 \in 1..4 /\ 2 \in 1..4 /\ 3 \in 1..4 /\ 4 \in 1..4  OBVIOUS
      <3>2. 16 + 1 = 17 /\ 16 + 2 = 18 /\ 16 + 3 = 19 /\ 16 + 4 = 20  OBVIOUS
      <3>3. rf[16 + 1] = f[1] /\ rf[16 + 2] = f[2]  BY <2>1, <3>1
      <3>4. rf[16 + 3] = f[3] /\ rf[16 + 4] = f[4]  BY <2>1, <3>1
      <3> QED  BY <3>2, <3>3, <3>4
    <2> QED  BY <2>1, <2>2
  <1> HIDE DEF rf
  <1>4. /\ rfm \in Seq(Byte) /\ Len(rfm) = 20 + n
        /\ \A i \in 1..20 : rfm[i] = rf[i]
        /\ \A i \in 1..n : rfm[20 + i] = message[i]
    <2>1. IsConcat(Byte, rfm, rf, message)  BY <1>3, Apart
    <2> QED  BY <1>3, <2>1 DEF IsConcat, n
  <1>5. /\ p \in Seq(Byte) /\ Len(p) = Len(rfm) + Len(appID)
        /\ \A i \in 1..Len(rfm) : p[i] = rfm[i]
        /\ SubSeq(p, Len(rfm) + 1, Len(rfm) + Len(appID)) = appID
    <2>1. IsConcat(Byte, p, rfm, appID)  BY <1>4, Apart
    <2> QED  BY <2>1 DEF IsConcat
  <1> HIDE DEF rfm, p, n
  <1>6. p[17] = f[1] /\ p[18] = f[2] /\ p[19] = f[3] /\ p[20] = f[4]
    <2>1. ASSUME NEW i \in 17..20 PROVE p[i] = rf[i]
      <3>0. Len(rfm) = 20 + n  BY <1>4
      <3>1. i \in 1..20 /\ i \in 1..Len(rfm)  BY <1>1, <3>0
      <3> QED  BY <3>1, <1>4, <1>5
    <2> QED  BY <2>1, <1>3
  <1>7. MessageLength(p) = n /\ p[17] = High(High(High(n)))
    BY <1>2, <1>6 DEF MessageLength
  <1>8. Content(p) = message
    <2>1. Content(p) = SubSeq(p, 21, 20 + n)
      BY <1>7 DEF Content
    <2>2. ASSUME NEW i \in 1..n PROVE p[20 + i] = message[i]
      <3>1. 20 + i \in 1..Len(rfm)  BY <1>1, <1>4
      <3> QED  BY <3>1, <1>4, <1>5
    <2>3. \A i \in 21..(20 + n) : p[i] \in Byte
      <3>1. Len(p) = 20 + n + Len(appID)  BY <1>4, <1>5
      <3>2. \A i \in 21..(20 + n) : i \in 1..Len(p)  BY <1>1, <3>1
      <3> QED  BY <1>5, <3>2, ElementOfSeq
    <2>4. /\ SubSeq(p, 21, 20 + n) \in Seq(Byte)
          /\ Len(SubSeq(p, 21, 20 + n)) = n
          /\ \A i \in 1..n : SubSeq(p, 21, 20 + n)[i] = p[21 + i - 1]
      <3>1. 20 + n - 21 + 1 = n /\ 20 + n \in Int /\ (21 <= 20 + n \/ n = 0)  BY <1>1
      <3> QED  BY <1>1, <2>3, <3>1, SubSeqProperties
    <2>5. \A i \in 1..n : SubSeq(p, 21, 20 + n)[i] = message[i]
      <3>1. \A i \in 1..n : 21 + i - 1 = 20 + i  OBVIOUS
      <3> QED  BY <2>2, <2>4, <3>1
    <2> QED  BY <2>1, <2>4, <2>5, SeqEqual DEF n
  <1>9. Len(p) = 20 + n + Len(appID) /\ SubSeq(p, 21 + n, Len(p)) = appID
    <2>1. Len(rfm) + 1 = 21 + n /\ Len(rfm) + Len(appID) = Len(p)  BY <1>1, <1>4, <1>5
    <2> QED  BY <1>1, <1>4, <1>5, <2>1
  <1>10. IsFrame(p, message, appID)
    BY <1>5, <1>7, <1>8, <1>9 DEF IsFrame, n
  <1> QED  BY <1>10 DEF Frame, p, rfm, rf, f, n

\* Division by the size to which WeChat pads.
LEMMA Blocks ==
  ASSUME NEW m \in Nat
  PROVE  m % 32 \in 0..31 /\ m \div 32 \in Nat /\ m = 32 * (m \div 32) + (m % 32)
  OBVIOUS

\* The padding comes off as it was put on.
LEMMA PaddingComesOff ==
  ASSUME NEW d \in Seq(Byte)
  PROVE  PKCS7Unpad(Padded(d)) = {d} /\ Len(Padded(d)) % BlockSize = 0
  <1> DEFINE n == 32 - (Len(d) % 32)
             data == Padded(d)
  <1>1. Len(d) \in Nat /\ n \in 1..32 /\ (Len(d) + n) % 16 = 0
    <2>1. Len(d) \in Nat  BY LenProperties
    <2>2. /\ Len(d) % 32 \in 0..31 /\ Len(d) \div 32 \in Nat
          /\ Len(d) = 32 * (Len(d) \div 32) + (Len(d) % 32)
      BY <2>1, Blocks
    <2>3. Len(d) + n = 32 * ((Len(d) \div 32) + 1)  BY <2>1, <2>2
    <2>4. ASSUME NEW k \in Nat PROVE (32 * k) % 16 = 0  OBVIOUS
    <2>5. (32 * ((Len(d) \div 32) + 1)) % 16 = 0  BY <2>2, <2>4
    <2>6. (Len(d) + n) % 16 = 0  BY <2>3, <2>5
    <2>7. ASSUME NEW r \in 0..31 PROVE 32 - r \in 1..32  OBVIOUS
    <2>8. n \in 1..32  BY <2>2, <2>7
    <2> QED  BY <2>1, <2>6, <2>8
  <1> HIDE DEF n
  <1>2. /\ Padding(n) \in Seq(Byte) /\ Len(Padding(n)) = n
        /\ \A i \in 1..n : Padding(n)[i] = n
    <2>1. n \in Byte /\ n \in Nat  BY <1>1 DEF Byte
    <2> QED  BY <2>1 DEF Padding
  <1>3. /\ data \in Seq(Byte) /\ Len(data) = Len(d) + n
        /\ \A i \in 1..n : data[Len(d) + i] = n
        /\ SubSeq(data, 1, Len(d)) = d
    <2>1. IsConcat(Byte, data, d, Padding(n))  BY <1>2, Apart DEF Padded, n
    <2> QED  BY <1>2, <2>1 DEF IsConcat
  <1> HIDE DEF data
  <1>4. data[Len(data)] = n  BY <1>1, <1>3
  <1>5. /\ Len(data) # 0 /\ n \in 1..Len(data) /\ Len(data) - n = Len(d)
        /\ \A i \in (Len(data) - n + 1)..Len(data) : data[i] = n
    <2>1. Len(data) # 0 /\ n \in 1..Len(data) /\ Len(data) - n = Len(d)  BY <1>1, <1>3
    <2>2. ASSUME NEW i \in (Len(data) - n + 1)..Len(data) PROVE data[i] = n
      <3>1. i - Len(d) \in 1..n /\ Len(d) + (i - Len(d)) = i  BY <1>1, <1>3
      <3> QED  BY <1>3, <3>1
    <2> QED  BY <2>1, <2>2
  <1>6. PKCS7Unpad(data) = {SubSeq(data, 1, Len(data) - n)}
    BY <1>4, <1>5 DEF PKCS7Unpad
  <1> QED  BY <1>1, <1>3, <1>5, <1>6 DEF data, BlockSize

\* A message of WeChat is read as it was packed, by the app it is for and by
\* no other one.  Messages so long that the first byte of their length is 60
\* or more (a gigabyte) are out of the question.
THEOREM MessagesAreRead ==
  ASSUME NEW random \in Seq(Byte), Len(random) = 16,
         NEW message \in Seq(Byte), Len(message) > 0, High(High(High(Len(message)))) < 60,
         NEW appID \in Seq(Byte), NEW expected
  PROVE  DecryptWechatMessage(Padded(Frame(random, message, appID)), expected)
           = IF expected = appID THEN {message} ELSE {}
  <1> DEFINE p == Frame(random, message, appID)
  <1>1. Len(message) \in Nat /\ Len(appID) \in Nat  BY LenProperties
  <1>2. High(High(High(Len(message)))) \in Int  BY <1>1 DEF High
  <1>3. High(High(High(Len(message)))) < 256  BY <1>2
  <1>4. IsFrame(p, message, appID)  BY <1>3, FrameFacts
  <1> HIDE DEF p
  <1>5. PKCS7Unpad(Padded(p)) = {p} /\ Len(Padded(p)) % BlockSize = 0
    BY <1>4, PaddingComesOff DEF IsFrame
  <1>6. Readable(p, expected) <=> expected = appID
    <2>1. p[17] # 60  BY <1>2, <1>4 DEF IsFrame
    <2>2. Len(p) >= 20 /\ Len(message) \in 1..(Len(p) - 20)  BY <1>1, <1>4 DEF IsFrame
    <2> QED  BY <1>4, <2>1, <2>2 DEF Readable, IsFrame
  <1>7. DecryptWechatMessage(Padded(p), expected)
          = {Content(q) : q \in {q \in {p} : Readable(q, expected)}}
    BY <1>5 DEF DecryptWechatMessage
  <1>8. {q \in {p} : Readable(q, expected)} = IF expected = appID THEN {p} ELSE {}
    BY <1>6
  <1>9. Content(p) = message  BY <1>4 DEF IsFrame
  <1> QED  BY <1>7, <1>8, <1>9 DEF p
=============================================================================
