--------------------------- MODULE PipelineProofs ---------------------------
(***************************************************************************)
(* Theorems about Pipeline: the receiver of the modem keeps its invariants *)
(* inside the whole system, and the system implements FrameDelivery for    *)
(* every number of frames, connection failures and restarts.               *)
(*                                                                         *)
(* The assumptions are those of UartRxProofs; frames may have any number   *)
(* of chunks, more than the receiver expects or fewer, the last one full   *)
(* or short.                                                               *)
(***************************************************************************)
EXTENDS Pipeline, UartRxProofs, FiniteSetTheorems

\* The index of the last chunk of a frame, and its length.
LastIndex == (FrameLen - 1) \div ChunkLen
Rest == FrameLen - ChunkLen * LastIndex

-----------------------------------------------------------------------------
(* The chunks of a frame.                                                  *)

\* What a number is divided into is found again.
LEMMA DivIs ==
    ASSUME NEW L \in Nat \ {0}, NEW a \in Int, NEW q \in Int, NEW r \in 0 .. L - 1,
           a = L * q + r
    PROVE  a \div L = q
  OBVIOUS

\* The same, with the multiple as a number of its own.
LEMMA DivOfSum ==
    \A L \in Nat \ {0} : \A a, q, m \in Int : \A r \in 0 .. L - 1 :
        m = L * q /\ a = m + r => a \div L = q
  BY DivIs

\* The product with a positive number grows by at least that number.
LEMMA ProductGrows ==
    ASSUME NEW L \in Nat \ {0}, NEW a \in Int, NEW b \in Int, a < b
    PROVE  L * a + L <= L * b /\ L * a \in Int /\ L * b \in Int
  <1> DEFINE d == b - a
  <1>1. d \in Nat \ {0} /\ b = a + d
    OBVIOUS
  <1>2. L * b = L * a + L * d
    BY <1>1
  <1>3. L * d >= L
    <2>1. d = 1 + (d - 1) /\ d - 1 \in Nat
      BY <1>1
    <2>2. L * d = L + L * (d - 1)
      BY <2>1
    <2>3. L * (d - 1) \in Nat
      BY <2>1
    <2> QED
      BY <2>2, <2>3
  <1>4. L * a \in Int /\ L * b \in Int /\ L * d \in Int
    BY <1>1
  <1> QED
    BY <1>2, <1>3, <1>4

\* The last index and the rest of a frame.
LEMMA FrameInChunks ==
    /\ ChunkLen \in Nat \ {0} /\ TotalChunks \in Nat \ {0} /\ LastIndex \in Nat
    /\ ChunkLen * LastIndex \in Nat /\ Rest \in 1 .. ChunkLen
    /\ FrameLen = ChunkLen * LastIndex + Rest /\ FrameLen \in Nat \ {0}
  <1>1. ChunkLen \in Nat \ {0} /\ TotalChunks \in Nat \ {0}
    BY PipelineAssumption DEF PipelineAssumption
  <1>2. FrameLen \in Nat \ {0} /\ FrameLen - 1 \in Int
    BY Lengths
  <1> DEFINE r == (FrameLen - 1) % ChunkLen
             q == LastIndex
             m == ChunkLen * q
  <1>3. FrameLen - 1 = m + r /\ r \in 0 .. ChunkLen - 1 /\ q \in Int
    BY <1>1, <1>2, ModPart DEF LastIndex
  <1>4. m \in Int
    BY <1>1, <1>3
  <1>5. q >= 0
    <2> SUFFICES ASSUME q < 0 PROVE FALSE
      BY <1>3
    <2>1. m + ChunkLen <= ChunkLen * 0
      BY <1>1, <1>3, ProductGrows
    <2> QED
      BY <1>1, <1>2, <1>3, <1>4, <2>1
  <1>6. q \in Nat /\ m \in Nat
    BY <1>1, <1>3, <1>4, <1>5
  <1>7. Rest = FrameLen - m
    BY DEF Rest
  <1> HIDE DEF r, q, m
  <1>8. Rest \in 1 .. ChunkLen /\ FrameLen = m + Rest
    BY <1>1, <1>2, <1>3, <1>6, <1>7
  <1> QED
    BY <1>1, <1>2, <1>6, <1>8 DEF q, m

\* Frames that are short end in a chunk that is, and have fewer chunks than expected.
LEMMA ShortIs ==
    ASSUME ShortFrames
    PROVE  Rest < ChunkLen /\ LastIndex + 1 < TotalChunks
  <1> DEFINE q == LastIndex
             m == ChunkLen * q
             m1 == ChunkLen * (q + 1)
  <1>1. /\ ChunkLen \in Nat \ {0} /\ q \in Nat /\ m \in Nat /\ FrameLen \in Nat
        /\ Rest \in 1 .. ChunkLen /\ FrameLen = m + Rest /\ m1 = m + ChunkLen
    BY FrameInChunks
  <1>2. /\ FrameLen = ChunkLen * (FrameLen \div ChunkLen) + (FrameLen % ChunkLen)
        /\ FrameLen % ChunkLen # 0 /\ FrameLen % ChunkLen \in Int
    <2>1. ChunkLen \in Nat \ {0} /\ FrameLen \in Int
      BY FrameInChunks
    <2>2. /\ FrameLen = ChunkLen * (FrameLen \div ChunkLen) + (FrameLen % ChunkLen)
          /\ FrameLen % ChunkLen \in 0 .. ChunkLen - 1
      BY <2>1, ModPart
    <2> QED
      BY <2>1, <2>2 DEF ShortFrames
  <1>3. m = ChunkLen * q /\ m1 = ChunkLen * (q + 1) /\ q + 1 \in Int
    BY <1>1
  <1> HIDE DEF q, m, m1
  <1>4. Rest # ChunkLen
    <2> SUFFICES ASSUME Rest = ChunkLen PROVE FALSE
      OBVIOUS
    <2>1. /\ FrameLen \in Int /\ m1 \in Int /\ 0 \in 0 .. ChunkLen - 1 /\ FrameLen = m1 + 0
      BY <1>1
    <2>2. FrameLen \div ChunkLen = q + 1
      BY <1>1, <1>3, <2>1, DivOfSum
    <2> QED
      BY <1>1, <1>2, <1>3, <2>1, <2>2
  <1>5. FrameLen \div ChunkLen = q
    <2>1. /\ FrameLen \in Int /\ m \in Int /\ q \in Int /\ Rest \in 0 .. ChunkLen - 1
      BY <1>1, <1>4
    <2> QED
      BY <1>1, <1>3, <2>1, DivOfSum
  <1> QED
    BY <1>1, <1>4, <1>5 DEF ShortFrames, q

\* The modem's index of the chunk that begins after i whole ones is i; only the last
\* one can be short.
LEMMA ChunkIndex ==
    ASSUME NEW i \in 0 .. LastIndex
    PROVE  /\ ChunkLen * i \in Nat /\ ChunkLen * i < FrameLen
           /\ (ChunkLen * i) \div ChunkLen = i
           /\ (ChunkLen * i + ChunkLen > FrameLen) <=> (i = LastIndex /\ Rest < ChunkLen)
           /\ i = LastIndex => ChunkLen * i + ChunkLen >= FrameLen
           /\ i # LastIndex => ChunkLen * i + ChunkLen < FrameLen
           /\ ChunkLen * (i + 1) = ChunkLen * i + ChunkLen
  <1> DEFINE m == ChunkLen * LastIndex
             p == ChunkLen * i
  <1>1. /\ ChunkLen \in Nat \ {0} /\ LastIndex \in Nat /\ m \in Nat
        /\ Rest \in 1 .. ChunkLen /\ FrameLen = m + Rest
    BY FrameInChunks
  <1>2. p \in Nat /\ ChunkLen * (i + 1) = p + ChunkLen /\ i \in Nat
    BY <1>1
  <1>3. p \div ChunkLen = i
    <2>1. /\ ChunkLen \in Nat \ {0} /\ p \in Int /\ i \in Int /\ 0 \in 0 .. ChunkLen - 1
          /\ p = ChunkLen * i /\ p = p + 0
      BY <1>1, <1>2
    <2> HIDE DEF p
    <2> QED
      BY <2>1, DivOfSum
  <1>4. i < LastIndex => p + ChunkLen <= m
    BY <1>1, <1>2, ProductGrows
  <1>5. i = LastIndex => p = m
    OBVIOUS
  <1> HIDE DEF m, p
  <1>6. /\ p < FrameLen /\ (p + ChunkLen > FrameLen <=> i = LastIndex /\ Rest < ChunkLen)
        /\ i = LastIndex => p + ChunkLen >= FrameLen
        /\ i # LastIndex => p + ChunkLen < FrameLen
    BY <1>1, <1>2, <1>4, <1>5
  <1> QED
    BY <1>2, <1>3, <1>6 DEF p

\* The number of chunks of a sequence as long as a frame.
LEMMA ChunksInFrame ==
    (FrameLen + ChunkLen - 1) \div ChunkLen = LastIndex + 1
  <1> DEFINE m == ChunkLen * LastIndex
             m1 == ChunkLen * (LastIndex + 1)
             a == FrameLen + ChunkLen - 1
  <1>1. /\ ChunkLen \in Nat \ {0} /\ LastIndex \in Nat /\ m \in Nat
        /\ Rest \in 1 .. ChunkLen /\ FrameLen = m + Rest
    BY FrameInChunks
  <1>2. m1 = m + ChunkLen
    BY <1>1
  <1> HIDE DEF m, m1
  <1>3. /\ ChunkLen \in Nat \ {0} /\ a \in Int /\ LastIndex + 1 \in Int /\ m1 \in Int
        /\ Rest - 1 \in 0 .. ChunkLen - 1 /\ a = m1 + (Rest - 1)
    BY <1>1, <1>2
  <1>4. m1 = ChunkLen * (LastIndex + 1)
    BY DEF m1
  <1> HIDE DEF a
  <1>5. a \div ChunkLen = LastIndex + 1
    BY <1>3, <1>4, DivOfSum
  <1> QED
    BY <1>5 DEF a

-----------------------------------------------------------------------------
(* sorted(chunks.items()): the receiver's indices by size.                 *)

\* How many members of S are smaller than i.
Rank(S, i) == Cardinality({j \in S : j < i})

\* The receiver counts as everybody does.
LEMMA SameCardinality == \A S : Receiver!Cardinality(S) = Cardinality(S)
  BY DEF Cardinality, Receiver!Cardinality

\* The smaller members of a finite set of numbers are fewer than all; a larger member
\* has more of them.
LEMMA RankGrows ==
    ASSUME NEW S \in SUBSET Nat, IsFiniteSet(S), NEW i \in S
    PROVE  /\ Cardinality(S) \in Nat /\ Rank(S, i) \in 0 .. Cardinality(S) - 1
           /\ \A j \in S : i < j => Rank(S, i) < Rank(S, j) /\ Rank(S, j) \in Nat
  <1>1. ASSUME NEW T \in SUBSET S
        PROVE  IsFiniteSet(T) /\ Cardinality(T) \in Nat /\ Cardinality(S) \in Nat
    BY FS_Subset, FS_CardinalityType
  <1>2. ASSUME NEW U \in SUBSET S, NEW T \in SUBSET U, i \in U, i \notin T
        PROVE  Cardinality(T) < Cardinality(U)
    <2>1. IsFiniteSet(U) /\ T # U
      BY <1>1, <1>2
    <2>2. Cardinality(T) <= Cardinality(U) /\ (Cardinality(U) = Cardinality(T) => U = T)
      BY <2>1, FS_Subset
    <2>3. Cardinality(T) \in Nat /\ Cardinality(U) \in Nat
      BY <1>1
    <2> QED
      BY <2>1, <2>2, <2>3
  <1> DEFINE Below(j) == {x \in S : x < j}
  <1>3. Below(i) \in SUBSET S /\ i \notin Below(i)
    OBVIOUS
  <1>4. ASSUME NEW j \in S, i < j
        PROVE  Below(i) \in SUBSET Below(j) /\ i \in Below(j) /\ Below(j) \in SUBSET S
    <2>1. \A x \in S : x \in Nat
      OBVIOUS
    <2>2. \A x \in S : x < i => x < j
      BY <1>4, <2>1
    <2> QED
      BY <1>4, <2>2
  <1> HIDE DEF Below
  <1>5. Cardinality(Below(i)) < Cardinality(S) /\ Cardinality(Below(i)) \in Nat
        /\ Cardinality(S) \in Nat
    BY <1>1, <1>2, <1>3
  <1>6. ASSUME NEW j \in S, i < j
        PROVE  Cardinality(Below(i)) < Cardinality(Below(j)) /\ Cardinality(Below(j)) \in Nat
    BY <1>1, <1>2, <1>3, <1>4, <1>6
  <1> QED
    BY <1>5, <1>6 DEF Below, Rank

\* No two members have the same rank.
LEMMA RankOnce ==
    ASSUME NEW S \in SUBSET Nat, IsFiniteSet(S), NEW i \in S, NEW j \in S,
           Rank(S, i) = Rank(S, j)
    PROVE  i = j
  <1>1. i \in Nat /\ j \in Nat
    OBVIOUS
  <1>2. Rank(S, i) \in Nat
    BY RankGrows
  <1>3. ~(i < j) /\ ~(j < i)
    BY <1>2, RankGrows
  <1> QED
    BY <1>1, <1>3

\* Every rank is that of a member: otherwise the members would share fewer ranks than
\* there are of them.
LEMMA RankTaken ==
    ASSUME NEW S \in SUBSET Nat, IsFiniteSet(S), NEW r \in 0 .. Cardinality(S) - 1
    PROVE  \E i \in S : Rank(S, i) = r
  <1> DEFINE n == Cardinality(S)
             All == 0 .. n - 1
             T == All \ {r}
             f == [i \in S |-> Rank(S, i)]
  <1>1. n \in Nat
    BY FS_CardinalityType
  <1> SUFFICES ASSUME \A i \in S : Rank(S, i) # r
               PROVE  FALSE
    OBVIOUS
  <1>2. f \in [S -> T]
    <2>1. \A i \in S : Rank(S, i) \in All
      BY RankGrows
    <2>2. \A i \in S : Rank(S, i) \in T
      BY <2>1
    <2> HIDE DEF T, All
    <2> QED
      BY <2>2
  <1>3. IsFiniteSet(All) /\ Cardinality(All) = n
    <2> HIDE DEF n
    <2>1. /\ IsFiniteSet(0 .. n - 1)
          /\ Cardinality(0 .. n - 1) = IF 0 > n - 1 THEN 0 ELSE (n - 1) - 0 + 1
      BY <1>1, FS_Interval
    <2> QED
      BY <1>1, <2>1
  <1>4. IsFiniteSet(T) /\ Cardinality(T) = n - 1
    <2>1. r \in All
      OBVIOUS
    <2> HIDE DEF All, n
    <2> QED
      BY <1>3, <2>1, FS_RemoveElement
  <1> HIDE DEF n, T, f
  <1>5. \E i, j \in S : i # j /\ f[i] = f[j]
    <2>1. Cardinality(T) < Cardinality(S)
      BY <1>1, <1>4 DEF n
    <2> QED
      BY <1>2, <1>4, <2>1, FS_PigeonHole
  <1> QED
    BY <1>5, RankOnce DEF f

\* The members of an initial segment have their own number as rank.
LEMMA RankOfFirst ==
    ASSUME NEW S \in SUBSET Nat, NEW i \in Nat, 0 .. i \subseteq S
    PROVE  Rank(S, i) = i
  <1>1. {j \in S : j < i} = 0 .. i - 1
    <2>1. \A j \in S : j \in Nat
      OBVIOUS
    <2>2. \A j \in 0 .. i - 1 : j \in S /\ j < i
      OBVIOUS
    <2>3. \A j \in S : j < i => j \in 0 .. i - 1
      BY <2>1
    <2> QED
      BY <2>2, <2>3
  <1>2. Cardinality(0 .. i - 1) = IF 0 > i - 1 THEN 0 ELSE (i - 1) - 0 + 1
    BY FS_Interval
  <1>3. Cardinality(0 .. i - 1) = i
    BY <1>2
  <1> QED
    BY <1>1, <1>3 DEF Rank

\* The k-th of the indices exists, and each is one of them.
LEMMA NthIs ==
    ASSUME NEW S \in SUBSET Nat, IsFiniteSet(S)
    PROVE  /\ \A k \in 1 .. Cardinality(S) : Receiver!Nth(S, k) \in S
           /\ \A i \in S : /\ Rank(S, i) + 1 \in 1 .. Cardinality(S)
                           /\ Receiver!Nth(S, Rank(S, i) + 1) = i
  <1>1. Cardinality(S) \in Nat
    BY FS_CardinalityType
  <1>2. \A k : Receiver!Nth(S, k) = CHOOSE i \in S : Rank(S, i) = k - 1
    BY SameCardinality DEF Receiver!Nth, Rank
  <1>3. ASSUME NEW k \in 1 .. Cardinality(S)
        PROVE  Receiver!Nth(S, k) \in S
    <2>1. k - 1 \in 0 .. Cardinality(S) - 1
      BY <1>1
    <2>2. \E i \in S : Rank(S, i) = k - 1
      BY <2>1, RankTaken
    <2> QED
      BY <1>2, <2>2
  <1>4. ASSUME NEW i \in S
        PROVE  /\ Rank(S, i) + 1 \in 1 .. Cardinality(S)
               /\ Receiver!Nth(S, Rank(S, i) + 1) = i
    <2> DEFINE k == Rank(S, i) + 1
    <2>1. Rank(S, i) \in 0 .. Cardinality(S) - 1
      BY RankGrows
    <2>2. k \in 1 .. Cardinality(S) /\ k - 1 = Rank(S, i)
      BY <1>1, <2>1
    <2>3. \A j \in S : Rank(S, j) = k - 1 => j = i
      BY <2>2, RankOnce
    <2> HIDE DEF k
    <2>4. (CHOOSE j \in S : Rank(S, j) = k - 1) = i
      BY <2>2, <2>3
    <2> QED
      BY <1>2, <2>2, <2>4 DEF k
  <1> QED
    BY <1>3, <1>4

\* What is joined are the chunks of the dictionary, all of them; those without a gap
\* before them stand at the place of their index.
IsJoined(img, received) ==
    /\ Len(img) \in Nat /\ Len(img) <= LastIndex + 1
    /\ \A T : (\A k \in 1 .. Len(img) : img[k] \in T) => img \in Seq(T)
    /\ \A k \in 1 .. Len(img) : \E i \in DOMAIN received : img[k] = <<received[i].frame, i>>
    /\ \A i \in DOMAIN received : \E k \in 1 .. Len(img) : img[k] = <<received[i].frame, i>>
    /\ \A i \in DOMAIN received : 0 .. i \subseteq DOMAIN received =>
         i + 1 \in 1 .. Len(img) /\ img[i + 1] = <<received[i].frame, i>>

LEMMA JoinHas ==
    ASSUME NEW received, DOMAIN received \subseteq 0 .. LastIndex
    PROVE  IsJoined(Receiver!Join(received), received)
  <1> DEFINE S == DOMAIN received
             img == Receiver!Join(received)
             n == Cardinality(S)
  <1>1. LastIndex \in Nat
    BY FrameInChunks
  <1>2. S \in SUBSET Nat /\ IsFiniteSet(S) /\ n \in Nat /\ n <= LastIndex + 1
    <2>1. IsFiniteSet(0 .. LastIndex) /\ Cardinality(0 .. LastIndex) = LastIndex + 1
      <3>1. /\ IsFiniteSet(0 .. LastIndex)
            /\ Cardinality(0 .. LastIndex) = IF 0 > LastIndex THEN 0 ELSE LastIndex - 0 + 1
        BY <1>1, FS_Interval
      <3> QED
        BY <1>1, <3>1
    <2>2. S \in SUBSET (0 .. LastIndex) /\ S \in SUBSET Nat
      OBVIOUS
    <2>3. IsFiniteSet(S) /\ Cardinality(S) <= Cardinality(0 .. LastIndex)
      BY <2>1, <2>2, FS_Subset
    <2> QED
      BY <2>1, <2>2, <2>3, FS_CardinalityType
  <1>3. img = [k \in 1 .. n |-> <<received[Receiver!Nth(S, k)].frame, Receiver!Nth(S, k)>>]
    BY SameCardinality DEF Receiver!Join
  <1> HIDE DEF n
  <1>4. /\ Len(img) = n
        /\ \A T : (\A k \in 1 .. n : img[k] \in T) => img \in Seq(T)
        /\ \A k \in 1 .. n : img[k] = <<received[Receiver!Nth(S, k)].frame, Receiver!Nth(S, k)>>
    BY <1>2, <1>3
  <1>5. \A k \in 1 .. n : Receiver!Nth(S, k) \in S
    BY <1>2, NthIs DEF n
  <1>6. \A i \in S : Rank(S, i) + 1 \in 1 .. n /\ img[Rank(S, i) + 1] = <<received[i].frame, i>>
    BY <1>2, <1>4, NthIs DEF n
  <1>7. \A i \in S : 0 .. i \subseteq S => Rank(S, i) = i
    BY <1>2, RankOfFirst
  <1> HIDE DEF S, img
  <1>8. /\ \A k \in 1 .. Len(img) : \E i \in S : img[k] = <<received[i].frame, i>>
        /\ \A i \in S : \E k \in 1 .. Len(img) : img[k] = <<received[i].frame, i>>
        /\ \A i \in S : 0 .. i \subseteq S =>
             i + 1 \in 1 .. Len(img) /\ img[i + 1] = <<received[i].frame, i>>
    BY <1>2, <1>4, <1>5, <1>6, <1>7
  <1> QED
    BY <1>2, <1>4, <1>8 DEF IsJoined, S, img

-----------------------------------------------------------------------------
(* Frames, their chunks, and how a chunk is known.                         *)

\* The fragments of all frames are numbered through.
LEMMA FrameIs ==
    ASSUME NEW f \in 1 .. NumFrames
    PROVE  /\ Frame(f) \in Seq(Nat) /\ Len(Frame(f)) = FrameLen
           /\ FrameLen * (f - 1) \in Nat
           /\ \A i \in 1 .. FrameLen : Frame(f)[i] = FrameLen * (f - 1) + i
  <1> DEFINE g == f - 1
             base == g * FrameLen
             end == base + FrameLen
  <1>1. g \in Nat /\ g + 1 = f /\ FrameLen \in Nat \ {0}
    BY Lengths
  <1>2. base \in Nat /\ Frame(g + 1) = Run(base, end) /\ base = FrameLen * g
    <2>1. g * FrameLen \in Nat /\ Frame(g + 1) = Run(g * FrameLen, g * FrameLen + FrameLen)
      BY <1>1, FrameEnds
    <2>2. g * FrameLen = FrameLen * g
      BY <1>1
    <2> QED
      BY <2>1, <2>2
  <1>3. base \in Nat /\ end \in Nat /\ base <= end /\ end - base = FrameLen
    BY <1>1, <1>2
  <1> HIDE DEF base, g
  <1>4. /\ Run(base, end) \in Seq(Nat) /\ Len(Run(base, end)) = end - base
        /\ \A i \in 1 .. end - base : Run(base, end)[i] = base + i
    BY <1>3, RunType
  <1>5. Frame(f) = Run(base, end)
    BY <1>1, <1>2
  <1> HIDE DEF end
  <1> QED
    BY <1>2, <1>3, <1>4, <1>5 DEF g

\* The content of a chunk tells its frame.
LEMMA ChunkOf ==
    ASSUME NEW f \in 1 .. NumFrames, NEW i \in 0 .. LastIndex
    PROVE  /\ ChunkAt(Frame(f), ChunkLen * i) \in Seq(Nat)
           /\ FrameOfChunk(ChunkAt(Frame(f), ChunkLen * i)) = f
  <1> DEFINE p == ChunkLen * i
             s == Frame(f)
             base == FrameLen * (f - 1)
             end == IF p + ChunkLen < Len(s) THEN p + ChunkLen ELSE Len(s)
             content == ChunkAt(s, p)
  <1>1. p \in Nat /\ p < FrameLen /\ ChunkLen \in Nat \ {0} /\ FrameLen \in Nat \ {0}
    BY ChunkIndex, FrameInChunks
  <1>2. /\ s \in Seq(Nat) /\ Len(s) = FrameLen /\ base \in Nat
        /\ \A j \in 1 .. FrameLen : s[j] = base + j
    BY FrameIs
  <1>3. base = FrameLen * (f - 1) /\ f - 1 \in Int
    BY Lengths
  <1>4. content = SubSeq(s, p + 1, end)
    BY DEF ChunkAt
  <1> HIDE DEF p, s, base
  <1>5. end \in Nat /\ p + 1 <= end /\ end <= Len(s) /\ p + 1 \in 1 .. FrameLen
    BY <1>1, <1>2
  <1> HIDE DEF end, content
  <1>6. content \in Seq(Nat) /\ content[1] = s[p + 1]
    BY <1>1, <1>2, <1>4, <1>5
  <1>7. content[1] - 1 = base + p
    BY <1>1, <1>2, <1>5, <1>6
  <1>8. (content[1] - 1) \div FrameLen = f - 1
    <2> DEFINE a == content[1] - 1
               g == f - 1
    <2>1. a = base + p /\ a \in Int /\ base \in Int /\ p \in 0 .. FrameLen - 1
      BY <1>1, <1>2, <1>7
    <2>2. base = FrameLen * g /\ g \in Int
      BY <1>3
    <2> HIDE DEF a, g
    <2>3. a \div FrameLen = g
      BY <1>1, <2>1, <2>2, DivOfSum
    <2> QED
      BY <2>3 DEF a, g
  <1>9. f \in Int
    OBVIOUS
  <1> QED
    BY <1>6, <1>8, <1>9 DEF FrameOfChunk, content, s, p

\* The chunks of a frame, one by one.
LEMMA ChunksAre ==
    ASSUME NEW f \in 1 .. NumFrames
    PROVE  /\ Len(FrameChunks[f]) = LastIndex + 1
           /\ \A k \in 1 .. LastIndex + 1 :
                FrameChunks[f][k] = <<ChunkAt(Frame(f), ChunkLen * (k - 1)), k - 1>>
  <1>1. LastIndex \in Nat /\ ChunkLen \in Nat
    BY FrameInChunks
  <1>2. Len(Frame(f)) = FrameLen
    BY FrameIs
  <1>3. FrameChunks[f] = ChunksOf(Frame(f))
    BY DEF FrameChunks
  <1>4. ChunksOf(Frame(f)) =
          [k \in 1 .. LastIndex + 1 |-> <<ChunkAt(Frame(f), (k - 1) * ChunkLen), k - 1>>]
    BY <1>2, ChunksInFrame DEF ChunksOf
  <1>5. \A k \in 1 .. LastIndex + 1 : (k - 1) * ChunkLen = ChunkLen * (k - 1)
    BY <1>1
  <1> QED
    BY <1>1, <1>3, <1>4, <1>5

\* An image is of the newest frame it has a chunk of.
LEMMA NewestIs ==
    ASSUME NEW img, NEW h \in 1 .. NumFrames,
           \E k \in 1 .. Len(img) : FrameOfChunk(img[k][1]) = h,
           \A k \in 1 .. Len(img) : FrameOfChunk(img[k][1]) \in 1 .. h
    PROVE  FrameOf(img) = h
  <1>1. ASSUME NEW f \in 1 .. NumFrames,
               \E k \in 1 .. Len(img) : FrameOfChunk(img[k][1]) = f,
               \A k \in 1 .. Len(img) : FrameOfChunk(img[k][1]) <= f
        PROVE  f = h
    <2>1. f <= h /\ h <= f
      BY <1>1
    <2> QED
      BY <2>1
  <1>2. \A k \in 1 .. Len(img) : FrameOfChunk(img[k][1]) <= h
    OBVIOUS
  <1> QED
    BY <1>1, <1>2 DEF FrameOf

-----------------------------------------------------------------------------
(* The modem of the pipeline is the one of UartRx.                         *)

PipelineSafety == PipelineInit /\ [][PipelineNext]_allVars

\* A step of the pipeline is one of UartRx, or leaves its variables alone: EndUpload
\* is Publish, and the rest of the upload and of the world change nothing there.
LEMMA ModemStep ==
    ASSUME [PipelineNext]_allVars
    PROVE  /\ [Next]_vars
           /\ Publish => EndUpload
  <1>1. CASE Interrupt \/ Receive
    <2>1. [Next]_vars
      BY <1>1 DEF PipelineNext, Interrupt, Receive, Next, Task, allVars
    <2>2. ~Publish
      BY <1>1 DEF Interrupt, Receive, Publish, Goto, CheckReady, AppendImage, ZeroBuffer,
                  ResetIdx, FreeBuffer, ReadTick, Decide, StartRX, RxState1, RxState2, RxIdx,
                  RxActive, RxZero, UartIsr, Tick, taskVars
    <2> QED
      BY <2>1, <2>2
  <1>2. CASE EndUpload
    BY <1>2 DEF PipelineNext, EndUpload, Next, Task, allVars, vars
  <1>3. CASE Reconnect \/ EndRetries \/ Commence \/ PublishChunk \/ World \/ UNCHANGED allVars
    <2>1. UNCHANGED vars
      BY <1>3 DEF Reconnect, EndRetries, Commence, PublishChunk, World, LinkDies, SessionCloses,
                  ClientDisconnects, ClientReconnects, ReceiverEnds, ReceiverStarts, allVars
    <2>2. ~Publish
      BY <2>1 DEF Publish, Goto, vars, taskVars
    <2> QED
      BY <2>1, <2>2
  <1> QED
    BY <1>1, <1>2, <1>3 DEF PipelineNext, ModemTask, Upload

\* So the pipeline behaves like UartRx, which is what its theorems ask for.
LEMMA PipelineIsUartRx == PipelineSafety => Safety
  <1>1. PipelineInit => Init
    BY DEF PipelineInit
  <1>2. [PipelineNext]_allVars => [Next]_vars
    BY ModemStep
  <1> QED
    BY <1>1, <1>2, PTL DEF PipelineSafety, Safety

\* Inside the whole system, with an upload that takes many steps and fails, the
\* receiver of the modem keeps what UartRx promises: the buffers take turns, and every
\* image is one frame and fits.
THEOREM ModemKeepsPromises ==
    ASSUME TaskPrompt, FramesSpaced, MaxLag = 0, FrameLen <= ImageCap
    PROVE  PipelineSpec => [](TypeOK /\ PingPong /\ FramesIntact /\ NoOverrun)
  <1>1. FrameInv => FramesIntact /\ NoOverrun
    BY DEF FrameInv, NoOverrun
  <1> QED
    BY <1>1, PipelineIsUartRx, PhaseAlways, PhasePingPong, FrameAlways, PTL
    DEF PipelineSpec, PipelineSafety
-----------------------------------------------------------------------------
(* What the refinement rests on.                                           *)

\* An image as the receiver joins it.
Images == Seq(Seq(Nat) \X Nat)

\* The indices whose chunks begin among the first p fragments of a frame.
StartsBelow(p) == {j \in 0 .. LastIndex : ChunkLen * j < p}

\* The chunks of the present image that were published.
Done == IF up = "send" THEN StartsBelow(published) ELSE {}

\* The image is that of the frame after the last one the modem has done with, and the
\* upload has published whole chunks of it, or everything.
UploadInv ==
    /\ handled \in 0 .. NumFrames /\ ImageOf(handled)
    /\ up # "ensure" => pc = "publish"
    /\ up = "send" => published = FrameLen
                      \/ \E i \in 0 .. LastIndex : published = ChunkLen * i

\* Every chunk in the dictionary is of a frame that has come so far.
Origins ==
    \A i \in DOMAIN chunks : \E g \in 1 .. NumFrames :
        g <= handled + 1 /\ chunks[i].frame = ChunkAt(Frame(g), ChunkLen * i)

\* At the indices published so far it has chunks of the present image.
Fresh == \A i \in DOMAIN chunks : i \in Done => chunks[i].frame = ChunkAt(image, ChunkLen * i)

\* Of the expected indices it has those published so far, until all were.
Complete ==
    \A j \in 0 .. TotalChunks - 1 :
        j \in DOMAIN chunks <=> j \in Done /\ TotalChunks - 1 \notin Done

\* What the dictionary holds while the receiver has missed nothing.
ChunkInv ==
    /\ missed \in BOOLEAN
    /\ DOMAIN chunks \subseteq 0 .. LastIndex
    /\ client = "ended" => DOMAIN chunks = {}
    /\ Origins
    /\ ~missed => Fresh
    /\ ~missed /\ client # "ended" /\ TotalChunks <= LastIndex + 1 => Complete

\* The newest frame an image can be of: the one being dealt with only if its first
\* chunk has come and is used up.
Newest == IF 0 \in Done /\ 0 \notin DOMAIN chunks THEN handled + 1 ELSE handled

StoredInv ==
    /\ joined \in Seq(Images)
    /\ \A k \in 1 .. Len(joined) :
           FrameOf(joined[k]) \in 1 .. NumFrames /\ FrameOf(joined[k]) <= Newest

PipelineInv == TypeOK /\ PhaseInv /\ FrameInv /\ UploadInv /\ ChunkInv /\ StoredInv

\* While the modem publishes the image is the frame after the last it has done with.
LEMMA PublishedImage ==
    ASSUME PipelineInv, pc = "publish"
    PROVE  /\ image = Frame(handled + 1) /\ handled + 1 \in 1 .. NumFrames
           /\ image \in Seq(Nat) /\ Len(image) = FrameLen
           /\ sent = (handled + 1) * FrameLen
  <1> PICK f \in 0 .. NumFrames : f = handled
    BY DEF PipelineInv, UploadInv
  <1>1. /\ image = Frame(f + 1) /\ f + 1 \in 1 .. NumFrames
        /\ sent = (f + 1) * FrameLen
    BY WholeFrame DEF PipelineInv, UploadInv
  <1>2. Frame(f + 1) \in Seq(Nat) /\ Len(Frame(f + 1)) = FrameLen
    BY <1>1, FrameIs
  <1> QED
    BY <1>1, <1>2

\* How many chunks begin below the end of a chunk.
LEMMA StartsAre ==
    /\ StartsBelow(0) = {} /\ StartsBelow(FrameLen) = 0 .. LastIndex
    /\ \A i \in 0 .. LastIndex : /\ StartsBelow(ChunkLen * i) = 0 .. i - 1
                                 /\ StartsBelow(ChunkLen * (i + 1)) = 0 .. i
  <1>1. ChunkLen \in Nat \ {0} /\ LastIndex \in Nat
    BY FrameInChunks
  <1>2. \A j \in 0 .. LastIndex : ChunkLen * j \in Nat /\ ChunkLen * j < FrameLen
    BY ChunkIndex
  <1>3. StartsBelow(0) = {}
    <2>1. \A j \in 0 .. LastIndex : ~(ChunkLen * j < 0)
      BY <1>2
    <2> QED
      BY <2>1 DEF StartsBelow
  <1>4. StartsBelow(FrameLen) = 0 .. LastIndex
    BY <1>2 DEF StartsBelow
  <1>5. ASSUME NEW i \in 0 .. LastIndex + 1
        PROVE  StartsBelow(ChunkLen * i) = 0 .. i - 1
    <2>1. ASSUME NEW j \in 0 .. LastIndex
          PROVE  ChunkLen * j < ChunkLen * i <=> j < i
      <3>1. i \in Int /\ j \in Int
        BY <1>1
      <3>2. i < j => ChunkLen * i + ChunkLen <= ChunkLen * j
        BY <1>1, <3>1, ProductGrows
      <3>3. j < i => ChunkLen * j + ChunkLen <= ChunkLen * i
        BY <1>1, <3>1, ProductGrows
      <3>4. i = j => ChunkLen * i = ChunkLen * j
        OBVIOUS
      <3>5. ChunkLen * i \in Int /\ ChunkLen * j \in Int
        BY <1>1, <3>1
      <3> DEFINE m == ChunkLen * i
                 n == ChunkLen * j
      <3> HIDE DEF m, n
      <3>6. (n < m) <=> j < i
        BY <1>1, <3>1, <3>2, <3>3, <3>4, <3>5 DEF m, n
      <3> QED
        BY <3>6 DEF m, n
    <2>2. \A j : j \in 0 .. i - 1 <=> j \in 0 .. LastIndex /\ j < i
      BY <1>1
    <2> QED
      BY <2>1, <2>2 DEF StartsBelow
  <1>6. ASSUME NEW i \in 0 .. LastIndex
        PROVE  /\ StartsBelow(ChunkLen * i) = 0 .. i - 1
               /\ StartsBelow(ChunkLen * (i + 1)) = 0 .. i
    <2>1. i \in 0 .. LastIndex + 1 /\ i + 1 \in 0 .. LastIndex + 1 /\ (i + 1) - 1 = i
      BY <1>1
    <2>2. StartsBelow(ChunkLen * (i + 1)) = 0 .. (i + 1) - 1
      BY <1>5, <2>1
    <2> QED
      BY <1>5, <2>1, <2>2
  <1> QED
    BY <1>3, <1>4, <1>6

\* One turn of the upload loop publishes one chunk; only the last one can be short.
LEMMA NextChunk ==
    ASSUME PipelineInv, PublishChunk
    PROVE  \E i \in 0 .. LastIndex :
             /\ published \div ChunkLen = i
             /\ Payload.frame = ChunkAt(image, ChunkLen * i)
             /\ Payload.short => i = LastIndex
             /\ published' = FrameLen \/ \E j \in 0 .. LastIndex : published' = ChunkLen * j
             /\ Done = 0 .. i - 1 /\ Done' = 0 .. i
  <1>1. /\ pc = "publish" /\ up = "send" /\ up' = "send" /\ published < Len(image)
        /\ published' = published + Len(ChunkAt(image, published))
    BY DEF PublishChunk, UpGoto
  <1>2. /\ image \in Seq(Nat) /\ Len(image) = FrameLen
        /\ FrameLen \in Nat /\ ChunkLen \in Nat \ {0} /\ LastIndex \in Nat
    BY <1>1, PublishedImage, Lengths, FrameInChunks
  <1>3. PICK i \in 0 .. LastIndex : published = ChunkLen * i
    BY <1>1, <1>2 DEF PipelineInv, UploadInv
  <1> DEFINE p == ChunkLen * i
             end == IF p + ChunkLen < FrameLen THEN p + ChunkLen ELSE FrameLen
  <1>4. /\ p \in Nat /\ p < FrameLen /\ p \div ChunkLen = i
        /\ (p + ChunkLen > FrameLen) => i = LastIndex
        /\ i = LastIndex => p + ChunkLen >= FrameLen
        /\ i # LastIndex => p + ChunkLen < FrameLen
        /\ ChunkLen * (i + 1) = p + ChunkLen
    BY ChunkIndex
  <1>5. published = p
    BY <1>3
  <1> HIDE DEF p
  <1>6. end \in Nat /\ p + 1 \in Nat /\ p < end /\ end <= Len(image)
    BY <1>2, <1>4
  <1>7. ChunkAt(image, p) = SubSeq(image, p + 1, end)
    BY <1>2 DEF ChunkAt
  <1> HIDE DEF end
  <1>8. Len(SubSeq(image, p + 1, end)) = end - p
    BY <1>2, <1>4, <1>6
  <1>9. published' = end
    BY <1>1, <1>4, <1>5, <1>6, <1>7, <1>8
  <1>10. end = IF i = LastIndex THEN FrameLen ELSE ChunkLen * (i + 1)
    BY <1>2, <1>4 DEF end
  <1>11. /\ Payload.frame = ChunkAt(image, p)
         /\ Payload.short => i = LastIndex
    BY <1>2, <1>4, <1>5 DEF Payload
  <1>12. published' = FrameLen \/ \E j \in 0 .. LastIndex : published' = ChunkLen * j
    <2>1. i # LastIndex => i + 1 \in 0 .. LastIndex
      BY <1>2
    <2> QED
      BY <1>9, <1>10, <2>1
  <1>13. Done = 0 .. i - 1
    BY <1>1, <1>3, StartsAre DEF Done
  <1>14. Done' = 0 .. i
    <2>1. Done' = StartsBelow(published')
      BY <1>1 DEF Done, StartsBelow
    <2> QED
      BY <1>9, <1>10, <2>1, StartsAre
  <1> QED
    BY <1>4, <1>5, <1>11, <1>12, <1>13, <1>14 DEF p
\* The dictionary with the i-th chunk just come: all of frames so far and, if nothing
\* was missed, up to i of the present one; of the expected indices it then has just
\* those, unless the image has more chunks and they were used up.
IsGathered(received, i) ==
    /\ DOMAIN received = DOMAIN chunks \union {i} /\ DOMAIN received \subseteq 0 .. LastIndex
    /\ received[i].frame = ChunkAt(Frame(handled + 1), ChunkLen * i)
    /\ \A j \in DOMAIN received : \E g \in 1 .. NumFrames :
         g <= handled + 1 /\ received[j].frame = ChunkAt(Frame(g), ChunkLen * j)
    /\ ~missed => \A j \in DOMAIN received :
         j <= i => received[j].frame = ChunkAt(image, ChunkLen * j)
    /\ ~missed /\ TotalChunks <= LastIndex + 1 => \A j \in 0 .. TotalChunks - 1 :
         j \in DOMAIN received <=> j = i \/ (j < i /\ i <= TotalChunks - 1)

LEMMA ReceivedIs ==
    ASSUME PipelineInv, pc = "publish", client = "online",
           NEW i \in 0 .. LastIndex, Done = 0 .. i - 1, Payload.frame = ChunkAt(image, ChunkLen * i)
    PROVE  IsGathered(Receiver!Received(i, Payload), i)
  <1> DEFINE received == Receiver!Received(i, Payload)
  <1>1. /\ DOMAIN received = DOMAIN chunks \union {i}
        /\ received[i] = Payload
        /\ \A j \in DOMAIN chunks : j # i => received[j] = chunks[j]
    BY DEF Receiver!Received
  <1> HIDE DEF received
  <1>2. LastIndex \in Nat /\ TotalChunks \in Nat \ {0} /\ DOMAIN chunks \subseteq 0 .. LastIndex
    BY FrameInChunks DEF PipelineInv, ChunkInv
  <1>3. image = Frame(handled + 1) /\ handled + 1 \in 1 .. NumFrames /\ handled \in Nat
    BY PublishedImage DEF PipelineInv, UploadInv
  <1>4. received[i].frame = ChunkAt(Frame(handled + 1), ChunkLen * i)
    BY <1>1, <1>3
  <1>5. ASSUME NEW j \in DOMAIN received
        PROVE  \E g \in 1 .. NumFrames :
                 g <= handled + 1 /\ received[j].frame = ChunkAt(Frame(g), ChunkLen * j)
    <2>1. CASE j = i
      BY <1>3, <1>4, <2>1
    <2>2. CASE j # i
      BY <1>1, <2>2 DEF PipelineInv, ChunkInv, Origins
    <2> QED
      BY <2>1, <2>2
  <1>6. ASSUME ~missed, NEW j \in DOMAIN received, j <= i
        PROVE  received[j].frame = ChunkAt(image, ChunkLen * j)
    <2>1. CASE j = i
      BY <1>1, <2>1
    <2>2. CASE j # i
      <3>1. j \in DOMAIN chunks /\ j \in 0 .. i - 1
        BY <1>1, <1>2, <1>6, <2>2
      <3> QED
        BY <1>1, <1>6, <2>2, <3>1 DEF PipelineInv, ChunkInv, Fresh
    <2> QED
      BY <2>1, <2>2
  <1>7. ASSUME ~missed, TotalChunks <= LastIndex + 1, NEW j \in 0 .. TotalChunks - 1
        PROVE  j \in DOMAIN received <=> j = i \/ (j < i /\ i <= TotalChunks - 1)
    <2>1. j \in DOMAIN chunks <=> j \in Done /\ TotalChunks - 1 \notin Done
      BY <1>7 DEF PipelineInv, ChunkInv, Complete
    <2>2. j \in Done <=> j < i
      BY <1>2
    <2>3. TotalChunks - 1 \in Done <=> TotalChunks - 1 < i
      BY <1>2
    <2> QED
      BY <1>1, <1>2, <2>1, <2>2, <2>3
  <1> QED
    BY <1>1, <1>2, <1>4, <1>5, <1>6, <1>7 DEF IsGathered, received

\* What is joined is an image of the present frame, and whole if nothing was missed: by
\* the fallback all chunks are there and of this frame, by the main condition the
\* expected ones.
LEMMA JoinedIs ==
    ASSUME PipelineInv, pc = "publish", client = "online",
           NEW i \in 0 .. LastIndex, Done = 0 .. i - 1, Payload.frame = ChunkAt(image, ChunkLen * i),
           Payload.short => i = LastIndex,
           NEW received, received = Receiver!Received(i, Payload),
           Receiver!AllPresent(received) \/ Receiver!LastChunk(received, i, Payload),
           NEW img, img = Receiver!Join(received)
    PROVE  /\ img \in Images /\ FrameOf(img) = handled + 1
           /\ ~missed => IsWhole(img)
           /\ i = 0 \/ 0 \in DOMAIN chunks
           /\ ~missed /\ TotalChunks <= LastIndex + 1 => TotalChunks - 1 <= i
  <1> DEFINE S == DOMAIN received
             h == handled + 1
  <1>1. /\ S = DOMAIN chunks \union {i} /\ S \subseteq 0 .. LastIndex
        /\ received[i].frame = ChunkAt(Frame(h), ChunkLen * i)
        /\ \A j \in S : \E g \in 1 .. NumFrames :
             g <= h /\ received[j].frame = ChunkAt(Frame(g), ChunkLen * j)
        /\ ~missed => \A j \in S : j <= i => received[j].frame = ChunkAt(image, ChunkLen * j)
        /\ ~missed /\ TotalChunks <= LastIndex + 1 => \A j \in 0 .. TotalChunks - 1 :
             j \in S <=> j = i \/ (j < i /\ i <= TotalChunks - 1)
    BY ReceivedIs DEF IsGathered
  <1>2. LastIndex \in Nat /\ TotalChunks \in Nat \ {0}
    BY FrameInChunks
  <1>3. image = Frame(h) /\ h \in 1 .. NumFrames
    BY PublishedImage
  <1>4. /\ Len(img) \in Nat /\ Len(img) <= LastIndex + 1
        /\ \A T : (\A k \in 1 .. Len(img) : img[k] \in T) => img \in Seq(T)
        /\ \A k \in 1 .. Len(img) : \E j \in S : img[k] = <<received[j].frame, j>>
        /\ \A j \in S : \E k \in 1 .. Len(img) : img[k] = <<received[j].frame, j>>
        /\ \A j \in S : 0 .. j \subseteq S =>
             j + 1 \in 1 .. Len(img) /\ img[j + 1] = <<received[j].frame, j>>
    <2>1. IsJoined(img, received)
      BY <1>1, JoinHas
    <2> QED
      BY <2>1 DEF IsJoined
  <1>5. \/ 0 .. TotalChunks - 1 \subseteq S
        \/ i = LastIndex /\ 0 .. i \subseteq S
    BY DEF Receiver!AllPresent, Receiver!EXPECTED_INDICES, Receiver!LastChunk
  <1> HIDE DEF S, h
  <1>6. i \in S /\ 0 \in S
    BY <1>1, <1>2, <1>5
  <1>7. ASSUME NEW k \in 1 .. Len(img)
        PROVE  img[k] \in Seq(Nat) \X Nat /\ FrameOfChunk(img[k][1]) \in 1 .. h
    <2>1. PICK j \in S : img[k] = <<received[j].frame, j>>
      BY <1>4
    <2>2. PICK g \in 1 .. NumFrames :
            g <= h /\ received[j].frame = ChunkAt(Frame(g), ChunkLen * j)
      BY <1>1
    <2>3. received[j].frame \in Seq(Nat) /\ FrameOfChunk(received[j].frame) = g
      BY <1>1, <2>2, ChunkOf
    <2>4. j \in Nat /\ g \in 1 .. h
      BY <1>1, <1>2, <1>3, <2>2
    <2>5. img[k][1] = received[j].frame
      BY <2>1
    <2> QED
      BY <2>1, <2>3, <2>4, <2>5
  <1>8. \E k \in 1 .. Len(img) : FrameOfChunk(img[k][1]) = h
    <2>1. PICK k \in 1 .. Len(img) : img[k] = <<received[i].frame, i>>
      BY <1>4, <1>6
    <2>2. img[k][1] = ChunkAt(Frame(h), ChunkLen * i)
      BY <1>1, <2>1
    <2> QED
      BY <1>3, <2>2, ChunkOf
  <1>9. img \in Images
    BY <1>4, <1>7 DEF Images
  <1>10. FrameOf(img) = h
    BY <1>3, <1>7, <1>8, NewestIs
  <1>11. i = 0 \/ 0 \in DOMAIN chunks
    BY <1>1, <1>6
  <1>12. ASSUME ~missed, TotalChunks <= LastIndex + 1
         PROVE  TotalChunks - 1 <= i
    <2>1. CASE 0 .. TotalChunks - 1 \subseteq S
      <3>1. TotalChunks - 1 \in S /\ TotalChunks - 1 \in 0 .. TotalChunks - 1
        BY <1>2, <2>1
      <3>2. TotalChunks - 1 = i \/ (TotalChunks - 1 < i /\ i <= TotalChunks - 1)
        BY <1>1, <1>12, <3>1
      <3> QED
        BY <1>2, <3>2
    <2>2. CASE i = LastIndex
      BY <1>2, <1>12, <2>2
    <2> QED
      BY <1>5, <2>1, <2>2
  <1>13. ASSUME ~missed
         PROVE  IsWhole(img)
    <2>1. ASSUME NEW k \in 1 .. LastIndex + 1, k <= TotalChunks
          PROVE  /\ 0 .. k - 1 \subseteq S /\ k - 1 <= i /\ k - 1 \in 0 .. LastIndex
      <3>1. CASE 0 .. TotalChunks - 1 \subseteq S
        <4>1. TotalChunks - 1 \in 0 .. LastIndex
          <5>1. TotalChunks - 1 \in S
            BY <1>2, <3>1
          <5> QED
            BY <1>1, <5>1
        <4>2. TotalChunks - 1 <= i
          BY <1>2, <1>12, <1>13, <4>1
        <4> QED
          BY <1>2, <2>1, <3>1, <4>2
      <3>2. CASE i = LastIndex /\ 0 .. i \subseteq S
        BY <1>2, <2>1, <3>2
      <3> QED
        BY <1>5, <3>1, <3>2
    <2>2. ASSUME NEW k \in 1 .. LastIndex + 1, k <= TotalChunks
          PROVE  k <= Len(img) /\ img[k] = <<ChunkAt(Frame(h), ChunkLen * (k - 1)), k - 1>>
      <3>1. 0 .. k - 1 \subseteq S /\ k - 1 <= i /\ k - 1 \in S /\ (k - 1) + 1 = k
        <4>1. 0 .. k - 1 \subseteq S /\ k - 1 <= i
          BY <2>1, <2>2
        <4>2. k - 1 \in 0 .. k - 1 /\ (k - 1) + 1 = k
          BY <1>2
        <4> QED
          BY <4>1, <4>2
      <3>2. k \in 1 .. Len(img) /\ img[k] = <<received[k - 1].frame, k - 1>>
        BY <1>4, <3>1
      <3>3. received[k - 1].frame = ChunkAt(image, ChunkLen * (k - 1))
        BY <1>1, <1>13, <3>1
      <3> QED
        BY <1>3, <1>4, <3>2, <3>3
    <2>3. /\ Len(FrameChunks[h]) = LastIndex + 1
          /\ \A k \in 1 .. LastIndex + 1 :
               FrameChunks[h][k] = <<ChunkAt(Frame(h), ChunkLen * (k - 1)), k - 1>>
      BY <1>3, ChunksAre
    <2> DEFINE frame == FrameChunks[h]
    <2>4. \A k \in 1 .. LastIndex + 1 : k <= TotalChunks => k <= Len(img) /\ img[k] = frame[k]
      BY <2>2, <2>3
    <2>5. Len(frame) = LastIndex + 1
      BY <2>3
    <2>6. IsWhole(img) <=> /\ Len(img) <= Len(frame)
                           /\ \A k \in 1 .. Len(frame) :
                                k <= TotalChunks => k <= Len(img) /\ img[k] = frame[k]
      BY <1>10 DEF IsWhole
    <2> HIDE DEF frame
    <2> QED
      BY <1>4, <2>4, <2>5, <2>6
  <1> QED
    BY <1>9, <1>10, <1>11, <1>12, <1>13 DEF h
\* A step stores the image of the present frame, which was not stored before.
Stores(img) ==
    /\ img \in Images /\ joined' = Append(joined, img)
    /\ FrameOf(img) = handled + 1 /\ Newest = handled /\ Newest' = handled + 1
    /\ missed \/ IsWhole(img)

\* What a chunk that arrives does to the receiver.
LEMMA ChunkArrives ==
    ASSUME PipelineInv, pc = "publish", client = "online",
           NEW i \in 0 .. LastIndex, Done = 0 .. i - 1, Done' = 0 .. i,
           Payload.frame = ChunkAt(image, ChunkLen * i), Payload.short => i = LastIndex,
           Receiver!OnMessage(i, Payload), UNCHANGED <<image, handled, client, missed>>
    PROVE  /\ ChunkInv'
           /\ \/ joined' = joined /\ Newest' >= Newest
              \/ \E img : Stores(img)
  <1> DEFINE received == Receiver!Received(i, Payload)
             complete == Receiver!AllPresent(received) \/ Receiver!LastChunk(received, i, Payload)
             img == Receiver!Join(received)
  <1>1. IsGathered(received, i)
    BY ReceivedIs
  <1>2. /\ LastIndex \in Nat /\ TotalChunks \in Nat \ {0} /\ handled \in Nat
        /\ missed \in BOOLEAN /\ image = Frame(handled + 1)
    <2>1. handled \in Nat /\ missed \in BOOLEAN
      BY DEF PipelineInv, UploadInv, ChunkInv
    <2> QED
      BY <2>1, FrameInChunks, PublishedImage
  <1>3. IF complete THEN joined' = Append(joined, img) /\ chunks' = <<>>
                    ELSE joined' = joined /\ chunks' = received
    BY DEF Receiver!OnMessage, Receiver!TentarMontarImagem, Receiver!Empty
  <1>4. /\ 0 \in Done <=> i # 0
        /\ 0 \in Done'
        /\ \A j : j \in Done' => j \in Int /\ j <= i
    BY <1>2
  <1>5. CASE complete
    <2>1. /\ img \in Images /\ FrameOf(img) = handled + 1 /\ (~missed => IsWhole(img))
          /\ i = 0 \/ 0 \in DOMAIN chunks
          /\ ~missed /\ TotalChunks <= LastIndex + 1 => TotalChunks - 1 <= i
      BY <1>5, JoinedIs
    <2> HIDE DEF received, complete, img
    <2>2. joined' = Append(joined, img) /\ DOMAIN chunks' = {}
      <3>1. DOMAIN (<<>>) = {}
        OBVIOUS
      <3> QED
        BY <1>3, <1>5, <3>1
    <2>3. Newest = handled /\ Newest' = handled + 1
      BY <1>4, <2>1, <2>2 DEF Newest
    <2>4. Stores(img)
      BY <2>1, <2>2, <2>3 DEF Stores
    <2>5. ASSUME ~missed, TotalChunks <= LastIndex + 1
          PROVE  Complete'
      <3>1. TotalChunks - 1 \in Done'
        BY <1>2, <2>1, <2>5
      <3> QED
        BY <2>2, <3>1 DEF Complete
    <2>6. ChunkInv'
      BY <1>2, <2>2, <2>5 DEF ChunkInv, Origins, Fresh
    <2> QED
      BY <2>4, <2>6
  <1>6. CASE ~complete
    <2>1. joined' = joined /\ chunks' = received
      BY <1>3, <1>6
    <2>2. ~(0 .. TotalChunks - 1 \subseteq DOMAIN received)
      BY <1>6 DEF Receiver!AllPresent, Receiver!EXPECTED_INDICES
    <2> HIDE DEF received, complete, img
    <2>3. /\ DOMAIN received = DOMAIN chunks \union {i} /\ DOMAIN received \subseteq 0 .. LastIndex
          /\ \A j \in DOMAIN received : \E g \in 1 .. NumFrames :
               g <= handled + 1 /\ received[j].frame = ChunkAt(Frame(g), ChunkLen * j)
          /\ ~missed => \A j \in DOMAIN received :
               j <= i => received[j].frame = ChunkAt(image, ChunkLen * j)
          /\ ~missed /\ TotalChunks <= LastIndex + 1 => \A j \in 0 .. TotalChunks - 1 :
               j \in DOMAIN received <=> j = i \/ (j < i /\ i <= TotalChunks - 1)
      BY <1>1 DEF IsGathered
    <2>4. Newest' >= Newest
      <3>1. 0 \in DOMAIN received <=> i = 0 \/ 0 \in DOMAIN chunks
        BY <2>3
      <3> QED
        BY <1>2, <1>4, <2>1, <3>1 DEF Newest
    <2>5. Origins'
      BY <2>1, <2>3 DEF Origins
    <2>6. ~missed => Fresh'
      BY <1>4, <2>1, <2>3 DEF Fresh
    <2>7. ASSUME ~missed, TotalChunks <= LastIndex + 1
          PROVE  Complete'
      <3>1. i # TotalChunks - 1
        <4> SUFFICES ASSUME i = TotalChunks - 1 PROVE FALSE
          OBVIOUS
        <4>1. \A j \in 0 .. TotalChunks - 1 : j = i \/ (j < i /\ i <= TotalChunks - 1)
          BY <1>2
        <4> QED
          BY <2>2, <2>3, <2>7, <4>1
      <3>2. \A j \in 0 .. TotalChunks - 1 :
              (j = i \/ (j < i /\ i <= TotalChunks - 1))
                <=> j \in 0 .. i /\ TotalChunks - 1 \notin 0 .. i
        BY <1>2, <3>1
      <3>3. \A j \in 0 .. TotalChunks - 1 :
              j \in DOMAIN chunks' <=> j \in Done' /\ TotalChunks - 1 \notin Done'
        BY <2>1, <2>3, <2>7, <3>2
      <3> QED
        BY <3>3 DEF Complete
    <2>8. ChunkInv'
      BY <1>2, <2>1, <2>3, <2>5, <2>6, <2>7 DEF ChunkInv
    <2> QED
      BY <2>1, <2>4, <2>8
  <1> QED
    BY <1>5, <1>6

\* One turn of the upload loop: the chunk arrives, or is missed.
LEMMA PublishStep ==
    ASSUME PipelineInv, PublishChunk
    PROVE  /\ ChunkInv'
           /\ published' = FrameLen \/ \E i \in 0 .. LastIndex : published' = ChunkLen * i
           /\ \/ joined' = joined /\ Newest' >= Newest /\ missed' \in {missed, TRUE}
              \/ missed' = missed /\ \E img : Stores(img)
  <1>1. /\ pc = "publish" /\ UNCHANGED <<image, handled, client>>
        /\ \/ Arrives /\ Receiver!OnMessage(published \div ChunkLen, Payload) /\ missed' = missed
           \/ ~Arrives /\ missed' = TRUE /\ chunks' = chunks /\ joined' = joined
    BY DEF PublishChunk, UpGoto, vars, imageVars
  <1>2. PICK i \in 0 .. LastIndex :
             /\ published \div ChunkLen = i
             /\ Payload.frame = ChunkAt(image, ChunkLen * i)
             /\ Payload.short => i = LastIndex
             /\ published' = FrameLen \/ \E j \in 0 .. LastIndex : published' = ChunkLen * j
             /\ Done = 0 .. i - 1 /\ Done' = 0 .. i
    BY NextChunk
  <1>3. CASE Arrives /\ Receiver!OnMessage(published \div ChunkLen, Payload) /\ missed' = missed
    <2>1. Receiver!OnMessage(i, Payload) /\ client = "online"
      BY <1>2, <1>3 DEF Arrives
    <2>2. ChunkInv' /\ ((joined' = joined /\ Newest' >= Newest) \/ \E img : Stores(img))
      BY <1>1, <1>2, <1>3, <2>1, ChunkArrives
    <2> QED
      BY <1>2, <1>3, <2>2
  <1>4. CASE ~Arrives /\ missed' = TRUE /\ chunks' = chunks /\ joined' = joined
    <2>1. ChunkInv'
      BY <1>1, <1>4 DEF ChunkInv, Origins, PipelineInv
    <2>2. 0 \in Done => 0 \in Done'
      BY <1>2
    <2>3. handled \in Nat
      BY DEF PipelineInv, UploadInv
    <2>4. Newest' >= Newest
      BY <1>1, <1>4, <2>2, <2>3 DEF Newest
    <2> QED
      BY <1>2, <1>4, <2>1, <2>4
  <1> QED
    BY <1>1, <1>3, <1>4
\* While nothing is joined what is stored stays, and may be as new as before.
LEMMA StoredStays ==
    ASSUME StoredInv, handled \in Nat, handled' \in Nat, joined' = joined, Newest' >= Newest
    PROVE  StoredInv'
  <1>1. joined' \in Seq(Images)
    BY DEF StoredInv
  <1>2. Newest \in Int /\ Newest' \in Int
    BY DEF Newest
  <1>3. ASSUME NEW k \in 1 .. Len(joined)
        PROVE  FrameOf(joined[k]) \in 1 .. NumFrames /\ FrameOf(joined[k]) <= Newest'
    <2>1. FrameOf(joined[k]) \in 1 .. NumFrames /\ FrameOf(joined[k]) <= Newest
      BY DEF StoredInv
    <2> QED
      BY <1>2, <2>1
  <1>4. \A k \in 1 .. Len(joined') :
          FrameOf(joined'[k]) \in 1 .. NumFrames /\ FrameOf(joined'[k]) <= Newest'
    BY <1>3
  <1> QED
    BY <1>1, <1>4 DEF StoredInv, FrameOf, FrameOfChunk

\* An image of the present frame can be added to what is stored.
LEMMA StoredGrows ==
    ASSUME PipelineInv, pc = "publish", NEW img, Stores(img)
    PROVE  /\ StoredInv' /\ Len(joined') = Len(joined) + 1 /\ joined'[Len(joined) + 1] = img
           /\ \A k \in 1 .. Len(joined) : joined'[k] = joined[k]
  <1>1. /\ joined \in Seq(Images) /\ img \in Images /\ joined' = Append(joined, img)
        /\ FrameOf(img) = handled + 1 /\ Newest = handled /\ Newest' = handled + 1
        /\ \A k \in 1 .. Len(joined) :
             FrameOf(joined[k]) \in 1 .. NumFrames /\ FrameOf(joined[k]) <= handled
    BY DEF Stores, PipelineInv, StoredInv
  <1>2. /\ Len(joined') = Len(joined) + 1 /\ joined'[Len(joined) + 1] = img
        /\ joined' \in Seq(Images) /\ Len(joined) \in Nat
        /\ \A k \in 1 .. Len(joined) : joined'[k] = joined[k]
    BY <1>1
  <1>3. handled + 1 \in 1 .. NumFrames
    BY PublishedImage
  <1>4. ASSUME NEW k \in 1 .. Len(joined')
        PROVE  FrameOf(joined'[k]) \in 1 .. NumFrames /\ FrameOf(joined'[k]) <= handled + 1
    <2>1. k \in 1 .. Len(joined) \/ k = Len(joined) + 1
      BY <1>2
    <2>2. CASE k \in 1 .. Len(joined)
      <3>1. joined'[k] = joined[k] /\ FrameOf(joined[k]) \in 1 .. NumFrames
            /\ FrameOf(joined[k]) <= handled
        BY <1>1, <1>2, <2>2
      <3>2. handled \in Int
        BY DEF PipelineInv, UploadInv
      <3>3. FrameOf(joined[k]) <= handled + 1
        BY <3>1, <3>2
      <3> QED
        BY <3>1, <3>3
    <2>3. CASE k = Len(joined) + 1
      BY <1>1, <1>2, <1>3, <2>3
    <2> QED
      BY <2>1, <2>2, <2>3
  <1>5. \A k \in 1 .. Len(joined') :
          FrameOf(joined'[k]) \in 1 .. NumFrames /\ FrameOf(joined'[k]) <= Newest'
    BY <1>1, <1>4
  <1>6. StoredInv'
    BY <1>2, <1>5 DEF StoredInv, FrameOf, FrameOfChunk
  <1> QED
    BY <1>2, <1>6

-----------------------------------------------------------------------------
(* Every step of the pipeline keeps the invariants.                        *)

\* The image goes on to the next frame just when the modem has done with this one.
LEMMA HandledStep ==
    ASSUME TaskPrompt, FramesSpaced, FrameLen <= ImageCap,
           PipelineInv, [PipelineNext]_allVars
    PROVE  /\ handled \in 0 .. NumFrames /\ handled' \in 0 .. NumFrames
           /\ ImageOf(handled)'
           /\ EndUpload => handled' = handled + 1
           /\ ~EndUpload => handled' = handled
  <1> PICK f \in 0 .. NumFrames : f = handled
    BY DEF PipelineInv, UploadInv
  <1>1. ImageOf(f) /\ TypeOK /\ PhaseInv /\ FrameInv
    BY DEF PipelineInv, UploadInv
  <1>2. CASE EndUpload
    <2>1. Publish /\ handled' = f + 1
      BY <1>2 DEF EndUpload
    <2>2. ImageOf(f + 1)' /\ f + 1 \in 0 .. NumFrames
      BY <1>1, <2>1, FramePublish
    <2>3. ImageOf(handled)'
      BY <2>1, <2>2 DEF ImageOf
    <2> QED
      BY <1>2, <2>1, <2>2, <2>3
  <1>3. CASE ~EndUpload
    <2>1. [Next]_vars /\ ~Publish
      BY <1>3, ModemStep
    <2>2. ImageOf(f)'
      BY <1>1, <2>1, FrameStep
    <2>3. handled' = f
      BY <1>3 DEF PipelineNext, Interrupt, ModemTask, Receive, Upload, Reconnect, EndRetries,
         Commence, PublishChunk, World, LinkDies, SessionCloses, ClientDisconnects,
         ClientReconnects, ReceiverEnds, ReceiverStarts, uploadVars, allVars
    <2>4. ImageOf(handled)'
      BY <2>2, <2>3 DEF ImageOf
    <2> QED
      BY <1>3, <2>3, <2>4
  <1> QED
    BY <1>2, <1>3

\* While neither the upload nor the receiver goes on, what the dictionary holds stays
\* right: during an upload the image does not change.
LEMMA ChunksStay ==
    ASSUME PipelineInv, UNCHANGED <<up, published, handled, missed, chunks>>,
           client' = "ended" <=> client = "ended", up = "send" => image' = image
    PROVE  ChunkInv' /\ Done' = Done /\ Newest' = Newest
  <1>1. Done' = Done
    BY DEF Done
  <1>2. Newest' = Newest /\ Origins' = Origins /\ Complete' = Complete
    BY <1>1 DEF Newest, Origins, Complete
  <1>3. Fresh => Fresh'
    <2>1. CASE up = "send"
      BY <1>1, <2>1 DEF Fresh
    <2>2. CASE up # "send"
      BY <2>2 DEF Fresh, Done
    <2> QED
      BY <2>1, <2>2
  <1> QED
    BY <1>1, <1>2, <1>3 DEF ChunkInv, PipelineInv

\* What the steps of the modem's receiver leave alone: while a chunk is on its way
\* the image stays.
LEMMA ReceiveStep ==
    ASSUME PipelineInv, Interrupt \/ Receive \/ UNCHANGED allVars
    PROVE  /\ UNCHANGED <<link, up, published, handled, client, missed, chunks, joined>>
           /\ up # "ensure" => pc' = "publish" /\ image' = image
           /\ ChunkInv' /\ Newest' = Newest
  <1>1. UNCHANGED <<link, up, published, handled, client, missed, chunks, joined>>
    BY DEF Interrupt, Receive, uploadVars, receiverVars, allVars
  <1>2. up # "ensure" => pc' = "publish" /\ image' = image
    <2>1. CASE Interrupt
      BY <1>1, <2>1 DEF Interrupt, UartIsr, Tick, taskVars, imageVars, PipelineInv, UploadInv
    <2>2. CASE Receive
      <3>1. pc # "publish"
        BY <2>2 DEF Receive, CheckReady, AppendImage, ZeroBuffer, ResetIdx, FreeBuffer, ReadTick,
               Decide, StartRX, RxState1, RxState2, RxIdx, RxActive, RxZero
      <3>2. up = "ensure"
        BY <3>1 DEF PipelineInv, UploadInv
      <3> QED
        BY <1>1, <3>2
    <2>3. CASE UNCHANGED allVars
      BY <2>3 DEF allVars, vars, taskVars, imageVars, PipelineInv, UploadInv
    <2> QED
      BY <2>1, <2>2, <2>3
  <1>3. ChunkInv' /\ Newest' = Newest
    BY <1>1, <1>2, ChunksStay
  <1> QED
    BY <1>1, <1>2, <1>3

\* The connection and the receiver's process: a dictionary that is kept stays right, and
\* an empty one is right unless the receiver starts in the middle of an upload.
LEMMA WorldStep ==
    ASSUME PipelineInv, World
    PROVE  /\ UNCHANGED <<sent, pc, image, up, published, handled, joined>>
           /\ \/ missed' = missed
              \/ missed' = FALSE
              \/ missed' = TRUE /\ pc = "publish"
           /\ ChunkInv' /\ Newest' >= Newest
  <1>1. UNCHANGED <<sent, pc, image, up, published, handled, joined>>
    BY DEF World, LinkDies, SessionCloses, ClientDisconnects, ClientReconnects, ReceiverEnds,
           ReceiverStarts, vars, taskVars, imageVars, uploadVars, receiverVars
  <1>2. handled \in Nat /\ Newest \in Int
    <2>1. handled \in Nat
      BY DEF PipelineInv, UploadInv
    <2> QED
      BY <2>1 DEF Newest
  <1>3. CASE LinkDies \/ SessionCloses \/ ClientDisconnects \/ ClientReconnects
    <2>1. /\ UNCHANGED <<missed, chunks>> /\ (client' = "ended" <=> client = "ended")
      BY <1>3 DEF LinkDies, SessionCloses, ClientDisconnects, ClientReconnects, receiverVars
    <2>2. ChunkInv' /\ Newest' = Newest
      BY <1>1, <2>1, ChunksStay
    <2> QED
      BY <1>1, <1>2, <2>1, <2>2
  <1>4. CASE ReceiverEnds
    <2>1. chunks' = <<>> /\ missed' = missed /\ client' = "ended"
      BY <1>4 DEF ReceiverEnds, Receiver!Empty
    <2>2. DOMAIN (<<>>) = {}
      OBVIOUS
    <2>3. DOMAIN chunks' = {}
      BY <2>1, <2>2
    <2>4. ChunkInv'
      BY <2>1, <2>3 DEF ChunkInv, Origins, Fresh, PipelineInv
    <2>5. Newest' >= Newest
      <3>1. Done' = Done
        BY <1>1 DEF Done
      <3> QED
        BY <1>1, <1>2, <2>3, <3>1 DEF Newest
    <2> QED
      BY <1>1, <2>1, <2>4, <2>5
  <1>5. CASE ReceiverStarts
    <2>1. client = "ended" /\ chunks' = chunks /\ missed' = MidUpload
      BY <1>5 DEF ReceiverStarts
    <2>2. DOMAIN chunks = {} /\ MidUpload \in BOOLEAN
      BY <2>1 DEF PipelineInv, ChunkInv, MidUpload
    <2>3. Done' = Done
      BY <1>1 DEF Done
    <2>4. Newest' >= Newest
      BY <1>1, <1>2, <2>1, <2>3 DEF Newest
    <2>5. ASSUME ~MidUpload, TotalChunks <= LastIndex + 1
          PROVE  Done = {} \/ TotalChunks - 1 \in Done
      <3>1. CASE up # "send"
        BY <3>1 DEF Done
      <3>2. CASE up = "send"
        <4>1. pc = "publish"
          BY <3>2 DEF PipelineInv, UploadInv
        <4>2. Len(image) = FrameLen /\ FrameLen \in Nat \ {0}
          BY <4>1, PublishedImage, FrameInChunks
        <4>3. published \notin 1 .. FrameLen - 1
          BY <2>5, <3>2, <4>2 DEF MidUpload
        <4>4. published = FrameLen \/ (published \in Nat /\ published < FrameLen)
          BY <3>2, ChunkIndex DEF PipelineInv, UploadInv
        <4>5. published = FrameLen \/ published = 0
          BY <4>2, <4>3, <4>4
        <4>6. Done = {} \/ Done = 0 .. LastIndex
          BY <3>2, <4>5, StartsAre DEF Done
        <4>7. TotalChunks - 1 \in 0 .. LastIndex
          BY <2>5, FrameInChunks
        <4> QED
          BY <4>6, <4>7
      <3> QED
        BY <3>1, <3>2
    <2>6. ASSUME ~missed', TotalChunks <= LastIndex + 1
          PROVE  Complete'
      BY <2>1, <2>2, <2>3, <2>5, <2>6 DEF Complete
    <2>7. ChunkInv'
      BY <2>1, <2>2, <2>6 DEF ChunkInv, Origins, Fresh
    <2>8. MidUpload => pc = "publish"
      BY DEF MidUpload, PipelineInv, UploadInv
    <2> QED
      BY <1>1, <2>1, <2>2, <2>4, <2>7, <2>8
  <1> QED
    BY <1>3, <1>4, <1>5 DEF World
\* The modem's attempts to connect, the beginning of an upload and its end: no chunk of
\* the image is published yet, or all are and the expected ones are used up.
LEMMA UploadStep ==
    ASSUME PipelineInv, Reconnect \/ EndRetries \/ Commence \/ EndUpload,
           handled' = IF EndUpload THEN handled + 1 ELSE handled
    PROVE  /\ UNCHANGED <<sent, joined>> /\ ChunkInv' /\ Newest' >= Newest
           /\ up' # "ensure" => pc' = "publish"
           /\ up' = "send" => published' = 0
           /\ missed' = IF EndUpload THEN missed /\ ~ShortFrames ELSE missed
           /\ pc = "publish"
  <1>1. /\ pc = "publish" /\ UNCHANGED <<sent, client, chunks, joined>>
        /\ EndUpload \/ pc' = pc
        /\ EndUpload => up' = "ensure"
        /\ missed' = IF EndUpload THEN missed /\ ~ShortFrames ELSE missed
    BY DEF Reconnect, EndRetries, Commence, EndUpload, UpGoto, Publish, vars, taskVars,
           receiverVars
  <1>2. up' = "send" => published' = 0
    BY DEF Reconnect, EndRetries, Commence, EndUpload, UpGoto
  <1>3. Done' = {}
    <2>1. up' = "send" => Done' = StartsBelow(published')
      BY DEF Done, StartsBelow
    <2>2. up' # "send" => Done' = {}
      BY DEF Done
    <2> QED
      BY <1>2, <2>1, <2>2, StartsAre
  <1>4. Done = {} \/ (EndUpload /\ Done = 0 .. LastIndex)
    <2>1. CASE up # "send"
      BY <2>1 DEF Done
    <2>2. CASE up = "send"
      <3>1. EndUpload /\ published = Len(image)
        BY <2>2 DEF Reconnect, EndRetries, Commence, EndUpload, UpGoto, Sent
      <3>2. Len(image) = FrameLen
        BY <1>1, PublishedImage
      <3> QED
        BY <2>2, <3>1, <3>2, StartsAre DEF Done
    <2> QED
      BY <2>1, <2>2
  <1>5. handled \in Nat /\ missed \in BOOLEAN
    BY DEF PipelineInv, UploadInv, ChunkInv
  <1>6. Newest' >= Newest
    BY <1>1, <1>3, <1>4, <1>5 DEF Newest
  <1>7. Origins'
    <2>1. ASSUME NEW i \in DOMAIN chunks
          PROVE  \E g \in 1 .. NumFrames :
                   g <= handled' + 1 /\ chunks[i].frame = ChunkAt(Frame(g), ChunkLen * i)
      <3>1. PICK g \in 1 .. NumFrames :
              g <= handled + 1 /\ chunks[i].frame = ChunkAt(Frame(g), ChunkLen * i)
        BY DEF PipelineInv, ChunkInv, Origins
      <3>2. g <= handled' + 1
        BY <1>5, <3>1
      <3> QED
        BY <3>1, <3>2
    <2> QED
      BY <1>1, <2>1 DEF Origins
  <1>8. ASSUME ~missed', client' # "ended", TotalChunks <= LastIndex + 1
        PROVE  Complete'
    <2>1. ~missed
      <3>1. ~ShortFrames
        BY <1>8, ShortIs, FrameInChunks
      <3> QED
        BY <1>1, <1>5, <1>8, <3>1
    <2>2. \A j \in 0 .. TotalChunks - 1 :
            j \in DOMAIN chunks <=> j \in Done /\ TotalChunks - 1 \notin Done
      BY <1>1, <1>8, <2>1 DEF PipelineInv, ChunkInv, Complete
    <2>3. TotalChunks - 1 \in 0 .. LastIndex
      BY <1>8, FrameInChunks
    <2>4. \A j \in 0 .. TotalChunks - 1 : j \notin DOMAIN chunks
      BY <1>4, <2>2, <2>3
    <2> QED
      BY <1>1, <1>3, <2>4 DEF Complete
  <1>9. Fresh'
    BY <1>3 DEF Fresh
  <1>10. missed' \in BOOLEAN /\ DOMAIN chunks' \subseteq 0 .. LastIndex
         /\ (client' = "ended" => DOMAIN chunks' = {})
    BY <1>1, <1>5 DEF PipelineInv, ChunkInv
  <1>11. ChunkInv'
    BY <1>7, <1>8, <1>9, <1>10 DEF ChunkInv
  <1> QED
    BY <1>1, <1>2, <1>6, <1>11

\* The three parts of the invariant that are the pipeline's own are inductive.
LEMMA PipelineStep ==
    ASSUME TaskPrompt, FramesSpaced, FrameLen <= ImageCap,
           PipelineInv, [PipelineNext]_allVars
    PROVE  UploadInv' /\ ChunkInv' /\ StoredInv'
  <1>1. /\ handled \in 0 .. NumFrames /\ handled' \in 0 .. NumFrames /\ ImageOf(handled)'
        /\ EndUpload => handled' = handled + 1
        /\ ~EndUpload => handled' = handled
    BY HandledStep
  <1>2. UploadInv /\ StoredInv /\ handled \in Nat /\ handled' \in Nat
    BY <1>1 DEF PipelineInv
  <1>3. Newest \in Int /\ Newest' \in Int
    BY <1>2 DEF Newest
  <1>4. CASE Interrupt \/ Receive \/ UNCHANGED allVars
    <2>1. /\ UNCHANGED <<link, up, published, handled, client, missed, chunks, joined>>
          /\ up # "ensure" => pc' = "publish" /\ image' = image
          /\ ChunkInv' /\ Newest' = Newest
      BY <1>4, ReceiveStep
    <2>2. UploadInv'
      BY <1>1, <1>2, <2>1 DEF UploadInv
    <2>3. StoredInv'
      BY <1>2, <1>3, <2>1, StoredStays
    <2> QED
      BY <2>1, <2>2, <2>3
  <1>5. CASE World
    <2>1. /\ UNCHANGED <<sent, pc, image, up, published, handled, joined>>
          /\ ChunkInv' /\ Newest' >= Newest
      BY <1>5, WorldStep
    <2>2. UploadInv'
      BY <1>1, <1>2, <2>1 DEF UploadInv
    <2>3. StoredInv'
      BY <1>2, <2>1, StoredStays
    <2> QED
      BY <2>1, <2>2, <2>3
  <1>6. CASE Reconnect \/ EndRetries \/ Commence \/ EndUpload
    <2>1. /\ joined' = joined /\ ChunkInv' /\ Newest' >= Newest
          /\ up' # "ensure" => pc' = "publish"
          /\ up' = "send" => published' = 0
      BY <1>1, <1>6, UploadStep
    <2>2. UploadInv'
      <3>1. 0 \in 0 .. LastIndex /\ 0 = ChunkLen * 0
        BY FrameInChunks
      <3>2. up' = "send" => \E i \in 0 .. LastIndex : published' = ChunkLen * i
        BY <2>1, <3>1
      <3> QED
        BY <1>1, <2>1, <3>2 DEF UploadInv
    <2>3. StoredInv'
      BY <1>2, <2>1, StoredStays
    <2> QED
      BY <2>1, <2>2, <2>3
  <1>7. CASE PublishChunk
    <2>1. /\ pc = "publish" /\ pc' = pc /\ up' = "send"
      BY <1>7 DEF PublishChunk, UpGoto, vars, taskVars
    <2>2. /\ ChunkInv'
          /\ published' = FrameLen \/ \E i \in 0 .. LastIndex : published' = ChunkLen * i
          /\ (joined' = joined /\ Newest' >= Newest) \/ \E img : Stores(img)
      BY <1>7, PublishStep
    <2>3. UploadInv'
      BY <1>1, <2>1, <2>2 DEF UploadInv
    <2>4. StoredInv'
      <3>1. CASE joined' = joined /\ Newest' >= Newest
        BY <1>2, <3>1, StoredStays
      <3>2. CASE \E img : Stores(img)
        BY <2>1, <3>2, StoredGrows
      <3> QED
        BY <2>2, <3>1, <3>2
    <2> QED
      BY <2>2, <2>3, <2>4
  <1> QED
    BY <1>4, <1>5, <1>6, <1>7 DEF PipelineNext, ModemTask, Upload

\* They hold when nothing has been sent.
LEMMA PipelineStart == PipelineInit => UploadInv /\ ChunkInv /\ StoredInv
  <1> SUFFICES ASSUME PipelineInit PROVE UploadInv /\ ChunkInv /\ StoredInv
    OBVIOUS
  <1>1. /\ Init /\ handled = 0 /\ up = "ensure" /\ chunks = <<>> /\ joined = <<>>
        /\ client = "online" /\ missed = FALSE
    BY DEF PipelineInit, Receiver!Empty
  <1>2. ImageOf(0) /\ 0 \in 0 .. NumFrames
    BY <1>1, FrameInit, Lengths
  <1>3. UploadInv
    BY <1>1, <1>2 DEF UploadInv
  <1>4. DOMAIN (<<>>) = {} /\ <<>> \in Seq(Images) /\ Len(<<>>) = 0
    OBVIOUS
  <1>5. Done = {} /\ DOMAIN chunks = {}
    BY <1>1, <1>4 DEF Done
  <1>6. ChunkInv
    BY <1>1, <1>5 DEF ChunkInv, Origins, Fresh, Complete
  <1>7. StoredInv
    BY <1>1, <1>4 DEF StoredInv
  <1> QED
    BY <1>3, <1>6, <1>7

\* The invariants hold in every behaviour of the pipeline.
LEMMA PipelineAlways ==
    ASSUME TaskPrompt, FramesSpaced, MaxLag = 0, FrameLen <= ImageCap
    PROVE  PipelineSafety => []PipelineInv
  <1>1. PipelineInv /\ [PipelineNext]_allVars => UploadInv' /\ ChunkInv' /\ StoredInv'
    BY PipelineStep
  <1>2. PipelineInv <=> TypeOK /\ PhaseInv /\ FrameInv /\ UploadInv /\ ChunkInv /\ StoredInv
    BY DEF PipelineInv
  <1> QED
    BY <1>1, <1>2, PipelineStart, PipelineIsUartRx, PhaseAlways, FrameAlways, PTL
    DEF PipelineSafety
-----------------------------------------------------------------------------
(* Every step of the pipeline is one of FrameDelivery, or none.            *)

\* The frames the camera has taken, and what is stored, as FrameDelivery sees them.
Taken == sent \div FrameLen
Entry(img) == [frame |-> FrameOf(img), whole |-> IsWhole(img)]
Stored == [k \in 1 .. Len(joined) |-> Entry(joined[k])]

\* The camera's next fragment completes a frame or does not.
LEMMA TakenNext ==
    ASSUME NEW n \in Nat
    PROVE  (n + 1) \div FrameLen \in {n \div FrameLen, n \div FrameLen + 1}
  <1> DEFINE q == n \div FrameLen
             r == n % FrameLen
             m == FrameLen * q
             m1 == FrameLen * (q + 1)
  <1>1. /\ FrameLen \in Nat \ {0} /\ q \in Int /\ r \in 0 .. FrameLen - 1 /\ n = m + r
    <2>1. FrameLen \in Nat \ {0} /\ n \in Int
      BY Lengths
    <2> QED
      BY <2>1, ModPart
  <1>2. m \in Int /\ m1 \in Int /\ m1 = m + FrameLen
    BY <1>1
  <1>3. m = FrameLen * q /\ m1 = FrameLen * (q + 1) /\ q + 1 \in Int
    BY <1>1
  <1> HIDE DEF q, r, m, m1
  <1>4. CASE r + 1 = FrameLen
    <2>1. /\ FrameLen \in Nat \ {0} /\ n + 1 \in Int /\ q + 1 \in Int /\ m1 \in Int
          /\ 0 \in 0 .. FrameLen - 1 /\ m1 = FrameLen * (q + 1) /\ n + 1 = m1 + 0
      BY <1>1, <1>2, <1>3, <1>4
    <2>2. (n + 1) \div FrameLen = q + 1
      BY <2>1, DivOfSum
    <2> QED
      BY <2>2 DEF q
  <1>5. CASE r + 1 # FrameLen
    <2>1. /\ FrameLen \in Nat \ {0} /\ n + 1 \in Int /\ q \in Int /\ m \in Int
          /\ r + 1 \in 0 .. FrameLen - 1 /\ m = FrameLen * q /\ n + 1 = m + (r + 1)
      BY <1>1, <1>2, <1>3, <1>5
    <2>2. (n + 1) \div FrameLen = q
      BY <2>1, DivOfSum
    <2> QED
      BY <2>2 DEF q
  <1> QED
    BY <1>4, <1>5

\* While the modem publishes, exactly one frame was taken and is not done with.
LEMMA TakenIs ==
    ASSUME PipelineInv, pc = "publish"
    PROVE  Taken = handled + 1
  <1> DEFINE f == handled + 1
             m == f * FrameLen
  <1>1. f \in 1 .. NumFrames /\ sent = m
    BY PublishedImage
  <1>2. FrameLen \in Nat \ {0} /\ NumFrames \in Nat
    BY Lengths
  <1>3. f \in Int /\ m \in Int /\ m = FrameLen * f /\ sent = m + 0 /\ sent \in Int
    BY <1>1, <1>2
  <1> HIDE DEF f, m
  <1>4. /\ FrameLen \in Nat \ {0} /\ sent \in Int /\ f \in Int /\ m \in Int
        /\ 0 \in 0 .. FrameLen - 1 /\ m = FrameLen * f /\ sent = m + 0
    BY <1>2, <1>3
  <1>5. sent \div FrameLen = f
    BY <1>4, DivOfSum
  <1> QED
    BY <1>5 DEF Taken, f

\* Joining an image stores it.
LEMMA StoreStep ==
    ASSUME PipelineInv, PublishChunk, missed' = missed, NEW img, Stores(img)
    PROVE  Delivery!Store(IsWhole(img))
  <1>1. /\ pc = "publish" /\ handled' = handled /\ sent' = sent
    BY DEF PublishChunk, UpGoto, vars
  <1>2. /\ Len(joined') = Len(joined) + 1 /\ \A k \in 1 .. Len(joined) : joined'[k] = joined[k]
        /\ joined'[Len(joined) + 1] = img
    BY <1>1, StoredGrows
  <1>3. /\ FrameOf(img) = handled + 1 /\ Newest = handled /\ (missed \/ IsWhole(img))
    BY DEF Stores
  <1>4. Taken = handled + 1 /\ handled \in Nat /\ Taken' = Taken
    BY <1>1, TakenIs DEF Taken, PipelineInv, UploadInv
  <1>5. /\ Len(joined) \in Nat
        /\ \A k \in 1 .. Len(joined) :
             FrameOf(joined[k]) \in 1 .. NumFrames /\ FrameOf(joined[k]) <= handled
    BY <1>3 DEF PipelineInv, StoredInv
  <1> DEFINE n == Len(joined)
             e == [frame |-> handled + 1, whole |-> IsWhole(img)]
             R == {Entry(joined[k]) : k \in 1 .. n} \union {e}
  <1>6. Entry(img) = e
    BY <1>3 DEF Entry
  <1>7. Stored' = [k \in 1 .. n + 1 |-> IF k = n + 1 THEN e ELSE Entry(joined[k])]
    <2>1. Stored' = [k \in 1 .. Len(joined') |-> Entry(joined'[k])]
      BY DEF Stored, Entry, FrameOf, FrameOfChunk, IsWhole, FrameChunks, ChunksOf, ChunkAt,
             Frame, Run
    <2>2. \A k \in 1 .. n + 1 : k \in 1 .. n \/ k = n + 1
      BY <1>5
    <2>3. \A k \in 1 .. n + 1 : Entry(joined'[k]) = IF k = n + 1 THEN e ELSE Entry(joined[k])
      BY <1>2, <1>5, <1>6, <2>2
    <2> HIDE DEF e, n
    <2>4. Len(joined') = n + 1
      BY <1>2 DEF n
    <2> QED
      BY <2>1, <2>3, <2>4
  <1>8. Stored' = Append(Stored, e)
    <2>1. Stored \in Seq(R) /\ Len(Stored) = n /\ e \in R
      BY <1>5 DEF Stored
    <2>2. \A k \in 1 .. n : Stored[k] = Entry(joined[k])
      BY DEF Stored
    <2> DEFINE s == Stored'
               t == Append(Stored, e)
    <2>3. n \in Nat
      BY <1>5
    <2>4. \A k \in 1 .. n : Entry(joined[k]) \in R
      OBVIOUS
    <2> HIDE DEF e, n, R, Stored
    <2>5. /\ t \in Seq(R) /\ Len(t) = n + 1 /\ t[n + 1] = e
          /\ \A k \in 1 .. n : t[k] = Stored[k]
      BY <2>1, <2>3
    <2>6. \A k \in 1 .. n + 1 : k # n + 1 => k \in 1 .. n
      BY <2>3
    <2>7. s \in Seq(R) /\ Len(s) = n + 1
      BY <1>7, <2>1, <2>3, <2>4, <2>6
    <2>8. \A k \in 1 .. n + 1 : s[k] = t[k]
      BY <1>7, <2>2, <2>3, <2>5, <2>6
    <2> HIDE DEF s, t
    <2>9. s = t
      BY <2>5, <2>7, <2>8, SeqEqual
    <2> QED
      BY <2>9 DEF s, t
  <1>9. (IF Stored = <<>> THEN 0 ELSE Stored[Len(Stored)].frame) < handled + 1
    <2>1. Stored = <<>> \/ n \in 1 .. n
      BY <1>5 DEF Stored
    <2>2. Len(Stored) = n
      BY <1>5 DEF Stored
    <2>3. n \in 1 .. n => Stored[n].frame = FrameOf(joined[n])
      BY DEF Stored, Entry
    <2> HIDE DEF Stored
    <2> QED
      BY <1>4, <1>5, <2>1, <2>2, <2>3
  <1>10. handled < sent \div FrameLen /\ (sent \div FrameLen)' = sent \div FrameLen
    BY <1>4 DEF Taken
  <1>11. Delivery!Last < handled + 1
    BY <1>9 DEF Delivery!Last, Stored, Entry
  <1>12. [k \in 1 .. Len(joined) |->
             [frame |-> FrameOf(joined[k]), whole |-> IsWhole(joined[k])]]' =
           Append([k \in 1 .. Len(joined) |->
                     [frame |-> FrameOf(joined[k]), whole |-> IsWhole(joined[k])]], e)
    BY <1>8 DEF Stored, Entry
  <1> QED
    BY <1>1, <1>3, <1>10, <1>11, <1>12 DEF Delivery!Store

\* A step that neither takes, stores, misses nor ends anything is none for FrameDelivery.
LEMMA NoStep ==
    ASSUME sent' = sent, handled' = handled, missed' = missed, joined' = joined
    PROVE  UNCHANGED Delivery!vars
  BY DEF Delivery!vars, FrameOf, FrameOfChunk, IsWhole, FrameChunks, ChunksOf, ChunkAt, Frame, Run

\* One that only decides whether the receiver has missed chunks.
LEMMA MissStep ==
    ASSUME PipelineInv, sent' = sent, handled' = handled, joined' = joined,
           missed' = missed \/ missed' = FALSE \/ (missed' = TRUE /\ pc = "publish")
    PROVE  [Delivery!Next]_(Delivery!vars)
  <1>1. CASE missed' = missed
    BY <1>1, NoStep
  <1>2. CASE missed' = FALSE
    <2>1. Delivery!Restart
      BY <1>2 DEF Delivery!Restart, FrameOf, FrameOfChunk, IsWhole, FrameChunks, ChunksOf, ChunkAt,
             Frame, Run
    <2> QED
      BY <2>1 DEF Delivery!Next
  <1>3. CASE missed' = TRUE /\ pc = "publish"
    <2>1. handled < sent \div FrameLen
      <3>1. Taken = handled + 1 /\ handled \in Nat
        BY <1>3, TakenIs DEF PipelineInv, UploadInv
      <3> QED
        BY <3>1 DEF Taken
    <2>2. Delivery!Miss
      BY <1>3, <2>1 DEF Delivery!Miss, FrameOf, FrameOfChunk, IsWhole, FrameChunks, ChunksOf,
             ChunkAt, Frame, Run
    <2> QED
      BY <2>2 DEF Delivery!Next
  <1> QED
    BY <1>1, <1>2, <1>3

\* The steps match one by one: the end of a frame's last line is Take, the chunk that
\* completes an image is Store, one that does not arrive is Miss, the end of an upload is
\* Finish, and a receiver that starts between two uploads is Restart.
LEMMA DeliveryStep ==
    ASSUME TaskPrompt, FramesSpaced, FrameLen <= ImageCap,
           PipelineInv, [PipelineNext]_allVars
    PROVE  [Delivery!Next]_(Delivery!vars)
  <1>1. CASE UNCHANGED allVars
    <2>1. sent' = sent /\ handled' = handled /\ missed' = missed /\ joined' = joined
      BY <1>1 DEF allVars, vars, uploadVars, receiverVars
    <2> QED
      BY <2>1, NoStep
  <1>2. CASE Interrupt \/ Receive
    <2>1. handled' = handled /\ missed' = missed /\ joined' = joined
      BY <1>2, ReceiveStep
    <2>2. CASE sent' = sent
      BY <2>1, <2>2, NoStep
    <2>3. CASE UartIsr
      <3>1. sent \in Nat /\ sent' = sent + 1
        BY <2>3, Types DEF UartIsr, PipelineInv
      <3>2. CASE Taken' = Taken
        BY <2>1, <3>2 DEF Delivery!vars, Taken, FrameOf, FrameOfChunk, IsWhole, FrameChunks,
               ChunksOf, ChunkAt, Frame, Run
      <3>3. CASE Taken' = Taken + 1
        <4>1. Delivery!Take
          BY <2>1, <3>3 DEF Delivery!Take, Taken, FrameOf, FrameOfChunk, IsWhole, FrameChunks,
                 ChunksOf, ChunkAt, Frame, Run
        <4> QED
          BY <4>1 DEF Delivery!Next
      <3> QED
        BY <3>1, <3>2, <3>3, TakenNext DEF Taken
    <2>4. UartIsr \/ sent' = sent
      BY <1>2 DEF Interrupt, Receive, Tick, CheckReady, AppendImage, ZeroBuffer, ResetIdx,
         FreeBuffer, ReadTick, Decide, StartRX, RxState1, RxState2, RxIdx, RxActive, RxZero
    <2> QED
      BY <2>2, <2>3, <2>4
  <1>3. CASE Reconnect \/ EndRetries \/ Commence \/ EndUpload
    <2>1. handled' = IF EndUpload THEN handled + 1 ELSE handled
      BY HandledStep
    <2>2. /\ UNCHANGED <<sent, joined>> /\ pc = "publish"
          /\ missed' = IF EndUpload THEN missed /\ ~ShortFrames ELSE missed
      BY <1>3, <2>1, UploadStep
    <2>3. CASE EndUpload
      <3>1. Taken = handled + 1 /\ handled \in Nat
        BY <2>2, TakenIs DEF PipelineInv, UploadInv
      <3>2. handled < sent \div FrameLen
        BY <3>1 DEF Taken
      <3>3. Delivery!Finish
        BY <2>1, <2>2, <2>3, <3>2 DEF Delivery!Finish, FrameOf, FrameOfChunk, IsWhole,
               FrameChunks, ChunksOf, ChunkAt, Frame, Run
      <3> QED
        BY <3>3 DEF Delivery!Next
    <2>4. CASE ~EndUpload
      BY <2>1, <2>2, <2>4, NoStep
    <2> QED
      BY <2>3, <2>4
  <1>4. CASE PublishChunk
    <2>1. sent' = sent /\ handled' = handled /\ pc = "publish"
      BY <1>4 DEF PublishChunk, UpGoto, vars
    <2>2. \/ joined' = joined /\ missed' \in {missed, TRUE}
          \/ missed' = missed /\ \E img : Stores(img)
      BY <1>4, PublishStep
    <2>3. CASE joined' = joined /\ missed' \in {missed, TRUE}
      BY <2>1, <2>3, MissStep
    <2>4. CASE missed' = missed /\ \E img : Stores(img)
      <3>1. PICK img : Stores(img)
        BY <2>4
      <3>2. Delivery!Store(IsWhole(img)) /\ IsWhole(img) \in BOOLEAN
        BY <1>4, <2>4, <3>1, StoreStep DEF IsWhole
      <3> QED
        BY <3>2 DEF Delivery!Next
    <2> QED
      BY <2>2, <2>3, <2>4
  <1>5. CASE World
    <2>1. /\ UNCHANGED <<sent, handled, joined>>
          /\ missed' = missed \/ missed' = FALSE \/ (missed' = TRUE /\ pc = "publish")
      BY <1>5, WorldStep
    <2> QED
      BY <2>1, MissStep
  <1> QED
    BY <1>1, <1>2, <1>3, <1>4, <1>5 DEF PipelineNext, ModemTask, Upload

\* Nothing was taken, missed or stored when it begins.
LEMMA DeliveryInit == PipelineInit => Delivery!Init
  <1> SUFFICES ASSUME PipelineInit PROVE Delivery!Init
    OBVIOUS
  <1>1. sent = 0 /\ handled = 0 /\ missed = FALSE /\ joined = <<>>
    BY DEF PipelineInit, Init
  <1>2. 0 \div FrameLen = 0
    <2>1. FrameLen \in Nat \ {0} /\ 0 \in 0 .. FrameLen - 1 /\ 0 = FrameLen * 0 /\ 0 = 0 + 0
      BY Lengths
    <2> QED
      BY <2>1, DivOfSum
  <1>3. [k \in 1 .. Len(joined) |->
           [frame |-> FrameOf(joined[k]), whole |-> IsWhole(joined[k])]] = <<>>
    BY <1>1
  <1> QED
    BY <1>1, <1>2, <1>3 DEF Delivery!Init

\* The whole pipeline implements FrameDelivery, for frames of any length, any number of
\* them, and any number of failures of the connection, lost subscriptions and restarts of
\* the receiver: what is stored are images of the frames the camera took, in the order
\* they were taken, at most one of each, and each is whole unless the receiver has missed
\* chunks that may still show.  Needed is what the code counts on: a task that keeps up
\* with the lines, an operator who waits for the modem, an undisturbed reading of the
\* clock, and frames that fit into image_buffer.
THEOREM PipelineDelivers ==
    ASSUME TaskPrompt, FramesSpaced, MaxLag = 0, FrameLen <= ImageCap
    PROVE  PipelineSpec => DeliversFrames
  <1>1. PipelineInv /\ [PipelineNext]_allVars => [Delivery!Next]_(Delivery!vars)
    BY DeliveryStep
  <1> QED
    BY <1>1, DeliveryInit, PipelineAlways, PTL
    DEF PipelineSpec, PipelineSafety, DeliversFrames, Delivery!Safety
=============================================================================
