------------------------- MODULE ImageReceiverProofs -------------------------
(***************************************************************************)
(* Theorems about ImageReceiver: its types, and the safety properties of   *)
(* joining, for every number of frames, chunks, losses and restarts.       *)
(***************************************************************************)
EXTENDS ImageReceiver, FiniteSetTheorems, TLAPS

-----------------------------------------------------------------------------
(* sorted(chunks.items()): the indices by size.                            *)

\* How many members of S are smaller than i.
Rank(S, i) == Cardinality({j \in S : j < i})

\* A larger index has a larger rank.
LEMMA RankGrows ==
    ASSUME NEW S \in SUBSET Nat, IsFiniteSet(S), NEW i \in S, NEW j \in S, i < j
    PROVE  Rank(S, i) \in Nat /\ Rank(S, j) \in Nat /\ Rank(S, i) < Rank(S, j)
  <1> DEFINE T == {x \in S : x < i}
             U == {x \in S : x < j}
  <1>1. T \in SUBSET U /\ U \in SUBSET S /\ i \in U /\ i \notin T
    <2>1. \A x \in S : x \in Nat
      OBVIOUS
    <2>2. ~(i < i) /\ \A x \in S : x < i => x < j
      BY <2>1
    <2> QED
      BY <2>2
  <1> HIDE DEF T, U
  <1>2. IsFiniteSet(U) /\ IsFiniteSet(T)
    BY <1>1, FS_Subset
  <1>3. Cardinality(T) \in Nat /\ Cardinality(U) \in Nat
    BY <1>2, FS_CardinalityType
  <1>4. Cardinality(T) <= Cardinality(U) /\ (Cardinality(U) = Cardinality(T) => U = T)
    BY <1>1, <1>2, FS_Subset
  <1>5. Cardinality(T) < Cardinality(U)
    BY <1>1, <1>3, <1>4
  <1> QED
    BY <1>3, <1>5 DEF Rank, T, U

\* Ranks begin with 0 and end before the number of members.
LEMMA RankBound ==
    ASSUME NEW S \in SUBSET Nat, IsFiniteSet(S), NEW i \in S
    PROVE  Cardinality(S) \in Nat /\ Rank(S, i) \in 0 .. Cardinality(S) - 1
  <1> DEFINE T == {x \in S : x < i}
  <1>1. T \in SUBSET S /\ i \notin T
    OBVIOUS
  <1> HIDE DEF T
  <1>2. IsFiniteSet(T) /\ Cardinality(T) <= Cardinality(S)
        /\ (Cardinality(S) = Cardinality(T) => S = T)
    BY <1>1, FS_Subset
  <1>3. Cardinality(T) \in Nat /\ Cardinality(S) \in Nat
    BY <1>2, FS_CardinalityType
  <1>4. Cardinality(T) < Cardinality(S)
    BY <1>1, <1>2, <1>3
  <1> QED
    BY <1>3, <1>4 DEF Rank, T

\* Every rank up to there is that of some member: otherwise the members would share
\* fewer ranks than there are of them.
LEMMA RankTaken ==
    ASSUME NEW S \in SUBSET Nat, IsFiniteSet(S), NEW r \in 0 .. Cardinality(S) - 1
    PROVE  \E i \in S : Rank(S, i) = r
  <1> DEFINE n == Cardinality(S)
             All == 0 .. n - 1
             T == All \ {r}
  <1>1. n \in Nat
    BY FS_CardinalityType
  <1> SUFFICES ASSUME \A i \in S : Rank(S, i) # r
               PROVE  FALSE
    OBVIOUS
  <1> DEFINE f == [i \in S |-> Rank(S, i)]
  <1>2. f \in [S -> T]
    <2>1. \A i \in S : Rank(S, i) \in All
      BY RankBound
    <2>2. \A i \in S : Rank(S, i) \in T
      BY <2>1
    <2> HIDE DEF T, All
    <2> QED
      BY <2>2
  <1>3. IsFiniteSet(All) /\ Cardinality(All) = n
    <2> HIDE DEF n
    <2>1. /\ IsFiniteSet(0 .. n - 1)
          /\ Cardinality(0 .. n - 1) = IF 0 > n - 1 THEN 0 ELSE (n - 1) - 0 + 1
      BY <1>1, FS_Interval
    <2> QED
      BY <1>1, <2>1
  <1>4. r \in All
    OBVIOUS
  <1>5. IsFiniteSet(T) /\ Cardinality(T) = n - 1
    <2> HIDE DEF All, n
    <2> QED
      BY <1>3, <1>4, FS_RemoveElement
  <1> HIDE DEF n, T, f
  <1>6. \E i, j \in S : i # j /\ f[i] = f[j]
    <2>1. Cardinality(T) < Cardinality(S)
      BY <1>1, <1>5 DEF n
    <2> QED
      BY <1>2, <1>5, <2>1, FS_PigeonHole
  <1>7. PICK i \in S, j \in S : i # j /\ f[i] = f[j]
    BY <1>6
  <1>8. Rank(S, i) = Rank(S, j)
    BY <1>7 DEF f
  <1>9. i \in Nat /\ j \in Nat /\ (i < j \/ j < i)
    BY <1>7
  <1>10. CASE i < j
    BY <1>8, <1>10, RankGrows
  <1>11. CASE j < i
    BY <1>8, <1>11, RankGrows
  <1> QED
    BY <1>9, <1>10, <1>11

\* So the k-th of the indices exists ...
LEMMA NthIs ==
    ASSUME NEW S \in SUBSET Nat, IsFiniteSet(S), NEW k \in 1 .. Cardinality(S)
    PROVE  Nth(S, k) \in S /\ Rank(S, Nth(S, k)) = k - 1
  <1>1. Cardinality(S) \in Nat
    BY FS_CardinalityType
  <1>2. k - 1 \in 0 .. Cardinality(S) - 1
    BY <1>1
  <1>3. \E i \in S : Rank(S, i) = k - 1
    BY <1>2, RankTaken
  <1>4. Nth(S, k) = CHOOSE i \in S : Rank(S, i) = k - 1
    BY DEF Nth, Rank
  <1> QED
    BY <1>3, <1>4

\* ... and comes before the next ones.
LEMMA NthGrows ==
    ASSUME NEW S \in SUBSET Nat, IsFiniteSet(S),
           NEW k \in 1 .. Cardinality(S), NEW m \in 1 .. Cardinality(S), k < m
    PROVE  Nth(S, k) < Nth(S, m)
  <1> DEFINE i == Nth(S, k)
             j == Nth(S, m)
  <1>1. i \in S /\ j \in S /\ Rank(S, i) = k - 1 /\ Rank(S, j) = m - 1
    BY NthIs
  <1>2. Cardinality(S) \in Nat
    BY FS_CardinalityType
  <1> HIDE DEF i, j
  <1>3. i \in Nat /\ j \in Nat /\ k \in Int /\ m \in Int
    BY <1>1, <1>2
  <1>4. i # j
    BY <1>1, <1>3
  <1>5. ~(j < i)
    <2> SUFFICES ASSUME j < i PROVE FALSE
      OBVIOUS
    <2>1. Rank(S, j) < Rank(S, i)
      BY <1>1, RankGrows
    <2> QED
      BY <1>1, <1>3, <2>1
  <1>6. i < j
    BY <1>3, <1>4, <1>5
  <1> QED
    BY <1>6 DEF i, j

\* Of the first n indices the k-th is k - 1.
LEMMA NthOfFirst ==
    ASSUME NEW n \in Nat, NEW k \in 1 .. n
    PROVE  /\ IsFiniteSet(0 .. n - 1) /\ Cardinality(0 .. n - 1) = n
           /\ Nth(0 .. n - 1, k) = k - 1
  <1> DEFINE S == 0 .. n - 1
  <1>1. IsFiniteSet(S) /\ Cardinality(S) = n
    <2>1. /\ IsFiniteSet(0 .. n - 1)
          /\ Cardinality(0 .. n - 1) = IF 0 > n - 1 THEN 0 ELSE (n - 1) - 0 + 1
      BY FS_Interval
    <2> QED
      BY <2>1
  <1>2. ASSUME NEW i \in S
        PROVE  Rank(S, i) = i
    <2> DEFINE T == {j \in S : j < i}
               U == 0 .. i - 1
    <2>1. T = U
      OBVIOUS
    <2>2. Cardinality(U) = IF 0 > i - 1 THEN 0 ELSE (i - 1) - 0 + 1
      BY FS_Interval
    <2>3. Cardinality(U) = i
      BY <2>2
    <2> HIDE DEF T, U
    <2>4. Cardinality(T) = i
      BY <2>1, <2>3
    <2> QED
      BY <2>4 DEF Rank, T
  <1>3. S \in SUBSET Nat
    OBVIOUS
  <1> HIDE DEF S
  <1>4. Nth(S, k) \in S /\ Rank(S, Nth(S, k)) = k - 1
    BY <1>1, <1>3, NthIs
  <1>5. Nth(S, k) = k - 1
    BY <1>2, <1>4
  <1> QED
    BY <1>1, <1>5 DEF S

-----------------------------------------------------------------------------
(* Joining and storing.                                                    *)

\* The joined image holds chunks of the dictionary, by increasing index.
LEMMA JoinIs ==
    ASSUME NEW received, DOMAIN received \in SUBSET Nat, IsFiniteSet(DOMAIN received),
           \A i \in DOMAIN received : received[i].frame \in Nat
    PROVE  /\ Join(received) \in Seq(Nat \X Nat)
           /\ \A k \in 1 .. Len(Join(received)) : \E i \in DOMAIN received :
                  /\ Join(received)[k] = <<received[i].frame, i>>
                  /\ Join(received)[k][2] = i
           /\ \A k, m \in 1 .. Len(Join(received)) :
                  k < m => Join(received)[k][2] < Join(received)[m][2]
  <1> DEFINE S == DOMAIN received
             n == Cardinality(S)
             nth(k) == Nth(S, k)
             joined == [k \in 1 .. n |-> <<received[nth(k)].frame, nth(k)>>]
  <1>1. S \in SUBSET Nat /\ IsFiniteSet(S) /\ n \in Nat
    BY FS_CardinalityType
  <1>2. Join(received) = joined
    BY DEF Join
  <1>3. \A i \in S : received[i].frame \in Nat /\ i \in Nat
    BY <1>1
  <1> HIDE DEF S
  <1>4. \A k \in 1 .. n : nth(k) \in S
    BY <1>1, NthIs
  <1>5. \A k, m \in 1 .. n : k < m => nth(k) < nth(m)
    BY <1>1, NthGrows
  <1> HIDE DEF n, nth
  <1>6. \A k \in 1 .. n : joined[k] = <<received[nth(k)].frame, nth(k)>>
    OBVIOUS
  <1>7. joined \in Seq(Nat \X Nat) /\ Len(joined) = n
    <2>1. \A k \in 1 .. n : <<received[nth(k)].frame, nth(k)>> \in Nat \X Nat
      BY <1>3, <1>4
    <2>2. joined \in [1 .. n -> Nat \X Nat]
      BY <2>1
    <2> HIDE DEF joined
    <2> QED
      BY <1>1, <2>2
  <1> HIDE DEF joined
  <1>8. \A k \in 1 .. n : joined[k][2] = nth(k)
    BY <1>6
  <1>9. \A k \in 1 .. Len(joined) : \E i \in S :
           joined[k] = <<received[i].frame, i>> /\ joined[k][2] = i
    BY <1>4, <1>6, <1>7, <1>8
  <1>10. \A k, m \in 1 .. Len(joined) : k < m => joined[k][2] < joined[m][2]
    BY <1>5, <1>7, <1>8
  <1> QED
    BY <1>2, <1>7, <1>9, <1>10 DEF S

\* The dictionary after a message: the new chunk, and the others as they were.
LEMMA ReceivedIs ==
    ASSUME NEW idx \in Nat, NEW payload
    PROVE  /\ DOMAIN Received(idx, payload) = DOMAIN chunks \union {idx}
           /\ Received(idx, payload)[idx] = payload
           /\ \A i \in DOMAIN chunks : i # idx => Received(idx, payload)[i] = chunks[i]
           /\ IsFiniteSet(DOMAIN chunks) => IsFiniteSet(DOMAIN Received(idx, payload))
  <1>1. DOMAIN Received(idx, payload) = DOMAIN chunks \union {idx}
    BY DEF Received
  <1>2. /\ Received(idx, payload)[idx] = payload
        /\ \A i \in DOMAIN chunks : i # idx => Received(idx, payload)[i] = chunks[i]
    BY DEF Received
  <1>3. IsFiniteSet(DOMAIN chunks) => IsFiniteSet(DOMAIN chunks \union {idx})
    BY FS_AddElement
  <1> QED
    BY <1>1, <1>2, <1>3

\* on_message either keeps the chunk or joins all it has.
LEMMA OnMessageIs ==
    ASSUME NEW idx, NEW payload, OnMessage(idx, payload)
    PROVE  \/ chunks' = Received(idx, payload) /\ images' = images
           \/ images' = Append(images, Join(Received(idx, payload))) /\ chunks' = <<>>
  BY DEF OnMessage, TentarMontarImagem, Empty

\* Nothing is in an empty dictionary.
LEMMA EmptyDomain == DOMAIN (<<>>) = {} /\ IsFiniteSet({})
  BY FS_EmptySet

-----------------------------------------------------------------------------
(* Types.                                                                  *)

\* The dictionary stays finite: every message adds one index.
TypeInv == TypeOK /\ IsFiniteSet(DOMAIN chunks)

\* What the types say of the frame on its way.
LEMMA ShapeType ==
    ASSUME TypeOK
    PROVE  /\ shape.n \in Nat \ {0} /\ shape.short \in BOOLEAN
           /\ frame \in Nat /\ next \in Nat /\ next <= shape.n
           /\ scenario.shapes \subseteq [n : Nat \ {0}, short : BOOLEAN]
           /\ scenario.maxLost \in Nat /\ scenario.maxRestarts \in Nat
           /\ NumFrames \in Nat /\ TotalChunks \in Nat
           /\ Payload \in [frame : Nat, short : BOOLEAN]
  <1>1. /\ scenario \in Scenarios /\ shape \in scenario.shapes
        /\ frame \in 1 .. NumFrames /\ next \in 0 .. shape.n
    BY DEF TypeOK
  <1>2. /\ scenario.shapes \subseteq [n : Nat \ {0}, short : BOOLEAN]
        /\ scenario.maxLost \in Nat /\ scenario.maxRestarts \in Nat
        /\ NumFrames \in Nat /\ TotalChunks \in Nat
    BY <1>1, ConstantsAssumption DEF ConstantsAssumption
  <1>3. shape \in [n : Nat \ {0}, short : BOOLEAN]
    BY <1>1, <1>2
  <1>4. shape.n \in Nat \ {0} /\ shape.short \in BOOLEAN
    BY <1>3
  <1>5. frame \in Nat /\ next \in Nat /\ next <= shape.n
    BY <1>1, <1>2, <1>4
  <1>6. (shape.short /\ next = shape.n - 1) \in BOOLEAN
    OBVIOUS
  <1>7. Payload \in [frame : Nat, short : BOOLEAN]
    BY <1>5, <1>6 DEF Payload
  <1> QED
    BY <1>2, <1>4, <1>5, <1>7

\* Storing an image names only images there are.
LEMMA StoreType ==
    ASSUME NEW n \in Nat, inMongo \union onDisk \subseteq 1 .. n /\ named \subseteq onDisk,
           ProcessarImagem(n + 1)
    PROVE  inMongo' \union onDisk' \subseteq 1 .. n + 1 /\ named' \subseteq onDisk'
  <1>1. 1 .. n \subseteq 1 .. n + 1 /\ n + 1 \in 1 .. n + 1
    OBVIOUS
  <1>2. inMongo' \subseteq inMongo \union {n + 1}
    BY DEF ProcessarImagem
  <1>3. named' \subseteq onDisk' /\ onDisk' \subseteq onDisk \union {n + 1}
    BY DEF ProcessarImagem
  <1> QED
    BY <1>1, <1>2, <1>3

\* What a chunk does that arrives: it is put at its index, and then the receiver goes
\* on collecting or joins what it has.
LEMMA DeliverIs ==
    ASSUME TypeInv, Deliver
    PROVE  LET received == Received(next, Payload)
           IN  /\ DOMAIN received = DOMAIN chunks \union {next}
               /\ DOMAIN received \in SUBSET Nat /\ IsFiniteSet(DOMAIN received)
               /\ received[next].frame = frame
               /\ \A i \in DOMAIN chunks : i # next => received[i] = chunks[i]
               /\ \A i \in DOMAIN received : received[i] \in [frame : Nat, short : BOOLEAN]
               /\ \/ /\ chunks' = received /\ images' = images
                     /\ inMongo' = inMongo /\ onDisk' = onDisk /\ named' = named
                  \/ /\ images' = Append(images, Join(received))
                     /\ ProcessarImagem(Len(images) + 1)
                     /\ chunks' = <<>>
  <1> DEFINE received == Received(next, Payload)
  <1>1. /\ next \in Nat /\ Payload \in [frame : Nat, short : BOOLEAN]
        /\ IsFiniteSet(DOMAIN chunks)
        /\ \A i \in DOMAIN chunks : i \in Nat /\ chunks[i] \in [frame : Nat, short : BOOLEAN]
    BY ShapeType DEF TypeInv, TypeOK
  <1>2. /\ DOMAIN received = DOMAIN chunks \union {next} /\ received[next] = Payload
        /\ \A i \in DOMAIN chunks : i # next => received[i] = chunks[i]
        /\ IsFiniteSet(DOMAIN received)
    <2>1. next \in Nat /\ IsFiniteSet(DOMAIN chunks)
      BY <1>1
    <2> DEFINE content == Payload
    <2> HIDE DEF content
    <2>2. /\ DOMAIN Received(next, content) = DOMAIN chunks \union {next}
          /\ Received(next, content)[next] = content
          /\ \A i \in DOMAIN chunks : i # next => Received(next, content)[i] = chunks[i]
          /\ IsFiniteSet(DOMAIN Received(next, content))
      BY <2>1, ReceivedIs
    <2> QED
      BY <2>2 DEF content
  <1>3. Payload.frame = frame
    BY DEF Payload
  <1>4. OnMessage(next, Payload)
    BY DEF Deliver
  <1>5. \/ /\ chunks' = received /\ images' = images
           /\ inMongo' = inMongo /\ onDisk' = onDisk /\ named' = named
        \/ /\ images' = Append(images, Join(received))
           /\ ProcessarImagem(Len(images) + 1)
           /\ chunks' = <<>>
    <2> DEFINE image == Join(received)
    <2>1. \/ chunks' = received /\ images' = images
          \/ images' = Append(images, image) /\ chunks' = <<>>
      BY <1>4, OnMessageIs
    <2>2. IF images' = images THEN UNCHANGED storeVars ELSE ProcessarImagem(Len(images'))
      BY DEF Deliver
    <2>3. images \in Seq(Seq(Nat \X Nat))
      BY DEF TypeInv, TypeOK
    <2> HIDE DEF received, image
    <2>4. images' = Append(images, image) => Len(images') = Len(images) + 1 /\ images' # images
      <3>1. Len(Append(images, image)) = Len(images) + 1 /\ Len(images) \in Nat
        BY <2>3
      <3> QED
        BY <3>1
    <2>5. CASE chunks' = received /\ images' = images
      BY <2>2, <2>5 DEF storeVars
    <2>6. CASE images' = Append(images, image) /\ chunks' = <<>>
      BY <2>2, <2>4, <2>6 DEF image
    <2> QED
      BY <2>1, <2>5, <2>6
  <1> HIDE DEF received
  <1>6. \A i \in DOMAIN received : i \in Nat /\ received[i] \in [frame : Nat, short : BOOLEAN]
    BY <1>1, <1>2
  <1>7. DOMAIN received \in SUBSET Nat
    BY <1>6
  <1> QED
    BY <1>2, <1>3, <1>5, <1>6, <1>7 DEF received

\* Receiving a chunk keeps the types of what the receiver has.
LEMMA DeliverType ==
    ASSUME TypeInv, Deliver
    PROVE  /\ \A i \in DOMAIN chunks' : i \in Nat /\ chunks'[i] \in [frame : Nat, short : BOOLEAN]
           /\ IsFiniteSet(DOMAIN chunks')
           /\ images' \in Seq(Seq(Nat \X Nat))
           /\ inMongo' \union onDisk' \subseteq 1 .. Len(images') /\ named' \subseteq onDisk'
  <1> DEFINE received == Received(next, Payload)
  <1>1. /\ DOMAIN received \in SUBSET Nat /\ IsFiniteSet(DOMAIN received)
        /\ \A i \in DOMAIN received : received[i] \in [frame : Nat, short : BOOLEAN]
        /\ \/ /\ chunks' = received /\ images' = images
              /\ inMongo' = inMongo /\ onDisk' = onDisk /\ named' = named
           \/ /\ images' = Append(images, Join(received))
              /\ ProcessarImagem(Len(images) + 1)
              /\ chunks' = <<>>
    BY DeliverIs
  <1> HIDE DEF received
  <1>2. images \in Seq(Seq(Nat \X Nat)) /\ inMongo \union onDisk \subseteq 1 .. Len(images) /\ named \subseteq onDisk
    BY DEF TypeInv, TypeOK
  <1>3. CASE /\ chunks' = received /\ images' = images
             /\ inMongo' = inMongo /\ onDisk' = onDisk /\ named' = named
    <2>1. \A i \in DOMAIN received : i \in Nat
      BY <1>1
    <2> QED
      BY <1>1, <1>2, <1>3, <2>1
  <1>4. CASE /\ images' = Append(images, Join(received))
             /\ ProcessarImagem(Len(images) + 1)
             /\ chunks' = <<>>
    <2>1. \A i \in DOMAIN received : received[i].frame \in Nat
      BY <1>1
    <2>2. Join(received) \in Seq(Nat \X Nat)
      BY <1>1, <2>1, JoinIs
    <2>3. /\ images' \in Seq(Seq(Nat \X Nat)) /\ Len(images') = Len(images) + 1
          /\ Len(images) \in Nat
      BY <1>2, <1>4, <2>2
    <2>4. inMongo' \union onDisk' \subseteq 1 .. Len(images) + 1 /\ named' \subseteq onDisk'
      BY <1>2, <1>4, <2>3, StoreType
    <2>5. DOMAIN chunks' = {} /\ IsFiniteSet({})
      BY <1>4, EmptyDomain
    <2> QED
      BY <2>3, <2>4, <2>5
  <1> QED
    BY <1>1, <1>3, <1>4

\* Every step keeps the types.
LEMMA TypeStep == TypeInv /\ [Next]_vars => TypeInv'
  <1> SUFFICES ASSUME TypeInv, [Next]_vars PROVE TypeInv'
    OBVIOUS
  <1>1. /\ scenario \in Scenarios /\ shape \in scenario.shapes /\ frame \in 1 .. NumFrames
        /\ next \in 0 .. shape.n /\ whole \in BOOLEAN
        /\ lost \in 0 .. scenario.maxLost /\ restarts \in 0 .. scenario.maxRestarts
        /\ delivered \subseteq [frame : 1 .. NumFrames, n : Nat]
        /\ shape.n \in Nat \ {0} /\ frame \in Nat /\ next \in Nat
        /\ scenario.shapes \subseteq [n : Nat \ {0}, short : BOOLEAN]
        /\ scenario.maxLost \in Nat /\ scenario.maxRestarts \in Nat /\ NumFrames \in Nat
    BY ShapeType DEF TypeInv, TypeOK
  <1>2. /\ \A i \in DOMAIN chunks : i \in Nat /\ chunks[i] \in [frame : Nat, short : BOOLEAN]
        /\ IsFiniteSet(DOMAIN chunks) /\ images \in Seq(Seq(Nat \X Nat))
        /\ inMongo \union onDisk \subseteq 1 .. Len(images) /\ named \subseteq onDisk
    BY DEF TypeInv, TypeOK
  <1>3. CASE Deliver
    <2>1. /\ scenario' = scenario /\ frame' = frame /\ shape' = shape /\ whole' = whole
          /\ lost' = lost /\ restarts' = restarts
          /\ next' = next + 1 /\ next < shape.n
          /\ delivered' \subseteq delivered \union {[frame |-> frame, n |-> shape.n]}
      BY <1>3 DEF Deliver, MoreToSend
    <2>2. next' \in 0 .. shape'.n
      BY <1>1, <2>1
    <2>3. [frame |-> frame, n |-> shape.n] \in [frame : 1 .. NumFrames, n : Nat]
      BY <1>1
    <2>4. delivered' \subseteq [frame : 1 .. NumFrames, n : Nat]
      BY <1>1, <2>1, <2>3
    <2>5. /\ \A i \in DOMAIN chunks' : i \in Nat /\ chunks'[i] \in [frame : Nat, short : BOOLEAN]
          /\ IsFiniteSet(DOMAIN chunks')
          /\ images' \in Seq(Seq(Nat \X Nat))
          /\ inMongo' \union onDisk' \subseteq 1 .. Len(images') /\ named' \subseteq onDisk'
      BY <1>3, DeliverType
    <2> QED
      BY <1>1, <2>1, <2>2, <2>4, <2>5 DEF TypeInv, TypeOK
  <1>4. CASE Lose
    <2>1. /\ scenario' = scenario /\ frame' = frame /\ shape' = shape /\ whole' = FALSE
          /\ restarts' = restarts /\ delivered' = delivered
          /\ next' = next + 1 /\ next < shape.n /\ lost' = lost + 1 /\ lost < scenario.maxLost
          /\ chunks' = chunks /\ images' = images
          /\ inMongo' = inMongo /\ onDisk' = onDisk /\ named' = named
      BY <1>4 DEF Lose, MoreToSend, storeVars
    <2>2. next' \in 0 .. shape'.n /\ lost' \in 0 .. scenario'.maxLost
      BY <1>1, <2>1
    <2> QED
      BY <1>1, <1>2, <2>1, <2>2 DEF TypeInv, TypeOK
  <1>5. CASE NextFrame
    <2>1. /\ scenario' = scenario /\ frame' = frame + 1 /\ frame < NumFrames
          /\ shape' \in scenario.shapes /\ whole' = TRUE /\ next' = 0
          /\ restarts' = restarts /\ delivered' = delivered /\ lost' = lost
          /\ chunks' = chunks /\ images' = images
          /\ inMongo' = inMongo /\ onDisk' = onDisk /\ named' = named
      BY <1>5 DEF NextFrame, storeVars
    <2>2. shape'.n \in Nat
      BY <1>1, <2>1
    <2>3. next' \in 0 .. shape'.n /\ frame' \in 1 .. NumFrames
      BY <1>1, <2>1, <2>2
    <2> QED
      BY <1>1, <1>2, <2>1, <2>3 DEF TypeInv, TypeOK
  <1>6. CASE Restart
    <2>1. /\ scenario' = scenario /\ frame' = frame /\ shape' = shape
          /\ whole' = (whole /\ next = 0) /\ next' = next
          /\ restarts' = restarts + 1 /\ restarts < scenario.maxRestarts
          /\ delivered' = delivered /\ lost' = lost /\ chunks' = <<>> /\ images' = images
          /\ inMongo' = inMongo /\ onDisk' = onDisk /\ named' = named
      BY <1>6 DEF Restart, storeVars, Empty
    <2>2. restarts' \in 0 .. scenario'.maxRestarts
      BY <1>1, <2>1
    <2>3. whole' \in BOOLEAN
      BY <2>1
    <2>4. DOMAIN chunks' = {} /\ IsFiniteSet({})
      BY <2>1, EmptyDomain
    <2> QED
      BY <1>1, <1>2, <2>1, <2>2, <2>3, <2>4 DEF TypeInv, TypeOK
  <1>7. CASE UNCHANGED vars
    BY <1>7 DEF vars, publisherVars, storeVars, TypeInv, TypeOK
  <1> QED
    BY <1>3, <1>4, <1>5, <1>6, <1>7 DEF Next

\* The types hold at the beginning.
LEMMA TypeInit == Init => TypeInv
  <1> SUFFICES ASSUME Init PROVE TypeInv
    OBVIOUS
  <1>1. /\ scenario \in Scenarios /\ frame = 1 /\ shape \in scenario.shapes /\ next = 0
        /\ whole = TRUE /\ lost = 0 /\ restarts = 0
        /\ chunks = <<>> /\ images = <<>> /\ inMongo = {} /\ onDisk = {} /\ named = {}
        /\ delivered = {}
    BY DEF Init, Empty
  <1>2. /\ scenario.shapes \subseteq [n : Nat \ {0}, short : BOOLEAN]
        /\ scenario.maxLost \in Nat /\ scenario.maxRestarts \in Nat /\ NumFrames \in Nat \ {0}
    BY <1>1, ConstantsAssumption DEF ConstantsAssumption
  <1>3. shape.n \in Nat
    BY <1>1, <1>2
  <1>4. /\ frame \in 1 .. NumFrames /\ next \in 0 .. shape.n
        /\ lost \in 0 .. scenario.maxLost /\ restarts \in 0 .. scenario.maxRestarts
    BY <1>1, <1>2, <1>3
  <1>5. DOMAIN chunks = {} /\ IsFiniteSet({})
    BY <1>1, EmptyDomain
  <1>6. images \in Seq(Seq(Nat \X Nat))
    BY <1>1
  <1> QED
    BY <1>1, <1>4, <1>5, <1>6 DEF TypeInv, TypeOK

\* The variables keep their types; in particular the dictionary is always finite.
THEOREM TypeCorrect == Spec => []TypeOK
  <1>1. TypeInv => TypeOK
    BY DEF TypeInv
  <1> QED
    BY <1>1, TypeInit, TypeStep, PTL DEF Spec

-----------------------------------------------------------------------------
(* No image is lost.                                                       *)

\* What the steps without a message leave alone.
LEMMA OtherSteps ==
    ASSUME [Next]_vars, ~Deliver
    PROVE  /\ images' = images /\ inMongo' = inMongo /\ onDisk' = onDisk /\ named' = named
           /\ scenario' = scenario /\ delivered' = delivered
           /\ chunks' = chunks \/ (Restart /\ chunks' = <<>>)
  BY DEF Next, Lose, NextFrame, Restart, Empty, vars, publisherVars, storeVars

-----------------------------------------------------------------------------
(* No chunk is used twice.                                                 *)

\* Chunk idx of frame f comes before chunk n of frame g.
Earlier(f, idx, g, n) == f < g \/ (f = g /\ idx < n)

\* NoReuse is not inductive: it needs that what the dictionary holds is in no image
\* yet, and that neither holds anything that is still to come.
ReuseInv ==
    /\ NoReuse
    /\ \A k \in 1 .. Len(images) : \A i \in 1 .. Len(images[k]) :
         Earlier(images[k][i][1], images[k][i][2], frame, next)
    /\ \A j \in DOMAIN chunks :
         /\ Earlier(chunks[j].frame, j, frame, next)
         /\ \A k \in 1 .. Len(images) : \A i \in 1 .. Len(images[k]) :
              images[k][i] # <<chunks[j].frame, j>>

\* What was published stays so.
LEMMA EarlierStays ==
    ASSUME TypeInv, [Next]_vars, NEW f \in Nat, NEW i \in Nat, Earlier(f, i, frame, next)
    PROVE  Earlier(f, i, frame', next')
  <1>1. frame \in Nat /\ next \in Nat
    BY ShapeType DEF TypeInv
  <1>2. \/ frame' = frame /\ next' = next
        \/ frame' = frame /\ next' = next + 1
        \/ frame' = frame + 1
    BY DEF Next, Deliver, Lose, NextFrame, Restart, vars, publisherVars
  <1> QED
    BY <1>1, <1>2 DEF Earlier

\* The chunks of the images are pairs of numbers.
LEMMA ImageTypes ==
    ASSUME TypeInv
    PROVE  /\ Len(images) \in Nat
           /\ \A k \in 1 .. Len(images) :
                /\ images[k] \in Seq(Nat \X Nat)
                /\ \A i \in 1 .. Len(images[k]) : images[k][i][1] \in Nat /\ images[k][i][2] \in Nat
  <1>1. images \in Seq(Seq(Nat \X Nat))
    BY DEF TypeInv, TypeOK
  <1>2. Len(images) \in Nat /\ \A k \in 1 .. Len(images) : images[k] \in Seq(Nat \X Nat)
    BY <1>1
  <1>3. ASSUME NEW k \in 1 .. Len(images), NEW i \in 1 .. Len(images[k])
        PROVE  images[k][i][1] \in Nat /\ images[k][i][2] \in Nat
    <2>1. images[k][i] \in Nat \X Nat
      BY <1>2
    <2> QED
      BY <2>1
  <1> QED
    BY <1>2, <1>3

\* Joining what is in no image yet uses no chunk twice.
LEMMA ReuseJoin ==
    ASSUME TypeInv, ReuseInv, NEW image \in Seq(Nat \X Nat), images' = Append(images, image),
           \A i, j \in 1 .. Len(image) : i < j => image[i][2] < image[j][2],
           \A i \in 1 .. Len(image) : \A k \in 1 .. Len(images) : \A j \in 1 .. Len(images[k]) :
               images[k][j] # image[i]
    PROVE  NoReuse'
  <1>1. images \in Seq(Seq(Nat \X Nat)) /\ Len(images) \in Nat
    BY DEF TypeInv, TypeOK
  <1> DEFINE n == Len(images)
  <1>2. /\ Len(images') = n + 1 /\ images'[n + 1] = image
        /\ \A k \in 1 .. n : images'[k] = images[k]
    BY <1>1
  <1>3. \A i \in 1 .. Len(image) : image[i][2] \in Nat
    <2>1. \A i \in 1 .. Len(image) : image[i] \in Nat \X Nat
      OBVIOUS
    <2> QED
      BY <2>1
  <1>4. NoReuse
    BY DEF ReuseInv
  <1> SUFFICES ASSUME NEW k \in 1 .. n + 1, NEW m \in 1 .. n + 1,
                      NEW i \in 1 .. Len(images'[k]), NEW j \in 1 .. Len(images'[m]),
                      images'[k][i] = images'[m][j]
               PROVE  k = m /\ i = j
    BY <1>2 DEF NoReuse
  <1>5. (k \in 1 .. n \/ k = n + 1) /\ (m \in 1 .. n \/ m = n + 1)
    BY <1>1
  <1> HIDE DEF n
  <1>6. CASE k \in 1 .. n /\ m \in 1 .. n
    <2>1. images'[k] = images[k] /\ images'[m] = images[m]
      BY <1>2, <1>6
    <2> QED
      BY <1>4, <1>6, <2>1 DEF NoReuse, n
  <1>7. CASE k \in 1 .. n /\ m = n + 1
    <2>1. images'[k] = images[k] /\ images'[m] = image
      BY <1>2, <1>7
    <2> QED
      BY <1>7, <2>1 DEF n
  <1>8. CASE k = n + 1 /\ m \in 1 .. n
    <2>1. images'[k] = image /\ images'[m] = images[m]
      BY <1>2, <1>8
    <2> QED
      BY <1>8, <2>1 DEF n
  <1>9. CASE k = n + 1 /\ m = n + 1
    <2>1. images'[k] = image /\ images'[m] = image
      BY <1>2, <1>9
    <2>2. i \in 1 .. Len(image) /\ j \in 1 .. Len(image) /\ image[i] = image[j]
      BY <2>1
    <2>3. image[i][2] = image[j][2] /\ image[i][2] \in Nat
      BY <1>3, <2>2
    <2> DEFINE place(x) == image[x][2]
    <2>4. \A x, y \in 1 .. Len(image) : x < y => place(x) < place(y)
      OBVIOUS
    <2>5. place(i) = place(j) /\ place(i) \in Nat /\ Len(image) \in Nat
      BY <2>3
    <2> HIDE DEF place
    <2>6. ~(i < j) /\ ~(j < i)
      <3>1. i < j => place(i) < place(j)
        BY <2>2, <2>4
      <3>2. j < i => place(j) < place(i)
        BY <2>2, <2>4
      <3> QED
        BY <2>5, <3>1, <3>2
    <2>7. i = j
      BY <2>2, <2>5, <2>6
    <2> QED
      BY <1>9, <2>7
  <1> QED
    BY <1>5, <1>6, <1>7, <1>8, <1>9

\* A chunk that arrives is new.
LEMMA ReuseDeliver == TypeInv /\ ReuseInv /\ Deliver => ReuseInv'
  <1> SUFFICES ASSUME TypeInv, ReuseInv, Deliver PROVE ReuseInv'
    OBVIOUS
  <1> DEFINE received == Received(next, Payload)
             image == Join(received)
             n == Len(images)
  <1>1. /\ DOMAIN received = DOMAIN chunks \union {next}
        /\ DOMAIN received \in SUBSET Nat /\ IsFiniteSet(DOMAIN received)
        /\ received[next].frame = frame
        /\ \A i \in DOMAIN chunks : i # next => received[i] = chunks[i]
        /\ \A i \in DOMAIN received : received[i] \in [frame : Nat, short : BOOLEAN]
        /\ \/ chunks' = received /\ images' = images
           \/ images' = Append(images, image) /\ chunks' = <<>>
    BY DeliverIs
  <1> HIDE DEF received
  <1>2. /\ frame \in Nat /\ next \in Nat /\ frame' = frame /\ next' = next + 1
        /\ [Next]_vars
    BY ShapeType DEF TypeInv, Deliver, Next
  <1>3. \A i \in DOMAIN received : i \in Nat /\ received[i].frame \in Nat
    BY <1>1
  <1>4. /\ n \in Nat
        /\ \A k \in 1 .. n : \A i \in 1 .. Len(images[k]) :
             images[k][i][1] \in Nat /\ images[k][i][2] \in Nat
    BY ImageTypes
  <1>5. ASSUME NEW k \in 1 .. n, NEW i \in 1 .. Len(images[k])
        PROVE  /\ Earlier(images[k][i][1], images[k][i][2], frame, next)
               /\ Earlier(images[k][i][1], images[k][i][2], frame', next')
    <2>1. Earlier(images[k][i][1], images[k][i][2], frame, next)
      BY DEF ReuseInv
    <2> QED
      BY <1>2, <1>4, <2>1, EarlierStays
  <1>6. ASSUME NEW j \in DOMAIN received
        PROVE  /\ Earlier(received[j].frame, j, frame', next')
               /\ \A k \in 1 .. n : \A i \in 1 .. Len(images[k]) :
                    images[k][i] # <<received[j].frame, j>>
    <2>1. CASE j = next
      <3>1. received[j].frame = frame
        BY <1>1, <2>1
      <3>2. Earlier(frame, next, frame', next') /\ ~Earlier(frame, next, frame, next)
        BY <1>2 DEF Earlier
      <3>3. ASSUME NEW k \in 1 .. n, NEW i \in 1 .. Len(images[k]),
                   images[k][i] = <<frame, next>>
            PROVE  FALSE
        <4>1. images[k][i][1] = frame /\ images[k][i][2] = next
          BY <3>3
        <4> QED
          BY <1>5, <3>2, <4>1
      <3> QED
        BY <2>1, <3>1, <3>2, <3>3
    <2>2. CASE j # next
      <3>1. j \in DOMAIN chunks /\ received[j] = chunks[j] /\ j \in Nat /\ chunks[j].frame \in Nat
        BY <1>1, <1>3, <2>2
      <3>2. /\ Earlier(chunks[j].frame, j, frame, next)
            /\ \A k \in 1 .. n : \A i \in 1 .. Len(images[k]) :
                 images[k][i] # <<chunks[j].frame, j>>
        BY <3>1 DEF ReuseInv
      <3>3. Earlier(chunks[j].frame, j, frame', next')
        BY <1>2, <3>1, <3>2, EarlierStays
      <3> QED
        BY <3>1, <3>2, <3>3
    <2> QED
      BY <2>1, <2>2
  <1>7. CASE chunks' = received /\ images' = images
    <2>1. NoReuse'
      BY <1>7 DEF ReuseInv, NoReuse
    <2> QED
      BY <1>5, <1>6, <1>7, <2>1 DEF ReuseInv
  <1>8. CASE images' = Append(images, image) /\ chunks' = <<>>
    <2>1. /\ image \in Seq(Nat \X Nat)
          /\ \A k \in 1 .. Len(image) : \E i \in DOMAIN received :
                 image[k] = <<received[i].frame, i>>
          /\ \A k, m \in 1 .. Len(image) : k < m => image[k][2] < image[m][2]
      BY <1>1, <1>3, JoinIs
    <2> HIDE DEF image
    <2>2. \A i \in 1 .. Len(image) : \A k \in 1 .. n : \A j \in 1 .. Len(images[k]) :
            images[k][j] # image[i]
      BY <1>6, <2>1
    <2>3. NoReuse'
      BY <1>8, <2>1, <2>2, ReuseJoin
    <2>4. \A i \in 1 .. Len(image) : Earlier(image[i][1], image[i][2], frame', next')
      <3> SUFFICES ASSUME NEW i \in 1 .. Len(image)
                   PROVE  Earlier(image[i][1], image[i][2], frame', next')
        OBVIOUS
      <3>1. PICK j \in DOMAIN received : image[i] = <<received[j].frame, j>>
        BY <2>1
      <3>2. image[i][1] = received[j].frame /\ image[i][2] = j
        BY <3>1
      <3> QED
        BY <1>6, <3>2
    <2>5. /\ Len(images') = n + 1 /\ images'[n + 1] = image
          /\ \A k \in 1 .. n : images'[k] = images[k]
          /\ \A k \in 1 .. n + 1 : k \in 1 .. n \/ k = n + 1
      <3>1. images \in Seq(Seq(Nat \X Nat))
        BY DEF TypeInv, TypeOK
      <3> QED
        BY <1>4, <1>8, <2>1, <3>1
    <2> HIDE DEF n
    <2>6. \A k \in 1 .. Len(images') : \A i \in 1 .. Len(images'[k]) :
            Earlier(images'[k][i][1], images'[k][i][2], frame', next')
      BY <1>5, <2>4, <2>5
    <2>7. DOMAIN chunks' = {}
      BY <1>8, EmptyDomain
    <2> QED
      BY <2>3, <2>6, <2>7 DEF ReuseInv
  <1> QED
    BY <1>1, <1>7, <1>8

\* The other steps use no chunk.
LEMMA ReuseOther ==
    ASSUME TypeInv, ReuseInv, [Next]_vars, ~Deliver
    PROVE  ReuseInv'
  <1>1. images' = images /\ (chunks' = chunks \/ chunks' = <<>>)
    BY OtherSteps
  <1>2. \A j \in DOMAIN chunks : j \in Nat /\ chunks[j].frame \in Nat
    BY DEF TypeInv, TypeOK
  <1>3. ASSUME NEW k \in 1 .. Len(images), NEW i \in 1 .. Len(images[k])
        PROVE  Earlier(images[k][i][1], images[k][i][2], frame', next')
    <2>1. Earlier(images[k][i][1], images[k][i][2], frame, next)
      BY DEF ReuseInv
    <2>2. images[k][i][1] \in Nat /\ images[k][i][2] \in Nat
      BY ImageTypes
    <2> QED
      BY <2>1, <2>2, EarlierStays
  <1>4. ASSUME NEW j \in DOMAIN chunks
        PROVE  Earlier(chunks[j].frame, j, frame', next')
    <2>1. Earlier(chunks[j].frame, j, frame, next)
      BY DEF ReuseInv
    <2> QED
      BY <1>2, <2>1, EarlierStays
  <1>5. NoReuse'
    BY <1>1 DEF ReuseInv, NoReuse
  <1>6. CASE chunks' = chunks
    BY <1>1, <1>3, <1>4, <1>5, <1>6 DEF ReuseInv
  <1>7. CASE chunks' = <<>>
    <2>1. DOMAIN chunks' = {}
      BY <1>7, EmptyDomain
    <2> QED
      BY <1>1, <1>3, <1>5, <2>1 DEF ReuseInv
  <1> QED
    BY <1>1, <1>6, <1>7

\* No chunk gets into two images, or twice into one, however frames and chunks are lost
\* and the receiver restarts: tentar_montar_imagem empties the dictionary it joins.
THEOREM NoChunkReused == Spec => []NoReuse
  <1>1. Init => ReuseInv
    <2> SUFFICES ASSUME Init PROVE ReuseInv
      OBVIOUS
    <2>1. images = <<>> /\ chunks = <<>>
      BY DEF Init, Empty
    <2>2. Len(images) = 0 /\ DOMAIN chunks = {}
      BY <2>1, EmptyDomain
    <2> QED
      BY <2>2 DEF ReuseInv, NoReuse
  <1>2. TypeInv /\ ReuseInv /\ [Next]_vars => ReuseInv'
    BY ReuseDeliver, ReuseOther
  <1>3. ReuseInv => NoReuse
    BY DEF ReuseInv
  <1> QED
    BY <1>1, <1>2, <1>3, TypeInit, TypeStep, PTL DEF Spec

-----------------------------------------------------------------------------
(* The newest frame stands at the head.                                    *)

\* No chunk of the dictionary is newer than the frame on its way, those below its next
\* index belong to it, and no chunk is newer than one before it.
NewestFirst ==
    \A i \in DOMAIN chunks :
        /\ chunks[i].frame <= frame
        /\ i < next => chunks[i].frame = frame
        /\ \A j \in DOMAIN chunks : i < j => chunks[i].frame >= chunks[j].frame

\* HeadIsNewest is not inductive: it needs the order in the dictionary that is joined.
HeadInv == (lost = 0 /\ restarts = 0) => HeadIsNewest /\ NewestFirst

\* The order of an image is that of the dictionary it is joined from.
LEMMA HeadJoin ==
    ASSUME NEW received, DOMAIN received \in SUBSET Nat, IsFiniteSet(DOMAIN received),
           \A i \in DOMAIN received : received[i].frame \in Nat,
           \A i, j \in DOMAIN received : i < j => received[i].frame >= received[j].frame
    PROVE  \A k, m \in 1 .. Len(Join(received)) :
               k < m => Join(received)[k][1] >= Join(received)[m][1]
  <1> DEFINE image == Join(received)
  <1>1. /\ \A k \in 1 .. Len(image) : \E i \in DOMAIN received :
             image[k] = <<received[i].frame, i>> /\ image[k][2] = i
        /\ \A k, m \in 1 .. Len(image) : k < m => image[k][2] < image[m][2]
    BY JoinIs
  <1> HIDE DEF image
  <1> SUFFICES ASSUME NEW k \in 1 .. Len(image), NEW m \in 1 .. Len(image), k < m
               PROVE  image[k][1] >= image[m][1]
    BY DEF image
  <1>2. PICK i \in DOMAIN received : image[k] = <<received[i].frame, i>> /\ image[k][2] = i
    BY <1>1
  <1>3. PICK j \in DOMAIN received : image[m] = <<received[j].frame, j>> /\ image[m][2] = j
    BY <1>1
  <1>4. i < j
    <2>1. image[k][2] < image[m][2]
      BY <1>1
    <2> QED
      BY <1>2, <1>3, <2>1
  <1>5. image[k][1] = received[i].frame /\ image[m][1] = received[j].frame
    BY <1>2, <1>3
  <1> QED
    BY <1>4, <1>5

\* A chunk that arrives goes before the left-overs and after those of its frame.
LEMMA HeadDeliver ==
    ASSUME TypeInv, HeadIsNewest, NewestFirst, Deliver
    PROVE  HeadIsNewest' /\ NewestFirst'
  <1> DEFINE received == Received(next, Payload)
             image == Join(received)
             n == Len(images)
  <1>1. /\ DOMAIN received = DOMAIN chunks \union {next}
        /\ DOMAIN received \in SUBSET Nat /\ IsFiniteSet(DOMAIN received)
        /\ received[next].frame = frame
        /\ \A i \in DOMAIN chunks : i # next => received[i] = chunks[i]
        /\ \A i \in DOMAIN received : received[i] \in [frame : Nat, short : BOOLEAN]
        /\ \/ chunks' = received /\ images' = images
           \/ images' = Append(images, image) /\ chunks' = <<>>
    BY DeliverIs
  <1> HIDE DEF received
  <1>2. frame \in Nat /\ next \in Nat /\ frame' = frame /\ next' = next + 1
    BY ShapeType DEF TypeInv, Deliver
  <1>3. \A i \in DOMAIN received : i \in Nat /\ received[i].frame \in Nat
    BY <1>1
  <1>4. ASSUME NEW i \in DOMAIN received
        PROVE  /\ received[i].frame <= frame
               /\ i < next + 1 => received[i].frame = frame
               /\ \/ i <= next
                  \/ i > next /\ i \in DOMAIN chunks /\ received[i] = chunks[i]
    <2>1. CASE i = next
      BY <1>1, <1>2, <2>1
    <2>2. CASE i # next
      <3>1. i \in DOMAIN chunks /\ received[i] = chunks[i] /\ i \in Nat
        BY <1>1, <1>3, <2>2
      <3>2. chunks[i].frame <= frame /\ (i < next => chunks[i].frame = frame)
        BY <3>1 DEF NewestFirst
      <3> QED
        BY <1>2, <2>2, <3>1, <3>2
    <2> QED
      BY <2>1, <2>2
  <1>5. ASSUME NEW i \in DOMAIN received, NEW j \in DOMAIN received, i < j
        PROVE  received[i].frame >= received[j].frame
    <2>1. i \in Nat /\ j \in Nat /\ received[i].frame \in Nat /\ received[j].frame \in Nat
      BY <1>3
    <2>2. CASE i <= next
      <3>1. received[i].frame = frame /\ received[j].frame <= frame
        BY <1>2, <1>4, <2>1, <2>2
      <3> QED
        BY <1>2, <2>1, <3>1
    <2>3. CASE ~(i <= next)
      <3>1. j > next
        BY <1>2, <1>5, <2>1, <2>3
      <3>2. /\ i \in DOMAIN chunks /\ received[i] = chunks[i]
            /\ j \in DOMAIN chunks /\ received[j] = chunks[j]
        BY <1>2, <1>4, <2>1, <2>3, <3>1
      <3> QED
        BY <1>5, <3>2 DEF NewestFirst
    <2> QED
      BY <2>2, <2>3
  <1>6. CASE chunks' = received /\ images' = images
    <2>1. HeadIsNewest'
      BY <1>6, <1>2 DEF HeadIsNewest, Deliver
    <2>2. NewestFirst'
      BY <1>2, <1>4, <1>5, <1>6 DEF NewestFirst
    <2> QED
      BY <2>1, <2>2
  <1>7. CASE images' = Append(images, image) /\ chunks' = <<>>
    <2>1. /\ image \in Seq(Nat \X Nat)
          /\ \A k, m \in 1 .. Len(image) : k < m => image[k][1] >= image[m][1]
      BY <1>1, <1>3, <1>5, JoinIs, HeadJoin
    <2> HIDE DEF image
    <2>2. /\ Len(images') = n + 1 /\ images'[n + 1] = image
          /\ \A k \in 1 .. n : images'[k] = images[k]
          /\ \A k \in 1 .. n + 1 : k \in 1 .. n \/ k = n + 1
      <3>1. images \in Seq(Seq(Nat \X Nat)) /\ n \in Nat
        BY ImageTypes DEF TypeInv, TypeOK
      <3> QED
        BY <1>7, <2>1, <3>1
    <2>3. DOMAIN chunks' = {}
      BY <1>7, EmptyDomain
    <2>4. HeadIsNewest'
      BY <2>1, <2>2 DEF HeadIsNewest, Deliver
    <2> QED
      BY <2>3, <2>4 DEF NewestFirst
  <1> QED
    BY <1>1, <1>6, <1>7

\* Losses and restarts are never undone, and the other steps join nothing.
LEMMA HeadStep == TypeInv /\ HeadInv /\ [Next]_vars => HeadInv'
  <1> SUFFICES ASSUME TypeInv, HeadInv, [Next]_vars, lost' = 0, restarts' = 0
               PROVE  HeadIsNewest' /\ NewestFirst'
    BY DEF HeadInv
  <1>1. frame \in Nat /\ next \in Nat /\ lost \in Nat /\ restarts \in Nat
    <2>1. /\ lost \in 0 .. scenario.maxLost /\ restarts \in 0 .. scenario.maxRestarts
          /\ scenario.maxLost \in Nat /\ scenario.maxRestarts \in Nat
          /\ frame \in Nat /\ next \in Nat
      BY ShapeType DEF TypeInv, TypeOK
    <2> QED
      BY <2>1
  <1>2. ~Lose /\ ~Restart
    BY <1>1 DEF Lose, Restart
  <1>3. lost = 0 /\ restarts = 0
    BY <1>2 DEF Next, Deliver, NextFrame, vars, publisherVars
  <1>4. HeadIsNewest /\ NewestFirst
    BY <1>3 DEF HeadInv
  <1>5. CASE Deliver
    BY <1>4, <1>5, HeadDeliver
  <1>6. CASE NextFrame
    <2>1. /\ frame' = frame + 1 /\ next' = 0 /\ chunks' = chunks /\ images' = images
          /\ lost' = lost /\ restarts' = restarts
      BY <1>6 DEF NextFrame
    <2>2. HeadIsNewest'
      BY <1>4, <2>1 DEF HeadIsNewest
    <2>3. ASSUME NEW i \in DOMAIN chunks
          PROVE  chunks[i].frame <= frame + 1 /\ ~(i < 0)
      <3>1. i \in Nat /\ chunks[i].frame \in Nat
        BY DEF TypeInv, TypeOK
      <3>2. chunks[i].frame <= frame
        BY <1>4 DEF NewestFirst
      <3> QED
        BY <1>1, <3>1, <3>2
    <2>4. NewestFirst'
      BY <1>4, <2>1, <2>3 DEF NewestFirst
    <2> QED
      BY <2>2, <2>4
  <1>7. CASE UNCHANGED vars
    <2>1. /\ frame' = frame /\ next' = next /\ chunks' = chunks /\ images' = images
          /\ lost' = lost /\ restarts' = restarts
      BY <1>7 DEF vars, publisherVars
    <2> QED
      BY <1>4, <2>1 DEF HeadIsNewest, NewestFirst
  <1> QED
    BY <1>2, <1>5, <1>6, <1>7 DEF Next

\* As long as nothing is lost an image begins with the newest of its frames and goes on
\* with older ones only, whatever the shapes of the frames: what on_message puts in the
\* dictionary replaces the left-overs from the front.
THEOREM NewestAtHead == Spec => []HeadIsNewest
  <1>1. Init => HeadInv
    <2> SUFFICES ASSUME Init PROVE HeadInv
      OBVIOUS
    <2>1. images = <<>> /\ chunks = <<>>
      BY DEF Init, Empty
    <2>2. Len(images) = 0 /\ DOMAIN chunks = {}
      BY <2>1, EmptyDomain
    <2> QED
      BY <2>2 DEF HeadInv, HeadIsNewest, NewestFirst
  <1>2. HeadInv => HeadIsNewest
    BY DEF HeadInv, HeadIsNewest
  <1> QED
    BY <1>1, <1>2, HeadStep, TypeInit, TypeStep, PTL DEF Spec

-----------------------------------------------------------------------------
(* A frame that arrives complete is joined as it was sent.                 *)

\* While a frame arrives of which nothing was lost, its chunks are all in the
\* dictionary.
Collecting ==
    whole /\ next < shape.n =>
        \A i \in 0 .. next - 1 : i \in DOMAIN chunks /\ chunks[i].frame = frame

\* DeliveredFramesIntact is not inductive: it needs what the dictionary holds of the
\* frame on its way, and that left-overs have no index beyond its last one.
WholeInv ==
    AlikeAndShort =>
        DeliveredFramesIntact /\ DOMAIN chunks \subseteq 0 .. shape.n - 1 /\ Collecting

\* All the chunks of one frame, and nothing else, are joined to that frame.
LEMMA JoinWhole ==
    ASSUME NEW n \in Nat, NEW f, NEW received, DOMAIN received = 0 .. n - 1,
           \A i \in 0 .. n - 1 : received[i].frame = f
    PROVE  Join(received) = FrameChunks(f, n)
  <1> DEFINE S == 0 .. n - 1
  <1>1. /\ Cardinality(S) = n
        /\ \A k \in 1 .. n : Nth(S, k) = k - 1 /\ k - 1 \in S
    <2>1. Cardinality(0 .. n - 1) = IF 0 > n - 1 THEN 0 ELSE (n - 1) - 0 + 1
      BY FS_Interval
    <2> QED
      BY <2>1, NthOfFirst
  <1>2. DOMAIN received = S /\ \A i \in S : received[i].frame = f
    OBVIOUS
  <1> HIDE DEF S
  <1>3. Join(received) = [k \in 1 .. n |-> <<received[Nth(S, k)].frame, Nth(S, k)>>]
    BY <1>1, <1>2 DEF Join
  <1>4. \A k \in 1 .. n : <<received[Nth(S, k)].frame, Nth(S, k)>> = <<f, k - 1>>
    BY <1>1, <1>2
  <1> QED
    BY <1>3, <1>4 DEF FrameChunks

\* The short chunk of a complete frame finds all the others, and no other chunk makes
\* the receiver join.
LEMMA WholeDeliver ==
    ASSUME TypeInv, AlikeAndShort, Collecting, Deliver,
           DOMAIN chunks \subseteq 0 .. shape.n - 1
    PROVE  LET received == Received(next, Payload)
           IN  /\ DOMAIN received \subseteq 0 .. shape.n - 1
               /\ next < shape.n - 1 => chunks' = received /\ images' = images
               /\ whole /\ next = shape.n - 1 =>
                      /\ images' = Append(images, FrameChunks(frame, shape.n))
                      /\ chunks' = <<>>
               /\ whole => \A i \in 0 .. next : i \in DOMAIN received /\ received[i].frame = frame
  <1> DEFINE received == Received(next, Payload)
             N == shape.n
  <1>1. /\ DOMAIN received = DOMAIN chunks \union {next}
        /\ received[next].frame = frame
        /\ \A i \in DOMAIN chunks : i # next => received[i] = chunks[i]
    BY DeliverIs
  <1>2. /\ N \in Nat \ {0} /\ next \in Nat /\ next < N /\ TotalChunks \in Nat
        /\ next <= N - 1
    BY ShapeType DEF TypeInv, Deliver, MoreToSend
  <1>3. shape.short /\ N < TotalChunks
    BY DEF AlikeAndShort, TypeInv, TypeOK
  <1>4. OnMessage(next, Payload)
    BY DEF Deliver
  <1>5. /\ IF AllPresent(received) \/ LastChunk(received, next, Payload)
           THEN TentarMontarImagem(received)
           ELSE chunks' = received /\ images' = images
    BY <1>4 DEF OnMessage
  <1>6. Payload.short <=> next = N - 1
    BY <1>3 DEF Payload
  <1> HIDE DEF received, N
  <1>7. DOMAIN received \subseteq 0 .. N - 1
    <2>1. DOMAIN chunks \subseteq 0 .. N - 1 /\ next \in 0 .. N - 1
      BY <1>2 DEF N
    <2> QED
      BY <1>1, <2>1
  <1>8. ~AllPresent(received)
    <2>1. N \in 0 .. TotalChunks - 1 /\ N \notin 0 .. N - 1
      BY <1>2, <1>3
    <2> QED
      BY <1>7, <2>1 DEF AllPresent, EXPECTED_INDICES
  <1>9. ASSUME next < N - 1
        PROVE  chunks' = received /\ images' = images
    <2>1. ~LastChunk(received, next, Payload)
      BY <1>2, <1>6, <1>9 DEF LastChunk
    <2> QED
      BY <1>5, <1>8, <2>1
  <1>10. ASSUME whole, NEW i \in 0 .. next
         PROVE  i \in DOMAIN received /\ received[i].frame = frame
    <2>1. CASE i = next
      BY <1>1, <2>1
    <2>2. CASE i # next
      <3>1. i \in 0 .. next - 1
        BY <1>2, <2>2
      <3>2. i \in DOMAIN chunks /\ chunks[i].frame = frame
        BY <1>2, <1>10, <3>1 DEF Collecting, N
      <3> QED
        BY <1>1, <2>2, <3>2
    <2> QED
      BY <2>1, <2>2
  <1>11. ASSUME whole, next = N - 1
         PROVE  images' = Append(images, FrameChunks(frame, N)) /\ chunks' = <<>>
    <2>1. 0 .. next \subseteq DOMAIN received
      BY <1>10, <1>11
    <2>2. LastChunk(received, next, Payload)
      BY <1>6, <1>11, <2>1 DEF LastChunk
    <2>3. images' = Append(images, Join(received)) /\ chunks' = <<>>
      BY <1>5, <2>2 DEF TentarMontarImagem, Empty
    <2>4. DOMAIN received = 0 .. N - 1
      BY <1>7, <1>11, <2>1
    <2>5. \A i \in 0 .. N - 1 : received[i].frame = frame
      BY <1>10, <1>11
    <2>6. Join(received) = FrameChunks(frame, N)
      BY <1>2, <2>4, <2>5, JoinWhole
    <2> QED
      BY <2>3, <2>6
  <1> QED
    BY <1>7, <1>9, <1>10, <1>11 DEF received, N

\* A frame counted as delivered was joined as it was sent.
LEMMA WholeDeliverStep ==
    ASSUME TypeInv, AlikeAndShort, DeliveredFramesIntact, Collecting, Deliver,
           DOMAIN chunks \subseteq 0 .. shape.n - 1
    PROVE  /\ DeliveredFramesIntact' /\ Collecting'
           /\ DOMAIN chunks' \subseteq 0 .. shape'.n - 1
  <1> DEFINE received == Received(next, Payload)
             N == shape.n
             n == Len(images)
  <1>1. /\ next < N /\ next' = next + 1 /\ frame' = frame /\ shape' = shape
        /\ whole' = whole /\ scenario' = scenario
        /\ delivered' = IF whole /\ next = N - 1
                        THEN delivered \union {[frame |-> frame, n |-> N]} ELSE delivered
    BY DEF Deliver, MoreToSend
  <1>2. N \in Nat \ {0} /\ next \in Nat /\ n \in Nat
    BY ShapeType, ImageTypes DEF TypeInv
  <1>3. /\ DOMAIN received \subseteq 0 .. N - 1
        /\ next < N - 1 => chunks' = received /\ images' = images
        /\ whole /\ next = N - 1 =>
               images' = Append(images, FrameChunks(frame, N)) /\ chunks' = <<>>
        /\ whole => \A i \in 0 .. next : i \in DOMAIN received /\ received[i].frame = frame
    BY WholeDeliver
  <1>4. \/ chunks' = received /\ images' = images
        \/ \E image : images' = Append(images, image) /\ chunks' = <<>>
    BY DeliverIs
  <1> HIDE DEF received
  <1>5. DOMAIN chunks' \subseteq 0 .. shape'.n - 1
    BY <1>1, <1>3, <1>4, EmptyDomain
  <1>6. Collecting'
    <2> SUFFICES ASSUME whole', next' < shape'.n, NEW i \in 0 .. next' - 1
                 PROVE  i \in DOMAIN chunks' /\ chunks'[i].frame = frame'
      BY DEF Collecting
    <2>1. whole /\ next < N - 1 /\ i \in 0 .. next
      BY <1>1, <1>2
    <2>2. chunks' = received /\ i \in DOMAIN received /\ received[i].frame = frame
      BY <1>3, <2>1
    <2> QED
      BY <1>1, <2>2
  <1>7. n <= Len(images') /\ \A k \in 1 .. n : k \in 1 .. Len(images') /\ images'[k] = images[k]
    <2>1. images \in Seq(Seq(Nat \X Nat))
      BY DEF TypeInv, TypeOK
    <2>2. ASSUME NEW image, images' = Append(images, image)
          PROVE  Len(images') = n + 1 /\ \A k \in 1 .. n : images'[k] = images[k]
      BY <1>2, <2>1, <2>2
    <2>3. Len(images') \in {n, n + 1} /\ \A k \in 1 .. n : images'[k] = images[k]
      BY <1>4, <2>2
    <2> QED
      BY <1>2, <2>3
  <1>8. ASSUME NEW d \in delivered'
        PROVE  \E k \in 1 .. Len(images') : images'[k] = FrameChunks(d.frame, d.n)
    <2>1. CASE d \in delivered
      <3>1. PICK k \in 1 .. n : images[k] = FrameChunks(d.frame, d.n)
        BY <2>1 DEF DeliveredFramesIntact
      <3> QED
        BY <1>7, <3>1
    <2>2. CASE d \notin delivered
      <3>1. whole /\ next = N - 1 /\ d = [frame |-> frame, n |-> N]
        BY <1>1, <1>8, <2>2
      <3>2. images' = Append(images, FrameChunks(frame, N))
        BY <1>3, <3>1
      <3> DEFINE image == FrameChunks(frame, N)
      <3> HIDE DEF image
      <3>3. images' = Append(images, image)
        BY <3>2 DEF image
      <3>4. images \in Seq(Seq(Nat \X Nat))
        BY DEF TypeInv, TypeOK
      <3>5. Len(images') = n + 1 /\ images'[n + 1] = image
        BY <1>2, <3>3, <3>4
      <3>6. n + 1 \in 1 .. Len(images') /\ d.frame = frame /\ d.n = N
        BY <1>2, <3>1, <3>5
      <3> QED
        BY <3>5, <3>6 DEF image
    <2> QED
      BY <2>1, <2>2
  <1>9. DeliveredFramesIntact'
    BY <1>8 DEF DeliveredFramesIntact
  <1> QED
    BY <1>5, <1>6, <1>9

\* Every step keeps the frames that were delivered, and what was collected of the next.
LEMMA WholeStep == TypeInv /\ WholeInv /\ [Next]_vars => WholeInv'
  <1>1. ASSUME [Next]_vars
        PROVE  scenario' = scenario
    BY <1>1 DEF Next, Deliver, Lose, NextFrame, Restart, vars, publisherVars
  <1> SUFFICES ASSUME TypeInv, AlikeAndShort, DeliveredFramesIntact, Collecting, [Next]_vars,
                      DOMAIN chunks \subseteq 0 .. shape.n - 1
               PROVE  /\ DeliveredFramesIntact' /\ Collecting'
                      /\ DOMAIN chunks' \subseteq 0 .. shape'.n - 1
    BY <1>1 DEF WholeInv, AlikeAndShort
  <1>2. CASE Deliver
    BY <1>2, WholeDeliverStep
  <1>3. CASE ~Deliver
    <2>1. /\ images' = images /\ delivered' = delivered
          /\ chunks' = chunks \/ (Restart /\ chunks' = <<>>)
      BY <1>3, OtherSteps
    <2>2. DeliveredFramesIntact'
      BY <1>1, <2>1 DEF DeliveredFramesIntact, AlikeAndShort
    <2>3. shape \in scenario.shapes /\ next \in Nat
      BY ShapeType DEF TypeInv, TypeOK
    <2>4. shape' = shape
      BY <2>3, <1>3 DEF AlikeAndShort, Next, Lose, NextFrame, Restart, vars, publisherVars
    <2>5. DOMAIN chunks' \subseteq 0 .. shape'.n - 1
      BY <2>1, <2>4, EmptyDomain
    <2>6. Collecting'
      <3>1. CASE Lose
        BY <3>1 DEF Lose, Collecting
      <3>2. CASE NextFrame
        BY <3>2 DEF NextFrame, Collecting
      <3>3. CASE Restart
        <4>1. whole' => next' = 0
          BY <3>3 DEF Restart
        <4> QED
          BY <4>1 DEF Collecting
      <3>4. CASE UNCHANGED vars
        BY <3>4 DEF vars, publisherVars, Collecting
      <3> QED
        BY <1>3, <3>1, <3>2, <3>3, <3>4 DEF Next
    <2> QED
      BY <2>2, <2>5, <2>6
  <1> QED
    BY <1>2, <1>3

\* When the frames are alike, end in a short chunk and are shorter than the receiver
\* expects, every frame that arrives complete is joined as it was sent, after any number
\* of damaged frames and restarts.
THEOREM CompleteFramesJoined == Spec => []DeliveredFramesIntact
  <1>1. Init => WholeInv
    <2> SUFFICES ASSUME Init PROVE WholeInv
      OBVIOUS
    <2>1. delivered = {} /\ chunks = <<>> /\ next = 0
      BY DEF Init, Empty
    <2>2. DOMAIN chunks = {}
      BY <2>1, EmptyDomain
    <2> QED
      BY <2>1, <2>2 DEF WholeInv, DeliveredFramesIntact, Collecting
  <1>2. WholeInv => DeliveredFramesIntact
    BY DEF WholeInv, DeliveredFramesIntact
  <1> QED
    BY <1>1, <1>2, WholeStep, TypeInit, TypeStep, PTL DEF Spec
=============================================================================
