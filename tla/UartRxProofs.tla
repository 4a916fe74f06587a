---------------------------- MODULE UartRxProofs ----------------------------
(***************************************************************************)
(* Theorems about UartRx, for every value of its constants: types, bounds, *)
(* the separation of images, in what order the fragments get into the      *)
(* image, and when every published image is exactly one frame.             *)
(*                                                                         *)
(* The last part has assumptions, which name what the code counts on: the  *)
(* task drains a line during the pause after it (TaskPrompt), the operator *)
(* takes a photo only when the modem is idle (FramesSpaced), the task is   *)
(* not delayed between reading the tick and last_rx_time (MaxLag = 0), and *)
(* a frame fits into image_buffer (FrameLen <= ImageCap).                  *)
(***************************************************************************)
EXTENDS UartRx, SequenceTheorems, TLAPS

-----------------------------------------------------------------------------
(* Type correctness.                                                       *)

\* What the handler stores keeps the types of idx and data.
LEMMA StoreType ==
    ASSUME TypeOK, NEW u \in Nat
    PROVE  /\ Store(u).idx \in [Buf -> Nat]
           /\ Store(u).data \in [Buf -> Seq(Nat)]
  <1>1. CASE idx[active] + 1 < ChunkCap
    <2>1. Store(u) = [idx  |-> [idx EXCEPT ![active] = @ + 1],
                      data |-> [data EXCEPT ![active] = Append(@, u)]]
      BY <1>1 DEF Store
    <2>2. [idx EXCEPT ![active] = @ + 1] \in [Buf -> Nat]
      BY DEF TypeOK
    <2>3. [data EXCEPT ![active] = Append(@, u)] \in [Buf -> Seq(Nat)]
      BY DEF TypeOK
    <2> QED
      BY <2>1, <2>2, <2>3
  <1>2. CASE ~(idx[active] + 1 < ChunkCap)
    <2>1. Store(u) = [idx |-> idx, data |-> data]
      BY <1>2 DEF Store
    <2> QED
      BY <2>1 DEF TypeOK
  <1> QED
    BY <1>1, <1>2

\* The clamp of image_len keeps a prefix.
LEMMA PrefixOf ==
    ASSUME NEW S, NEW s \in Seq(S), NEW n \in Nat, n <= Len(s)
    PROVE  /\ SubSeq(s, 1, n) \in Seq(S)
           /\ Len(SubSeq(s, 1, n)) = n
           /\ \A i \in 1 .. n : SubSeq(s, 1, n)[i] = s[i]
  <1>1. \A i \in 1 .. n : s[i] \in S
    OBVIOUS
  <1>2. \A i \in 1 .. n - 1 + 1 : SubSeq(s, 1, n)[i] = s[1 + i - 1]
    BY <1>1, SubSeqProperties
  <1> QED
    BY <1>1, <1>2, SubSeqProperties

\* The empty sequence has the types of data, image and images.
LEMMA EmptyType == /\ <<>> \in Seq(Nat)
                  /\ <<>> \in Seq(Seq(Nat))
  OBVIOUS

\* The types hold when HT_Fsm enters its loop.
LEMMA InitType == Init => TypeOK
  <1> SUFFICES ASSUME Init PROVE TypeOK
    OBVIOUS
  <1>1. /\ idx \in [Buf -> Nat]
        /\ data \in [Buf -> Seq(Nat)]
        /\ bufState \in [Buf -> {"FREE", "RECEIVING", "READY"}]
    BY EmptyType DEF Init
  <1> QED
    BY <1>1, EmptyType DEF Init, TypeOK, Buf, PcStates

\* The handler keeps the types.
LEMMA UartIsrType == TypeOK /\ UartIsr => TypeOK'
  <1> SUFFICES ASSUME TypeOK, UartIsr PROVE TypeOK'
    OBVIOUS
  <1>1. sent + 1 \in Nat /\ sent' = sent + 1
    BY DEF TypeOK, UartIsr
  <1>2. /\ Store(sent + 1).idx \in [Buf -> Nat]
        /\ Store(sent + 1).data \in [Buf -> Seq(Nat)]
    BY <1>1, StoreType
  <1>3. Other(active) \in Buf
    BY DEF TypeOK, Other, Buf
  <1>4. /\ bufState' \in [Buf -> {"FREE", "RECEIVING", "READY"}]
        /\ idx' \in [Buf -> Nat]
        /\ data' \in [Buf -> Seq(Nat)]
        /\ active' \in Buf
    <2>1. CASE ~EndsLine(sent + 1)
      BY <1>2, <2>1 DEF TypeOK, UartIsr
    <2>2. CASE EndsLine(sent + 1) /\ MaySwitch
      <3>1. /\ idx' = [Store(sent + 1).idx EXCEPT ![Other(active)] = 0]
            /\ data' = [Store(sent + 1).data EXCEPT ![Other(active)] = <<>>]
            /\ bufState' = [b \in Buf |-> IF b = active THEN "READY" ELSE "RECEIVING"]
            /\ active' = Other(active)
        BY <2>2 DEF UartIsr
      <3>2. idx' \in [Buf -> Nat]
        BY <3>1, <1>2
      <3>3. data' \in [Buf -> Seq(Nat)]
        BY <3>1, <1>2, EmptyType
      <3> QED
        BY <3>1, <3>2, <3>3, <1>3
    <2>3. CASE EndsLine(sent + 1) /\ ~MaySwitch
      BY <1>2, <2>3 DEF TypeOK, UartIsr
    <2> QED
      BY <2>1, <2>2, <2>3
  <1> QED
    BY <1>1, <1>4 DEF TypeOK, UartIsr, taskVars, imageVars

\* So does every statement of the task.
LEMMA TaskType == TypeOK /\ Task => TypeOK'
  <1> SUFFICES ASSUME TypeOK, Task PROVE TypeOK'
    OBVIOUS
  <1> USE DEF TypeOK, lineVars, taskVars, imageVars, timeVars, Goto, NextBuffer,
              PcStates, PublishStates, Buf
  <1>1. CASE CheckReady
    BY <1>1 DEF CheckReady
  <1>2. CASE AppendImage
    <2>1. data[cur] \in Seq(Nat)
      OBVIOUS
    <2>2. image \o data[cur] \in Seq(Nat)
      BY <2>1
    <2>3. ASSUME Len(image \o data[cur]) > ImageCap
          PROVE  SubSeq(image \o data[cur], 1, ImageCap) \in Seq(Nat)
      <3>1. ImageCap \in Nat
        BY ConstantsAssumption DEF ConstantsAssumption
      <3>2. ImageCap <= Len(image \o data[cur])
        BY <2>2, <2>3, <3>1
      <3> HIDE DEF TypeOK
      <3> QED
        BY <2>2, <3>1, <3>2, PrefixOf
    <2>4. image' \in Seq(Nat) /\ overrun' \in BOOLEAN
      BY <1>2, <2>2, <2>3 DEF AppendImage
    <2> QED
      BY <1>2, <2>4 DEF AppendImage
  <1>3. CASE ZeroBuffer
    BY <1>3, EmptyType DEF ZeroBuffer
  <1>4. CASE ResetIdx
    BY <1>4, EmptyType DEF ResetIdx
  <1>5. CASE FreeBuffer
    BY <1>5 DEF FreeBuffer
  <1>6. CASE ReadTick
    BY <1>6 DEF ReadTick
  <1>7. CASE Decide
    BY <1>7 DEF Decide
  <1>8. CASE Publish
    <2>1. Append(images, image) \in Seq(Seq(Nat))
      OBVIOUS
    <2>2. images' \in Seq(Seq(Nat))
      BY <1>8, <2>1 DEF Publish
    <2> QED
      BY <1>8, <2>2, EmptyType DEF Publish
  <1>9. CASE StartRX
    <2>1. CASE RxState1 \/ RxState2 \/ RxActive
      BY <2>1 DEF RxState1, RxState2, RxActive
    <2>2. ASSUME NEW b \in Buf, NEW from, NEW to \in PcStates, RxIdx(b, from, to)
          PROVE  TypeOK'
      BY <2>2, EmptyType DEF RxIdx
    <2>3. ASSUME NEW b \in Buf, NEW from, NEW to \in PcStates, RxZero(b, from, to)
          PROVE  TypeOK'
      BY <2>3, EmptyType DEF RxZero
    <2> QED
      BY <1>9, <2>1, <2>2, <2>3 DEF StartRX
  <1> QED
    BY <1>1, <1>2, <1>3, <1>4, <1>5, <1>6, <1>7, <1>8, <1>9 DEF Task

\* The tick only counts.
LEMMA TickType == TypeOK /\ Tick => TypeOK'
  BY DEF TypeOK, Tick, lineVars, taskVars, imageVars

\* The variables keep their types in every reachable state.
THEOREM TypeCorrect == Spec => []TypeOK
  <1>1. TypeOK /\ [Next]_vars => TypeOK'
    <2>1. TypeOK /\ UNCHANGED vars => TypeOK'
      BY DEF TypeOK, vars, lineVars, taskVars, imageVars, timeVars
    <2> QED
      BY <2>1, UartIsrType, TaskType, TickType DEF Next
  <1> QED
    BY <1>1, InitType, PTL DEF Spec

-----------------------------------------------------------------------------
(* The handler never runs past the end of a buffer.                        *)

\* What the handler stores stays inside the bounds, and in the other buffer
\* nothing changes.
LEMMA StoreBounds ==
    ASSUME TypeOK, BufferBounds, NEW u \in Nat, NEW b \in Buf
    PROVE  /\ Len(Store(u).data[b]) <= Store(u).idx[b]
           /\ Store(u).idx[b] < ChunkCap
  <1>1. CASE idx[active] + 1 < ChunkCap
    <2>1. /\ Store(u).idx = [idx EXCEPT ![active] = @ + 1]
          /\ Store(u).data = [data EXCEPT ![active] = Append(@, u)]
      BY <1>1 DEF Store
    <2>2. data[active] \in Seq(Nat) /\ idx[active] \in Nat
      BY DEF TypeOK
    <2>3. Len(Append(data[active], u)) = Len(data[active]) + 1
      BY <2>2
    <2> QED
      BY <1>1, <2>1, <2>2, <2>3 DEF TypeOK, BufferBounds
  <1>2. CASE ~(idx[active] + 1 < ChunkCap)
    BY <1>2 DEF Store, BufferBounds
  <1> QED
    BY <1>1, <1>2

\* No step takes bufN_idx past the limit or below what the buffer holds.
LEMMA BoundsStep == TypeOK /\ BufferBounds /\ [Next]_vars => BufferBounds'
  <1> SUFFICES ASSUME TypeOK, BufferBounds, [Next]_vars, NEW b \in Buf
               PROVE  Len(data'[b]) <= idx'[b] /\ idx'[b] < ChunkCap
    BY DEF BufferBounds
  <1>1. ChunkCap \in Nat /\ 0 < ChunkCap
    BY ConstantsAssumption DEF ConstantsAssumption
  <1>2. Len(data[b]) <= idx[b] /\ idx[b] < ChunkCap
    BY DEF BufferBounds
  <1>3. Len(<<>>) = 0
    OBVIOUS
  <1>4. CASE UartIsr
    <2>1. sent + 1 \in Nat
      BY DEF TypeOK
    <2>2. /\ Len(Store(sent + 1).data[b]) <= Store(sent + 1).idx[b]
          /\ Store(sent + 1).idx[b] < ChunkCap
      BY <2>1, StoreBounds
    <2>3. Store(sent + 1).idx \in [Buf -> Nat] /\ Store(sent + 1).data \in [Buf -> Seq(Nat)]
      BY <2>1, StoreType
    <2>4. \/ idx' = Store(sent + 1).idx /\ data' = Store(sent + 1).data
          \/ /\ idx' = [Store(sent + 1).idx EXCEPT ![Other(active)] = 0]
             /\ data' = [Store(sent + 1).data EXCEPT ![Other(active)] = <<>>]
      BY <1>4 DEF UartIsr
    <2>5. CASE idx' = Store(sent + 1).idx /\ data' = Store(sent + 1).data
      BY <2>2, <2>5
    <2>6. CASE /\ idx' = [Store(sent + 1).idx EXCEPT ![Other(active)] = 0]
               /\ data' = [Store(sent + 1).data EXCEPT ![Other(active)] = <<>>]
      <3>1. CASE b = Other(active)
        <4>1. idx'[b] = 0 /\ data'[b] = <<>>
          BY <2>3, <2>6, <3>1
        <4> QED
          BY <1>1, <1>3, <4>1
      <3>2. CASE b # Other(active)
        <4>1. idx'[b] = Store(sent + 1).idx[b] /\ data'[b] = Store(sent + 1).data[b]
          BY <2>3, <2>6, <3>2
        <4> QED
          BY <2>2, <4>1
      <3> QED
        BY <3>1, <3>2
    <2> QED
      BY <2>4, <2>5, <2>6
  <1>5. CASE idx' = idx /\ data' = data
    BY <1>2, <1>5
  <1>6. CASE \E c \in Buf : idx' \in {idx, [idx EXCEPT ![c] = 0]}
                           /\ data' = [data EXCEPT ![c] = <<>>]
    BY <1>1, <1>2, <1>3, <1>6 DEF TypeOK
  <1>7. CASE Tick \/ UNCHANGED vars
    BY <1>5, <1>7 DEF Tick, vars, lineVars
  <1>8. CASE Task
    <2>1. CASE CheckReady \/ AppendImage \/ FreeBuffer \/ ReadTick \/ Decide \/ Publish
      BY <1>5, <2>1 DEF CheckReady, AppendImage, FreeBuffer, ReadTick, Decide,
                        Publish, lineVars
    <2>2. CASE ZeroBuffer \/ ResetIdx
      BY <1>6, <2>2 DEF TypeOK, ZeroBuffer, ResetIdx
    <2>3. CASE RxState1 \/ RxState2 \/ RxActive
      BY <1>5, <2>3 DEF RxState1, RxState2, RxActive
    <2>4. ASSUME NEW c \in Buf, NEW from, NEW to, RxIdx(c, from, to) \/ RxZero(c, from, to)
          PROVE  Len(data'[b]) <= idx'[b] /\ idx'[b] < ChunkCap
      BY <1>6, <2>4 DEF RxIdx, RxZero
    <2> QED
      BY <1>8, <2>1, <2>2, <2>3, <2>4 DEF Task, StartRX, Buf
  <1> QED
    BY <1>4, <1>7, <1>8 DEF Next

\* bufN_idx stays below USART_CHUNK_BUFFER_SIZE however the handler and the
\* task interleave, and it never counts less than the buffer holds.
THEOREM BuffersInBounds == Spec => []BufferBounds
  <1>1. Init => BufferBounds
    <2> SUFFICES ASSUME Init PROVE BufferBounds
      OBVIOUS
    <2>1. ChunkCap \in Nat /\ 0 < ChunkCap /\ Len(<<>>) = 0
      BY ConstantsAssumption DEF ConstantsAssumption
    <2> QED
      BY <2>1 DEF Init, BufferBounds
  <1> QED
    BY <1>1, TypeCorrect, BoundsStep, PTL DEF Spec

-----------------------------------------------------------------------------
(* Images are separated: nothing of a published image is received again.   *)

\* Everything is before nothing.
LEMMA BeforeEmpty == ASSUME NEW s PROVE Before(s, <<>>)
  BY DEF Before

\* What is before two sequences is before their concatenation.
LEMMA BeforeConcat ==
    ASSUME NEW s \in Seq(Nat), NEW t \in Seq(Nat), NEW u \in Seq(Nat),
           Before(s, t), Before(s, u)
    PROVE  Before(s, t \o u)
  <1> SUFFICES ASSUME NEW k \in 1 .. Len(s), NEW m \in 1 .. Len(t \o u)
               PROVE  s[k] < (t \o u)[m]
    BY DEF Before
  <1>1. CASE m <= Len(t)
    BY <1>1 DEF Before
  <1>2. CASE m > Len(t)
    <2>1. m - Len(t) \in 1 .. Len(u) /\ (t \o u)[m] = u[m - Len(t)]
      BY <1>2
    <2> QED
      BY <2>1 DEF Before
  <1> QED
    BY <1>1, <1>2

\* What is before a sequence is before its prefixes (the clamp of image_len).
LEMMA BeforePrefix ==
    ASSUME NEW s \in Seq(Nat), NEW t \in Seq(Nat), Before(s, t),
           NEW n \in Nat, n <= Len(t)
    PROVE  Before(s, SubSeq(t, 1, n))
  <1>1. /\ Len(SubSeq(t, 1, n)) = n
        /\ \A i \in 1 .. n : SubSeq(t, 1, n)[i] = t[i]
    BY PrefixOf
  <1> QED
    BY <1>1 DEF Before

\* No fragment of s has a number above n.
UpTo(s, n) == \A k \in 1 .. Len(s) : s[k] <= n

\* A fragment that arrives now is after everything that was sent before.
LEMMA BeforeNew ==
    ASSUME NEW n \in Nat, NEW s \in Seq(Nat), UpTo(s, n),
           NEW t \in Seq(Nat), Before(s, t)
    PROVE  Before(s, Append(t, n + 1))
  <1> SUFFICES ASSUME NEW k \in 1 .. Len(s), NEW m \in 1 .. Len(t) + 1
               PROVE  s[k] < Append(t, n + 1)[m]
    BY DEF Before
  <1>1. CASE m <= Len(t)
    BY <1>1 DEF Before
  <1>2. CASE m = Len(t) + 1
    BY <1>2 DEF UpTo
  <1> QED
    BY <1>1, <1>2

\* A bound on the fragments of a sequence stays one when more is sent.
LEMMA UpToGrows ==
    ASSUME NEW n \in Nat, NEW s \in Seq(Nat), UpTo(s, n)
    PROVE  UpTo(s, n + 1) /\ UpTo(Append(s, n + 1), n + 1)
  BY DEF UpTo

\* Buffer b has been cleared, or was never in use, since the last image was
\* published: true outside HT_USART_StartRX, and inside it once its memset ran.
Clean(b) == pc \notin PublishStates \ {"publish"} \/ (pc = "rx_zero2" /\ b = 1)

\* ImagesSeparate is not inductive: the next image is taken from the buffers,
\* so these must not hold old fragments either when the task can drain them.
SeparateInv ==
    /\ UpTo(image, sent)
    /\ \A b \in Buf : UpTo(data[b], sent)
    /\ \A i \in 1 .. Len(images) : UpTo(images[i], sent)
    /\ ImagesSeparate
    /\ \A b \in Buf : Clean(b) => \A i \in 1 .. Len(images) : Before(images[i], data[b])

\* What a step does to a buffer: nothing, or empty it, or add the new fragment.
LEMMA DataStep ==
    ASSUME TypeOK, [Next]_vars, NEW b \in Buf
    PROVE  \/ data'[b] = data[b]
           \/ data'[b] = <<>>
           \/ data'[b] = Append(data[b], sent + 1) /\ sent' = sent + 1
  <1>1. CASE UartIsr
    <2>1. sent + 1 \in Nat /\ sent' = sent + 1
      BY <1>1 DEF TypeOK, UartIsr
    <2>2. \/ Store(sent + 1).data[b] = data[b]
          \/ Store(sent + 1).data[b] = Append(data[b], sent + 1)
      BY DEF TypeOK, Store
    <2>3. Store(sent + 1).data \in [Buf -> Seq(Nat)]
      BY <2>1, StoreType
    <2>4. \/ data' = Store(sent + 1).data
          \/ data' = [Store(sent + 1).data EXCEPT ![Other(active)] = <<>>]
      BY <1>1 DEF UartIsr
    <2>5. data'[b] = Store(sent + 1).data[b] \/ data'[b] = <<>>
      BY <2>3, <2>4
    <2> QED
      BY <2>1, <2>2, <2>5
  <1>2. CASE Tick \/ UNCHANGED vars
    BY <1>2 DEF Tick, vars, lineVars
  <1>3. CASE Task
    <2>1. CASE CheckReady \/ AppendImage \/ FreeBuffer \/ ReadTick \/ Decide \/ Publish
      BY <2>1 DEF CheckReady, AppendImage, FreeBuffer, ReadTick, Decide, Publish, lineVars
    <2>2. CASE ZeroBuffer \/ ResetIdx
      BY <2>2 DEF TypeOK, ZeroBuffer, ResetIdx
    <2>3. CASE RxState1 \/ RxState2 \/ RxActive
      BY <2>3 DEF RxState1, RxState2, RxActive
    <2>4. ASSUME NEW c \in Buf, NEW from, NEW to, RxIdx(c, from, to) \/ RxZero(c, from, to)
          PROVE  data'[b] = data[b] \/ data'[b] = <<>>
      BY <2>4 DEF TypeOK, RxIdx, RxZero
    <2> QED
      BY <1>3, <2>1, <2>2, <2>3, <2>4 DEF Task, StartRX, Buf
  <1> QED
    BY <1>1, <1>2, <1>3 DEF Next

\* A buffer that is clean after a step was clean before, or the step emptied it.
LEMMA CleanStep ==
    ASSUME TypeOK, [Next]_vars, NEW b \in Buf, Clean(b)'
    PROVE  Clean(b) \/ data'[b] = <<>>
  <1> USE DEF Clean, PublishStates
  <1>1. CASE UartIsr \/ Tick \/ UNCHANGED vars
    BY <1>1 DEF UartIsr, Tick, vars, taskVars
  <1>2. CASE Task
    <2>1. CASE CheckReady \/ AppendImage \/ ZeroBuffer \/ ResetIdx \/ FreeBuffer
               \/ ReadTick \/ Decide \/ Publish
      BY <2>1 DEF CheckReady, AppendImage, ZeroBuffer, ResetIdx, FreeBuffer,
                  ReadTick, Decide, Publish, Goto
    <2>2. CASE RxState1 \/ RxState2 \/ RxActive
               \/ RxIdx(1, "rx_idx1", "rx_idx2") \/ RxIdx(2, "rx_idx2", "rx_active")
      BY <2>2 DEF RxState1, RxState2, RxActive, RxIdx, Goto
    <2>3. CASE RxZero(1, "rx_zero1", "rx_zero2")
      BY <2>3 DEF TypeOK, RxZero, Goto, Buf
    <2>4. CASE RxZero(2, "rx_zero2", "check")
      BY <2>4 DEF TypeOK, RxZero, Goto, Buf
    <2> QED
      BY <1>2, <2>1, <2>2, <2>3, <2>4 DEF Task, StartRX
  <1> QED
    BY <1>1, <1>2 DEF Next

\* Only the copy and the end of the upload change the images.
LEMMA ImageStep ==
    ASSUME [Next]_vars, ~AppendImage, ~Publish
    PROVE  image' = image /\ images' = images
  <1> USE DEF imageVars
  <1>1. CASE UartIsr \/ Tick \/ UNCHANGED vars
    BY <1>1 DEF UartIsr, Tick, vars
  <1>2. CASE Task
    BY <1>2 DEF Task, CheckReady, ZeroBuffer, ResetIdx, FreeBuffer, ReadTick, Decide,
                StartRX, RxState1, RxState2, RxIdx, RxActive, RxZero
  <1> QED
    BY <1>1, <1>2 DEF Next

\* The camera only sends: no step takes a fragment back.
LEMMA SentStep ==
    ASSUME [Next]_vars
    PROVE  sent' = sent \/ sent' = sent + 1
  <1>1. CASE UartIsr \/ Tick \/ UNCHANGED vars
    BY <1>1 DEF UartIsr, Tick, vars
  <1>2. CASE Task
    BY <1>2 DEF Task, CheckReady, AppendImage, ZeroBuffer, ResetIdx, FreeBuffer, ReadTick,
                Decide, Publish, StartRX, RxState1, RxState2, RxIdx, RxActive, RxZero
  <1> QED
    BY <1>1, <1>2 DEF Next

\* No buffer ever holds a fragment that was not sent.
LEMMA DataUpTo ==
    ASSUME TypeOK, SeparateInv, [Next]_vars, NEW b \in Buf
    PROVE  UpTo(data'[b], sent')
  <1>1. sent \in Nat /\ data[b] \in Seq(Nat) /\ UpTo(data[b], sent)
    BY DEF TypeOK, SeparateInv
  <1>2. UpTo(<<>>, sent')
    BY DEF UpTo
  <1>3. UpTo(data[b], sent + 1) /\ UpTo(Append(data[b], sent + 1), sent + 1)
    BY <1>1, UpToGrows
  <1> QED
    BY <1>1, <1>2, <1>3, DataStep, SentStep

\* While no image is published the clean buffers stay after all of them.
LEMMA DataAfterImages ==
    ASSUME TypeOK, SeparateInv, [Next]_vars, images' = images,
           NEW b \in Buf, Clean(b)', NEW i \in 1 .. Len(images)
    PROVE  Before(images[i], data'[b])
  <1>1. CASE data'[b] = <<>>
    BY <1>1, BeforeEmpty
  <1>2. CASE data'[b] # <<>>
    <2>1. Clean(b)
      BY <1>2, CleanStep
    <2>2. Before(images[i], data[b]) /\ UpTo(images[i], sent)
      BY <2>1 DEF SeparateInv
    <2>3. images[i] \in Seq(Nat) /\ data[b] \in Seq(Nat) /\ sent \in Nat
      BY ElementOfSeq DEF TypeOK
    <2>4. Before(images[i], Append(data[b], sent + 1))
      BY <2>2, <2>3, BeforeNew
    <2> QED
      BY <1>2, <2>2, <2>4, DataStep
  <1> QED
    BY <1>1, <1>2

\* What was sent before a step was sent before the next one too.
LEMMA UpToStep ==
    ASSUME [Next]_vars, NEW s \in Seq(Nat), sent \in Nat, UpTo(s, sent)
    PROVE  UpTo(s, sent')
  BY SentStep, UpToGrows

\* The copy: what it appends is newer than every published image.
LEMMA SeparateAppend == TypeOK /\ SeparateInv /\ AppendImage => SeparateInv'
  <1> SUFFICES ASSUME TypeOK, SeparateInv, AppendImage PROVE SeparateInv'
    OBVIOUS
  <1> DEFINE longer == image \o data[cur]
  <1>1. /\ sent' = sent /\ data' = data /\ images' = images
        /\ \/ image' = image
           \/ image' = longer
           \/ image' = SubSeq(longer, 1, ImageCap) /\ Len(longer) > ImageCap
        /\ pc = "append" /\ pc' = "zero"
    BY DEF AppendImage, lineVars, Goto
  <1>2. /\ image \in Seq(Nat) /\ cur \in Buf /\ data[cur] \in Seq(Nat) /\ longer \in Seq(Nat)
        /\ sent \in Nat /\ ImageCap \in Nat
    BY ConstantsAssumption DEF ConstantsAssumption, TypeOK
  <1>3. UpTo(longer, sent)
    <2>1. UpTo(image, sent) /\ UpTo(data[cur], sent)
      BY <1>2 DEF SeparateInv
    <2> SUFFICES ASSUME NEW k \in 1 .. Len(longer) PROVE longer[k] <= sent
      BY DEF UpTo
    <2>2. CASE k <= Len(image)
      BY <1>2, <2>1, <2>2 DEF UpTo
    <2>3. CASE k > Len(image)
      <3>1. k - Len(image) \in 1 .. Len(data[cur]) /\ longer[k] = data[cur][k - Len(image)]
        BY <1>2, <2>3
      <3> QED
        BY <2>1, <3>1 DEF UpTo
    <2> QED
      BY <1>2, <2>2, <2>3
  <1>4. ASSUME NEW i \in 1 .. Len(images)
        PROVE  Before(images[i], longer) /\ images[i] \in Seq(Nat)
    <2>1. Clean(cur)
      BY <1>1 DEF Clean, PublishStates
    <2>2. Before(images[i], image) /\ Before(images[i], data[cur])
      BY <1>2, <2>1 DEF SeparateInv, ImagesSeparate
    <2>3. images[i] \in Seq(Nat)
      BY ElementOfSeq DEF TypeOK
    <2> QED
      BY <1>2, <2>2, <2>3, BeforeConcat
  <1>5. CASE image' = image
    BY <1>1, <1>5 DEF SeparateInv, ImagesSeparate, Clean, PublishStates
  <1>6. ASSUME UpTo(image', sent), \A i \in 1 .. Len(images) : Before(images[i], image')
        PROVE  SeparateInv'
    BY <1>1, <1>6 DEF SeparateInv, ImagesSeparate, Clean, PublishStates
  <1>7. CASE image' = longer
    BY <1>3, <1>4, <1>6, <1>7
  <1>8. CASE image' = SubSeq(longer, 1, ImageCap) /\ Len(longer) > ImageCap
    <2>1. ImageCap <= Len(longer)
      BY <1>2, <1>8
    <2>2. \A i \in 1 .. Len(images) : Before(images[i], image')
      BY <1>2, <1>4, <1>8, <2>1, BeforePrefix
    <2>3. UpTo(image', sent)
      BY <1>2, <1>3, <1>8, <2>1, PrefixOf DEF UpTo
    <2> QED
      BY <1>6, <2>2, <2>3
  <1> QED
    BY <1>1, <1>5, <1>7, <1>8

\* The end of the upload: the image becomes the last of the published ones.
LEMMA SeparatePublish == TypeOK /\ SeparateInv /\ Publish => SeparateInv'
  <1> SUFFICES ASSUME TypeOK, SeparateInv, Publish PROVE SeparateInv'
    OBVIOUS
  <1>1. /\ sent' = sent /\ data' = data /\ image' = <<>> /\ pc' = "rx_state1"
        /\ images' = images \/ images' = Append(images, image)
    BY DEF Publish, lineVars, Goto
  <1>2. /\ UpTo(<<>>, sent)
        /\ \A b \in Buf : ~Clean(b)'
        /\ \A i \in 1 .. Len(images') : Before(images'[i], <<>>)
    BY <1>1, BeforeEmpty DEF UpTo, Clean, PublishStates
  <1>3. CASE images' = images
    BY <1>1, <1>2, <1>3 DEF SeparateInv, ImagesSeparate
  <1>4. CASE images' = Append(images, image)
    <2>1. images \in Seq(Seq(Nat)) /\ image \in Seq(Nat)
      BY DEF TypeOK
    <2>2. /\ Len(images') = Len(images) + 1
          /\ \A i \in 1 .. Len(images) : images'[i] = images[i]
          /\ images'[Len(images) + 1] = image
      BY <1>4, <2>1
    <2>3. ASSUME NEW i \in 1 .. Len(images')
          PROVE  UpTo(images'[i], sent)
      <3>1. i \in 1 .. Len(images) \/ i = Len(images) + 1
        BY <2>1, <2>2
      <3> QED
        BY <2>2, <3>1 DEF SeparateInv
    <2>4. ASSUME NEW i \in 1 .. Len(images'), NEW j \in 1 .. Len(images'), i < j
          PROVE  Before(images'[i], images'[j])
      <3>1. i \in 1 .. Len(images) /\ Len(images) \in Nat
        BY <2>1, <2>2, <2>4
      <3>2. j \in 1 .. Len(images) \/ j = Len(images) + 1
        BY <2>2, <3>1
      <3> QED
        BY <2>2, <2>4, <3>1, <3>2 DEF SeparateInv, ImagesSeparate
    <2> QED
      BY <1>1, <1>2, <2>3, <2>4 DEF SeparateInv, ImagesSeparate
  <1> QED
    BY <1>1, <1>3, <1>4

\* Every step keeps the separation of the images.
LEMMA SeparateStep == TypeOK /\ SeparateInv /\ [Next]_vars => SeparateInv'
  <1> SUFFICES ASSUME TypeOK, SeparateInv, [Next]_vars PROVE SeparateInv'
    OBVIOUS
  <1>1. CASE ~AppendImage /\ ~Publish
    <2>1. image' = image /\ images' = images
      BY <1>1, ImageStep
    <2>2. /\ sent \in Nat /\ image \in Seq(Nat)
          /\ \A i \in 1 .. Len(images) : images[i] \in Seq(Nat)
      BY ElementOfSeq DEF TypeOK
    <2>3. UpTo(image', sent') /\ \A i \in 1 .. Len(images') : UpTo(images'[i], sent')
      BY <2>1, <2>2, UpToStep DEF SeparateInv
    <2>4. \A b \in Buf : UpTo(data'[b], sent')
      BY DataUpTo
    <2>5. ImagesSeparate'
      BY <2>1 DEF SeparateInv, ImagesSeparate
    <2>6. ASSUME NEW b \in Buf, Clean(b)'
          PROVE  \A i \in 1 .. Len(images') : Before(images'[i], data'[b])
      BY <2>1, <2>6, DataAfterImages
    <2> QED
      BY <2>3, <2>4, <2>5, <2>6 DEF SeparateInv
  <1> QED
    BY <1>1, SeparateAppend, SeparatePublish

\* No published image shares a fragment with another one, or with the image
\* being received, and none is out of order with them, whatever the camera,
\* the handler and the task do to each other.
THEOREM ImagesAreSeparate == Spec => []ImagesSeparate
  <1>1. Init => SeparateInv
    <2> SUFFICES ASSUME Init PROVE SeparateInv
      OBVIOUS
    <2>1. /\ image = <<>> /\ images = <<>> /\ \A b \in Buf : data[b] = <<>>
          /\ Len(images) = 0
      BY DEF Init
    <2> QED
      BY <2>1 DEF SeparateInv, UpTo, ImagesSeparate
  <1>2. SeparateInv => ImagesSeparate
    BY DEF SeparateInv
  <1> QED
    BY <1>1, <1>2, TypeCorrect, SeparateStep, PTL DEF Spec

-----------------------------------------------------------------------------
(* Division with remainder.  The provers need products as named numbers.   *)

\* Quotient and remainder.
LEMMA ModPart ==
    ASSUME NEW L \in Nat \ {0}, NEW a \in Int
    PROVE  /\ a = L * (a \div L) + (a % L)
           /\ a % L \in 0 .. L - 1
           /\ a \div L \in Int
  OBVIOUS

\* They are the only ones.
LEMMA ModIs ==
    ASSUME NEW L \in Nat \ {0}, NEW a \in Int, NEW q \in Int, NEW r \in 0 .. L - 1,
           a = L * q + r
    PROVE  a % L = r
  OBVIOUS

\* The same, with the product named.
LEMMA ModOfSum ==
    \A L \in Nat \ {0} : \A a, q, m \in Int : \A r \in 0 .. L - 1 :
        m = L * q /\ a = m + r => a % L = r
  BY ModIs

\* The remainder counts up, and starts again.
LEMMA ModNext ==
    ASSUME NEW L \in Nat \ {0}, NEW a \in Nat
    PROVE  (a + 1) % L = IF (a % L) + 1 = L THEN 0 ELSE (a % L) + 1
  <1> DEFINE q == a \div L
             r == a % L
             m == L * q
             n == L * (q + 1)
  <1>1. /\ a = m + r /\ n = m + L
        /\ q \in Int /\ r \in 0 .. L - 1 /\ m \in Int /\ n \in Int
    BY ModPart
  <1>2. q + 1 \in Int /\ n = L * (q + 1) /\ m = L * q
    BY ModPart
  <1> HIDE DEF q, r, m, n
  <1>3. CASE r + 1 = L
    <2>1. a + 1 = n + 0 /\ a + 1 \in Int /\ 0 \in 0 .. L - 1
      BY <1>1, <1>3
    <2>2. (a + 1) % L = 0
      BY <2>1, <1>1, <1>2, ModOfSum
    <2> QED
      BY <2>2, <1>1, <1>3 DEF r
  <1>4. CASE r + 1 # L
    <2>1. a + 1 = m + (r + 1) /\ r + 1 \in 0 .. L - 1 /\ a + 1 \in Int
      BY <1>1, <1>4
    <2>2. (a + 1) % L = r + 1
      BY <2>1, <1>1, <1>2, ModOfSum
    <2> QED
      BY <2>2, <1>1, <1>4 DEF r
  <1> QED
    BY <1>3, <1>4

\* Later fragments are in later lines or in the same.
LEMMA LineOfMonotone ==
    ASSUME NEW u \in Nat, NEW v \in Nat, u <= v
    PROVE  /\ LineOf(u) \in Int /\ LineOf(v) \in Int
           /\ LineOf(u) <= LineOf(v)
  <1>1. LineLen \in Nat \ {0}
    BY ConstantsAssumption DEF ConstantsAssumption
  <1> QED
    BY <1>1 DEF LineOf

\* Lines are numbers.
LEMMA LineOfType == \A u \in Nat : LineOf(u) \in Int
  BY LineOfMonotone

\* What comes after the end of a line is in a later line.
LEMMA LineOfNext ==
    ASSUME NEW u \in Nat, NEW v \in Nat, u <= v, EndsLine(v)
    PROVE  LineOf(u) < LineOf(v + 1)
  <1>1. LineLen \in Nat \ {0}
    BY ConstantsAssumption DEF ConstantsAssumption
  <1>2. u - 1 < v /\ u - 1 \in Int /\ v \in Int /\ v % LineLen = 0
    BY DEF EndsLine
  <1>3. (u - 1) \div LineLen < v \div LineLen
    BY <1>1, <1>2
  <1> QED
    BY <1>3 DEF LineOf

-----------------------------------------------------------------------------
(* Lines stay in order, for every timing of task and camera.               *)

\* The fragments of s have increasing numbers.
Increasing(s) == \A k, m \in 1 .. Len(s) : k < m => s[k] < s[m]

\* Of a line that is in both, what is in s comes before what is in t.
LinesBefore(s, t) ==
    \A k \in 1 .. Len(s), m \in 1 .. Len(t) : LineOf(s[k]) = LineOf(t[m]) => s[k] < t[m]

\* Every line of s comes before every line of t.
LinesApart(s, t) ==
    \A k \in 1 .. Len(s), m \in 1 .. Len(t) : LineOf(s[k]) < LineOf(t[m])

\* Every line of s has ended when n fragments have been sent.
Ended(s, n) == \A k \in 1 .. Len(s) : LineOf(s[k]) < LineOf(n + 1)

\* LinesInOrder is not inductive: the next fragments of the image come from the
\* buffers.  A line is in one buffer only, because the handler changes buffers at
\* the end of a line; HT_USART_StartRX changes them in the middle of one, but it
\* clears both afterwards, and takes them for clean one by one.
LineInv ==
    /\ \A b \in Buf : Increasing(data[b])
    /\ pc \in PublishStates \ {"publish"} => image = <<>>
    /\ \A b \in Buf : Clean(b) /\ b # active => Ended(data[b], sent)
    /\ Clean(1) /\ Clean(2) => LinesApart(data[Other(active)], data[active])
    /\ \A b \in Buf : ~(pc = "zero" /\ cur = b) => LinesBefore(image, data[b])
    /\ LinesInOrder

\* The elements of a sequence of numbers are numbers.
LEMMA Elements ==
    ASSUME NEW s \in Seq(Nat), NEW k \in 1 .. Len(s)
    PROVE  s[k] \in Nat
  OBVIOUS

\* A new fragment keeps a buffer in order.
LEMMA IncreasingAppend ==
    ASSUME NEW n \in Nat, NEW s \in Seq(Nat), UpTo(s, n), Increasing(s)
    PROVE  Increasing(Append(s, n + 1))
  <1> SUFFICES ASSUME NEW k \in 1 .. Len(s) + 1, NEW m \in 1 .. Len(s) + 1, k < m
               PROVE  Append(s, n + 1)[k] < Append(s, n + 1)[m]
    BY DEF Increasing
  <1>1. k \in 1 .. Len(s) /\ Append(s, n + 1)[k] = s[k] /\ s[k] <= n /\ s[k] \in Nat
    BY Elements DEF UpTo
  <1>2. CASE m \in 1 .. Len(s)
    BY <1>1, <1>2 DEF Increasing
  <1>3. CASE m = Len(s) + 1
    BY <1>1, <1>3
  <1> QED
    BY <1>2, <1>3

\* Two sequences in order, one after the other, are one in order.
LEMMA IncreasingConcat ==
    ASSUME NEW s \in Seq(Nat), NEW t \in Seq(Nat), Increasing(s), Increasing(t), Before(s, t)
    PROVE  Increasing(s \o t)
  <1> SUFFICES ASSUME NEW k \in 1 .. Len(s \o t), NEW m \in 1 .. Len(s \o t), k < m
               PROVE  (s \o t)[k] < (s \o t)[m]
    BY DEF Increasing
  <1>1. CASE m <= Len(s)
    BY <1>1 DEF Increasing
  <1>2. CASE m > Len(s)
    <2>1. m - Len(s) \in 1 .. Len(t) /\ (s \o t)[m] = t[m - Len(s)]
      BY <1>2
    <2>2. CASE k <= Len(s)
      BY <2>1, <2>2 DEF Before
    <2>3. CASE k > Len(s)
      <3>1. k - Len(s) \in 1 .. Len(t) /\ (s \o t)[k] = t[k - Len(s)]
        BY <2>3
      <3>2. k - Len(s) < m - Len(s)
        OBVIOUS
      <3> QED
        BY <2>1, <3>1, <3>2 DEF Increasing
    <2> QED
      BY <2>2, <2>3
  <1> QED
    BY <1>1, <1>2

\* The lines stay before each other when a new fragment comes in.
LEMMA LinesBeforeAppend ==
    ASSUME NEW n \in Nat, NEW s \in Seq(Nat), UpTo(s, n), NEW t \in Seq(Nat), LinesBefore(s, t)
    PROVE  LinesBefore(s, Append(t, n + 1))
  <1> SUFFICES ASSUME NEW k \in 1 .. Len(s), NEW m \in 1 .. Len(t) + 1,
                      LineOf(s[k]) = LineOf(Append(t, n + 1)[m])
               PROVE  s[k] < Append(t, n + 1)[m]
    <2>1. Len(Append(t, n + 1)) = Len(t) + 1
      OBVIOUS
    <2> QED
      BY <2>1 DEF LinesBefore
  <1>1. CASE m <= Len(t)
    BY <1>1 DEF LinesBefore
  <1>2. CASE m = Len(t) + 1
    BY <1>2, Elements DEF UpTo
  <1> QED
    BY <1>1, <1>2

\* What has ended before n + 1 stays apart from a buffer that gets n + 1.
LEMMA LinesApartAppend ==
    ASSUME NEW n \in Nat, NEW s \in Seq(Nat), Ended(s, n), NEW t \in Seq(Nat), LinesApart(s, t)
    PROVE  LinesApart(s, Append(t, n + 1))
  <1> SUFFICES ASSUME NEW k \in 1 .. Len(s), NEW m \in 1 .. Len(t) + 1
               PROVE  LineOf(s[k]) < LineOf(Append(t, n + 1)[m])
    BY DEF LinesApart
  <1>1. CASE m <= Len(t)
    BY <1>1 DEF LinesApart
  <1>2. CASE m = Len(t) + 1
    BY <1>2 DEF Ended
  <1> QED
    BY <1>1, <1>2

\* A line that has ended stays ended.
LEMMA EndedGrows ==
    ASSUME NEW n \in Nat, NEW s \in Seq(Nat), Ended(s, n)
    PROVE  Ended(s, n + 1)
  <1> SUFFICES ASSUME NEW k \in 1 .. Len(s) PROVE LineOf(s[k]) < LineOf(n + 2)
    BY DEF Ended
  <1>1. LineOf(s[k]) < LineOf(n + 1)
    BY DEF Ended
  <1>2. LineOf(n + 1) <= LineOf(n + 2) /\ LineOf(n + 1) \in Int /\ LineOf(n + 2) \in Int
    BY LineOfMonotone
  <1>3. LineOf(s[k]) \in Int
    BY Elements, LineOfMonotone
  <1> QED
    BY <1>1, <1>2, <1>3

\* All that was sent has ended when a line ends.
LEMMA EndedAtEnd ==
    ASSUME NEW n \in Nat, NEW s \in Seq(Nat), UpTo(s, n), EndsLine(n)
    PROVE  Ended(s, n)
  BY Elements, LineOfNext DEF UpTo, Ended

\* A prefix of an image whose lines are in order.
LEMMA LinesOfConcat ==
    ASSUME NEW s \in Seq(Nat), NEW t \in Seq(Nat), NEW u \in Seq(Nat),
           LinesBefore(s, u), LinesApart(t, u) \/ LinesApart(u, t)
    PROVE  LinesBefore(s \o t, u)
  <1> SUFFICES ASSUME NEW k \in 1 .. Len(s \o t), NEW m \in 1 .. Len(u),
                      LineOf((s \o t)[k]) = LineOf(u[m])
               PROVE  (s \o t)[k] < u[m]
    BY DEF LinesBefore
  <1>1. CASE k <= Len(s)
    BY <1>1 DEF LinesBefore
  <1>2. CASE k > Len(s)
    <2>1. k - Len(s) \in 1 .. Len(t) /\ (s \o t)[k] = t[k - Len(s)]
      BY <1>2
    <2>2. t[k - Len(s)] \in Nat /\ u[m] \in Nat
      BY <2>1, Elements
    <2>3. LineOf(t[k - Len(s)]) \in Int /\ LineOf(u[m]) \in Int
      BY <2>2, LineOfType
    <2>4. LineOf(t[k - Len(s)]) < LineOf(u[m]) \/ LineOf(u[m]) < LineOf(t[k - Len(s)])
      BY <2>1 DEF LinesApart
    <2> QED
      BY <2>1, <2>3, <2>4
  <1> QED
    BY <1>1, <1>2

\* A prefix of a sequence keeps the order of what is in it.
LEMMA PrefixOrder ==
    ASSUME NEW s \in Seq(Nat), NEW n \in Nat, n <= Len(s)
    PROVE  /\ Increasing(s) => Increasing(SubSeq(s, 1, n))
           /\ \A t : LinesBefore(s, t) => LinesBefore(SubSeq(s, 1, n), t)
           /\ \A t : Before(s, t) => Before(SubSeq(s, 1, n), t)
  <1>1. /\ Len(SubSeq(s, 1, n)) = n
        /\ \A i \in 1 .. n : SubSeq(s, 1, n)[i] = s[i]
        /\ 1 .. n \subseteq 1 .. Len(s)
    BY PrefixOf
  <1> QED
    BY <1>1 DEF Increasing, LinesBefore, Before

\* Of a line, what is in the image comes in order.
InLineOrder(s) ==
    \A k, m \in 1 .. Len(s) : (k < m /\ LineOf(s[k]) = LineOf(s[m])) => s[k] < s[m]

\* Concatenation, and its prefixes, keep the order of the lines.
LEMMA InLineOrderConcat ==
    ASSUME NEW s \in Seq(Nat), NEW t \in Seq(Nat),
           InLineOrder(s), Increasing(t), LinesBefore(s, t)
    PROVE  InLineOrder(s \o t)
  <1> SUFFICES ASSUME NEW k \in 1 .. Len(s \o t), NEW m \in 1 .. Len(s \o t), k < m,
                      LineOf((s \o t)[k]) = LineOf((s \o t)[m])
               PROVE  (s \o t)[k] < (s \o t)[m]
    BY DEF InLineOrder
  <1>1. CASE m <= Len(s)
    BY <1>1 DEF InLineOrder
  <1>2. CASE m > Len(s)
    <2>1. m - Len(s) \in 1 .. Len(t) /\ (s \o t)[m] = t[m - Len(s)]
      BY <1>2
    <2>2. CASE k <= Len(s)
      BY <2>1, <2>2 DEF LinesBefore
    <2>3. CASE k > Len(s)
      <3>1. k - Len(s) \in 1 .. Len(t) /\ (s \o t)[k] = t[k - Len(s)]
        BY <2>3
      <3>2. k - Len(s) < m - Len(s)
        OBVIOUS
      <3> QED
        BY <2>1, <3>1, <3>2 DEF Increasing
    <2> QED
      BY <2>2, <2>3
  <1> QED
    BY <1>1, <1>2

\* ... and so does a prefix.
LEMMA InLineOrderPrefix ==
    ASSUME NEW s \in Seq(Nat), InLineOrder(s), NEW n \in Nat, n <= Len(s)
    PROVE  InLineOrder(SubSeq(s, 1, n))
  <1>1. /\ Len(SubSeq(s, 1, n)) = n
        /\ \A i \in 1 .. n : SubSeq(s, 1, n)[i] = s[i]
        /\ 1 .. n \subseteq 1 .. Len(s)
    BY PrefixOf
  <1> QED
    BY <1>1 DEF InLineOrder

\* Nothing is in order with anything.
LEMMA EmptyOrder ==
    /\ Increasing(<<>>) /\ \A n : Ended(<<>>, n)
    /\ \A s : LinesBefore(<<>>, s) /\ LinesBefore(s, <<>>)
    /\ \A s : LinesApart(<<>>, s) /\ LinesApart(s, <<>>)
    /\ \A s : Before(<<>>, s) /\ Before(s, <<>>)
  BY DEF Increasing, Ended, LinesBefore, LinesApart, Before

\* The types of what the steps below move around.
LEMMA Types ==
    ASSUME TypeOK
    PROVE  /\ sent \in Nat /\ active \in Buf /\ Other(active) \in Buf /\ cur \in Buf
           /\ \A b \in Buf : data[b] \in Seq(Nat) /\ idx[b] \in Nat
           /\ image \in Seq(Nat) /\ Other(active) # active
           /\ \A b \in Buf : b # active => b = Other(active)
           /\ Buf = {1, 2} /\ ImageCap \in Nat
  BY ConstantsAssumption DEF ConstantsAssumption, TypeOK, Buf, Other

\* What the handler does to the buffers: it adds the new fragment to the active
\* one or drops it, and at the end of a line it may turn to the other one, emptied.
LEMMA IsrData ==
    ASSUME TypeOK, UartIsr
    PROVE  /\ sent' = sent + 1 /\ image' = image /\ images' = images
           /\ pc' = pc /\ cur' = cur /\ overrun' = overrun
           /\ \/ data'[active] = data[active]
              \/ data'[active] = Append(data[active], sent + 1)
           /\ \/ active' = active /\ data'[Other(active)] = data[Other(active)]
              \/ /\ active' = Other(active) /\ data'[Other(active)] = <<>>
                 /\ EndsLine(sent + 1) /\ MaySwitch
  <1>1. sent + 1 \in Nat
    BY DEF TypeOK
  <1>2. /\ active \in Buf /\ Other(active) \in Buf /\ Other(active) # active
        /\ Store(sent + 1).data \in [Buf -> Seq(Nat)]
    BY <1>1, StoreType, Types
  <1>3. /\ \/ Store(sent + 1).data[active] = data[active]
           \/ Store(sent + 1).data[active] = Append(data[active], sent + 1)
        /\ Store(sent + 1).data[Other(active)] = data[Other(active)]
    BY <1>2 DEF TypeOK, Store
  <1>4. \/ data' = Store(sent + 1).data /\ active' = active
        \/ /\ data' = [Store(sent + 1).data EXCEPT ![Other(active)] = <<>>]
           /\ active' = Other(active) /\ EndsLine(sent + 1) /\ MaySwitch
    BY DEF UartIsr
  <1>5. /\ sent' = sent + 1 /\ image' = image /\ images' = images
        /\ pc' = pc /\ cur' = cur /\ overrun' = overrun
    BY DEF UartIsr, taskVars, imageVars
  <1>6. CASE data' = Store(sent + 1).data /\ active' = active
    BY <1>3, <1>5, <1>6
  <1>7. CASE /\ data' = [Store(sent + 1).data EXCEPT ![Other(active)] = <<>>]
             /\ active' = Other(active) /\ EndsLine(sent + 1) /\ MaySwitch
    <2>1. data'[Other(active)] = <<>> /\ data'[active] = Store(sent + 1).data[active]
      BY <1>2, <1>7
    <2> QED
      BY <1>3, <1>5, <1>7, <2>1
  <1> QED
    BY <1>4, <1>6, <1>7

\* The handler keeps the lines in order.
LEMMA LineIsr == TypeOK /\ SeparateInv /\ LineInv /\ UartIsr => LineInv'
  <1> SUFFICES ASSUME TypeOK, SeparateInv, LineInv, UartIsr PROVE LineInv'
    OBVIOUS
  <1> DEFINE o == Other(active)
  <1>1. /\ sent \in Nat /\ active \in Buf /\ o \in Buf /\ o # active
        /\ \A b \in Buf : data[b] \in Seq(Nat)
        /\ \A b \in Buf : b # active => b = o
        /\ image \in Seq(Nat) /\ Buf = {1, 2}
    BY Types
  <1>2. /\ sent' = sent + 1 /\ image' = image /\ pc' = pc /\ cur' = cur
        /\ \/ data'[active] = data[active]
           \/ data'[active] = Append(data[active], sent + 1)
        /\ \/ active' = active /\ data'[o] = data[o]
           \/ active' = o /\ data'[o] = <<>> /\ EndsLine(sent + 1)
    BY IsrData
  <1>3. UpTo(image, sent) /\ \A b \in Buf : UpTo(data[b], sent)
    BY DEF SeparateInv
  <1>4. Other(active') # active' /\ (active' = o => Other(active') = active)
        /\ (active' = active => Other(active') = o)
    BY <1>1, <1>2 DEF Other
  <1> HIDE DEF o
  <1>5. \A b \in Buf : Increasing(data'[b])
    <2>1. Increasing(Append(data[active], sent + 1))
      BY <1>1, <1>3, IncreasingAppend DEF LineInv
    <2> QED
      BY <1>1, <1>2, <2>1, EmptyOrder DEF LineInv
  <1>6. ASSUME NEW b \in Buf, Clean(b)', b # active'
        PROVE  Ended(data'[b], sent')
    <2>1. CASE active' = active /\ data'[o] = data[o]
      <3>1. b = o /\ Clean(b)
        BY <1>1, <1>2, <1>6, <2>1 DEF Clean
      <3>2. Ended(data[b], sent)
        BY <1>1, <1>6, <2>1, <3>1 DEF LineInv
      <3> QED
        BY <1>1, <1>2, <2>1, <3>1, <3>2, EndedGrows
    <2>2. CASE active' = o /\ data'[o] = <<>> /\ EndsLine(sent + 1)
      <3>1. b = active
        BY <1>1, <1>6, <2>2
      <3>2. UpTo(data[b], sent + 1) /\ UpTo(Append(data[b], sent + 1), sent + 1)
        BY <1>1, <1>3, UpToGrows
      <3>3. Append(data[b], sent + 1) \in Seq(Nat) /\ data[b] \in Seq(Nat) /\ sent + 1 \in Nat
        BY <1>1
      <3>4. Ended(data[b], sent + 1) /\ Ended(Append(data[b], sent + 1), sent + 1)
        BY <2>2, <3>2, <3>3, EndedAtEnd
      <3> QED
        BY <1>2, <3>1, <3>4
    <2> QED
      BY <1>2, <2>1, <2>2
  <1>7. ASSUME Clean(1)', Clean(2)'
        PROVE  LinesApart(data'[Other(active')], data'[active'])
    <2>1. CASE active' = active /\ data'[o] = data[o]
      <3>1. Clean(1) /\ Clean(2)
        BY <1>2, <1>7 DEF Clean
      <3>2. LinesApart(data[o], data[active]) /\ Ended(data[o], sent)
        BY <1>1, <3>1 DEF LineInv, o
      <3>3. LinesApart(data[o], Append(data[active], sent + 1))
        BY <1>1, <3>2, LinesApartAppend
      <3> QED
        BY <1>2, <1>4, <2>1, <3>2, <3>3
    <2>2. CASE active' = o /\ data'[o] = <<>> /\ EndsLine(sent + 1)
      BY <2>2, EmptyOrder
    <2> QED
      BY <1>2, <2>1, <2>2
  <1>8. ASSUME NEW b \in Buf, ~(pc' = "zero" /\ cur' = b)
        PROVE  LinesBefore(image', data'[b])
    <2>1. LinesBefore(image, data[b])
      BY <1>2, <1>8 DEF LineInv
    <2>2. LinesBefore(image, Append(data[b], sent + 1))
      BY <1>1, <1>3, <2>1, LinesBeforeAppend
    <2> QED
      BY <1>1, <1>2, <2>1, <2>2, EmptyOrder
  <1> QED
    BY <1>2, <1>5, <1>6, <1>7, <1>8 DEF LineInv, LinesInOrder

\* The steps of the task that touch neither the buffers' contents nor the image,
\* and do not lead into or out of HT_USART_StartRX.
Aside == CheckReady \/ FreeBuffer \/ ReadTick \/ Decide

\* They leave everything but the states of the buffers and the task's place.
LEMMA AsideStep ==
    ASSUME Aside
    PROVE  /\ UNCHANGED <<sent, idx, data, active, image, overrun, images>>
           /\ pc \in {"check", "free", "timer", "decide"}
           /\ pc' \in {"check", "append", "timer", "decide", "publish"}
  BY DEF Aside, CheckReady, FreeBuffer, ReadTick, Decide, NextBuffer, Goto,
         lineVars, imageVars

\* The task keeps the lines in order, too: the copy ...
LEMMA LineAppend == TypeOK /\ LineInv /\ AppendImage => LineInv'
  <1> SUFFICES ASSUME TypeOK, LineInv, AppendImage PROVE LineInv'
    OBVIOUS
  <1> DEFINE longer == image \o data[cur]
  <1>1. /\ sent' = sent /\ data' = data /\ active' = active /\ cur' = cur
        /\ \/ image' = image
           \/ image' = longer
           \/ image' = SubSeq(longer, 1, ImageCap) /\ Len(longer) > ImageCap
        /\ pc = "append" /\ pc' = "zero"
    BY DEF AppendImage, lineVars, Goto
  <1>2. /\ image \in Seq(Nat) /\ cur \in Buf /\ longer \in Seq(Nat)
        /\ \A b \in Buf : data[b] \in Seq(Nat)
        /\ active \in Buf /\ Other(active) \in Buf /\ ImageCap \in Nat
        /\ \A b \in Buf : b # active => b = Other(active)
    BY Types
  <1>3. \A b \in Buf : Clean(b) /\ Clean(b)'
    BY <1>1 DEF Clean, PublishStates
  <1>4. InLineOrder(image) /\ InLineOrder(longer)
    <2>1. InLineOrder(image) /\ Increasing(data[cur]) /\ LinesBefore(image, data[cur])
      BY <1>1, <1>2 DEF LineInv, LinesInOrder, InLineOrder
    <2> QED
      BY <1>2, <2>1, InLineOrderConcat
  <1>5. ASSUME NEW b \in Buf, b # cur
        PROVE  LinesBefore(image, data[b]) /\ LinesBefore(longer, data[b])
    <2>1. LinesBefore(image, data[b])
      BY <1>1, <1>5 DEF LineInv
    <2>2. LinesApart(data[Other(active)], data[active])
      BY <1>3, Types DEF LineInv
    <2>3. LinesApart(data[cur], data[b]) \/ LinesApart(data[b], data[cur])
      BY <1>2, <1>5, <2>2
    <2> QED
      BY <1>2, <2>1, <2>3, LinesOfConcat
  <1>6. ASSUME Len(longer) > ImageCap
        PROVE  /\ InLineOrder(SubSeq(longer, 1, ImageCap))
               /\ \A b \in Buf : b # cur => LinesBefore(SubSeq(longer, 1, ImageCap), data[b])
    <2>1. ImageCap <= Len(longer)
      BY <1>2, <1>6
    <2> HIDE DEF longer
    <2> QED
      BY <1>2, <1>4, <1>5, <2>1, PrefixOrder, InLineOrderPrefix
  <1>7. InLineOrder(image') /\ \A b \in Buf : b # cur => LinesBefore(image', data[b])
    BY <1>1, <1>4, <1>5, <1>6
  <1> HIDE DEF longer
  <1>8. LinesInOrder'
    BY <1>7 DEF LinesInOrder, InLineOrder
  <1>9. \A b \in Buf : ~(pc' = "zero" /\ cur' = b) => LinesBefore(image', data'[b])
    BY <1>1, <1>7
  <1>10. /\ \A b \in Buf : Increasing(data'[b])
         /\ pc' \notin PublishStates
         /\ \A b \in Buf : b # active' => Ended(data'[b], sent')
         /\ LinesApart(data'[Other(active')], data'[active'])
    BY <1>1, <1>3, Types DEF LineInv, PublishStates
  <1> QED
    BY <1>8, <1>9, <1>10 DEF LineInv

\* ... and emptying a buffer, if it is clean afterwards only when it was before
\* or is empty now.
LEMMA LineClear ==
    ASSUME TypeOK, LineInv, NEW b \in Buf,
           sent' = sent, active' = active, image' = image,
           data' = [data EXCEPT ![b] = <<>>],
           pc' \in PublishStates \ {"publish"} => pc \in PublishStates \ {"publish"},
           \A c \in Buf : Clean(c)' => Clean(c) \/ c = b,
           \A c \in Buf : pc = "zero" /\ cur = c => c = b
    PROVE  LineInv'
  <1>1. /\ data'[b] = <<>>
        /\ \A c \in Buf : c # b => data'[c] = data[c]
        /\ \A c \in Buf : data'[c] = data[c] \/ data'[c] = <<>>
    BY DEF TypeOK
  <1>2. /\ active \in Buf /\ Other(active) \in Buf /\ Buf = {1, 2}
        /\ Other(active) # active /\ \A c \in Buf : c # active => c = Other(active)
    BY Types
  <1>3. \A c \in Buf : Increasing(data'[c])
    BY <1>1, EmptyOrder DEF LineInv
  <1>4. \A c \in Buf : Clean(c)' /\ c # active' => Ended(data'[c], sent')
    BY <1>1, EmptyOrder DEF LineInv
  <1>5. ASSUME Clean(1)', Clean(2)'
        PROVE  LinesApart(data'[Other(active')], data'[active'])
    <2>1. CASE b \in {active, Other(active)}
      BY <1>1, <2>1, EmptyOrder
    <2> QED
      BY <1>2, <2>1
  <1>6. ASSUME NEW c \in Buf
        PROVE  LinesBefore(image', data'[c])
    BY <1>1, EmptyOrder DEF LineInv
  <1>7. pc' \in PublishStates \ {"publish"} => image' = <<>>
    BY DEF LineInv
  <1> QED
    BY <1>3, <1>4, <1>5, <1>6, <1>7 DEF LineInv, LinesInOrder

\* The other statements of the restart, and the end of the upload, after which no
\* buffer counts as clean.
LEMMA LineRestart ==
    ASSUME TypeOK, LineInv, sent' = sent, image' = <<>>,
           \A c \in Buf : data'[c] = data[c] \/ data'[c] = <<>>,
           pc' \in PublishStates \ {"publish", "rx_zero2"}
    PROVE  LineInv'
  <1>1. \A c \in Buf : ~Clean(c)'
    BY DEF Clean
  <1>2. \A c \in Buf : Increasing(data'[c]) /\ LinesBefore(image', data'[c])
    BY EmptyOrder DEF LineInv
  <1>3. LinesInOrder'
    BY DEF LinesInOrder
  <1>4. ~Clean(1)'
    BY DEF Clean
  <1> QED
    BY <1>1, <1>2, <1>3, <1>4 DEF LineInv

\* Every step keeps the lines in order.
LEMMA LineStep == TypeOK /\ SeparateInv /\ LineInv /\ [Next]_vars => LineInv'
  <1> SUFFICES ASSUME TypeOK, SeparateInv, LineInv, [Next]_vars PROVE LineInv'
    OBVIOUS
  <1> USE DEF PublishStates
  <1>1. CASE UartIsr
    BY <1>1, LineIsr
  <1>2. CASE Tick \/ UNCHANGED vars
    <2>1. UNCHANGED <<sent, data, active, pc, cur, image>>
      BY <1>2 DEF Tick, vars, lineVars, taskVars, imageVars
    <2> QED
      BY <2>1 DEF LineInv, LinesInOrder, Clean
  <1>3. CASE Aside
    <2>1. /\ UNCHANGED <<sent, data, active, image>> /\ pc # "zero"
          /\ pc \notin PublishStates /\ pc' \notin PublishStates \ {"publish"}
      BY <1>3, AsideStep
    <2>2. \A b \in {1, 2} : Clean(b)
      BY <2>1 DEF Clean
    <2> QED
      BY <2>1, <2>2 DEF LineInv, LinesInOrder, Buf
  <1>4. CASE AppendImage
    BY <1>4, LineAppend
  <1>5. CASE ZeroBuffer \/ ResetIdx
    <2>1. /\ sent' = sent /\ active' = active /\ image' = image /\ cur \in Buf
          /\ data' = [data EXCEPT ![cur] = <<>>]
          /\ pc \in {"zero", "idx"} /\ pc' \in {"idx", "free"}
      BY <1>5, Types DEF ZeroBuffer, ResetIdx, Goto, imageVars
    <2> QED
      BY <2>1, LineClear DEF Clean
  <1>6. CASE Publish
    <2>1. /\ sent' = sent /\ image' = <<>> /\ data' = data /\ pc' = "rx_state1"
      BY <1>6 DEF Publish, Goto, lineVars
    <2> QED
      BY <2>1, LineRestart
  <1>7. CASE \/ RxState1 \/ RxState2 \/ RxActive
             \/ RxIdx(1, "rx_idx1", "rx_idx2") \/ RxIdx(2, "rx_idx2", "rx_active")
    <2>1. /\ sent' = sent /\ image' = image /\ pc \in PublishStates \ {"publish"}
          /\ pc' \in PublishStates \ {"publish", "rx_zero2"}
          /\ \A c \in Buf : data'[c] = data[c] \/ data'[c] = <<>>
      BY <1>7 DEF TypeOK, RxState1, RxState2, RxActive, RxIdx, Goto, imageVars, Buf
    <2>2. image' = <<>>
      BY <2>1 DEF LineInv
    <2> QED
      BY <2>1, <2>2, LineRestart
  <1>8. CASE RxZero(1, "rx_zero1", "rx_zero2")
    <2>1. /\ sent' = sent /\ active' = active /\ image' = image /\ 1 \in Buf
          /\ data' = [data EXCEPT ![1] = <<>>]
          /\ pc = "rx_zero1" /\ pc' = "rx_zero2"
      BY <1>8 DEF RxZero, Goto, imageVars, Buf
    <2> QED
      BY <2>1, LineClear DEF Clean
  <1>9. CASE RxZero(2, "rx_zero2", "check")
    <2>1. /\ sent' = sent /\ active' = active /\ image' = image /\ 2 \in Buf
          /\ data' = [data EXCEPT ![2] = <<>>]
          /\ pc = "rx_zero2" /\ pc' = "check"
      BY <1>9 DEF RxZero, Goto, imageVars, Buf
    <2>2. \A c \in Buf : Clean(c) \/ c = 2
      BY <2>1 DEF Clean, Buf
    <2> QED
      BY <2>1, <2>2, LineClear
  <1> QED
    BY <1>1, <1>2, <1>3, <1>4, <1>5, <1>6, <1>7, <1>8, <1>9
       DEF Next, Task, StartRX, Aside

\* The steps above as a safety specification: fairness plays no part in it.
Safety == Init /\ [][Next]_vars

\* The invariants that hold of every value of the constants.
CommonInv == TypeOK /\ SeparateInv /\ LineInv

\* They hold in every reachable state.
LEMMA CommonInvariant == Safety => []CommonInv
  <1>1. Init => CommonInv
    <2> SUFFICES ASSUME Init PROVE CommonInv
      OBVIOUS
    <2>1. TypeOK
      BY InitType
    <2>2. /\ image = <<>> /\ images = <<>> /\ \A b \in Buf : data[b] = <<>>
          /\ Len(images) = 0 /\ active = 1 /\ 1 \in Buf /\ 2 \in Buf
          /\ Other(1) \in Buf
      BY DEF Init, Buf, Other
    <2>3. SeparateInv
      BY <2>2 DEF SeparateInv, UpTo, ImagesSeparate
    <2>4. LineInv
      BY <2>2, EmptyOrder DEF LineInv, LinesInOrder
    <2> QED
      BY <2>1, <2>3, <2>4 DEF CommonInv
  <1>2. CommonInv /\ [Next]_vars => CommonInv'
    <2>1. TypeOK /\ [Next]_vars => TypeOK'
      <3>1. TypeOK /\ UNCHANGED vars => TypeOK'
        BY DEF TypeOK, vars, lineVars, taskVars, imageVars, timeVars
      <3> QED
        BY <3>1, UartIsrType, TaskType, TickType DEF Next
    <2> QED
      BY <2>1, SeparateStep, LineStep DEF CommonInv
  <1> QED
    BY <1>1, <1>2, PTL DEF Safety

\* However the handler and the task interleave, and also when data is lost, the
\* fragments of a line come into the image in the order they were sent, and none
\* of them twice.
THEOREM LinesStayInOrder == Spec => []LinesInOrder
  <1>1. Spec => Safety
    BY DEF Spec, Safety
  <1>2. CommonInv => LinesInOrder
    BY DEF CommonInv, LineInv
  <1> QED
    BY <1>1, <1>2, CommonInvariant, PTL

-----------------------------------------------------------------------------
(* The whole image is in order if the task drains a line during the pause    *)
(* after it (TaskPrompt).                                                   *)

\* ImageInOrder is not inductive: the task always drains buffer 1 before buffer 2,
\* so buffer 2 must not be the older one.  It is older only if a line ended in it
\* while buffer 1 was already receiving; then buffer 1 is empty, or the task has
\* just been at it (the second case, with the buffers the other way round).
OrderInv ==
    /\ pc \in PublishStates \union {"timer", "decide"} => cur = 1
    /\ pc \in {"append", "zero", "idx", "free"} => bufState[cur] = "READY"
    /\ Clean(1) /\ Clean(2) => Before(data[Other(active)], data[active])
    /\ pc \notin PublishStates /\ bufState[Other(active)] = "READY" =>
          \/ data[Other(active)] = <<>>
          \/ data[active] = <<>> /\ ~MidLine
          \/ active = 2 /\ cur = 1 /\ pc \in {"check", "append", "zero"}
    /\ pc \notin PublishStates =>
          \A b \in Buf : /\ b = active \/ bufState[b] = "READY"
                         /\ ~(pc = "zero" /\ cur = b)
                         => Before(image, data[b])
    /\ ImageInOrder

\* The handler keeps the order: while a buffer waits it adds to the other one only
\* inside a line, and then the waiting one is on its way into the image.
LEMMA OrderIsr ==
    ASSUME TaskPrompt, TypeOK, SeparateInv, OrderInv, UartIsr
    PROVE  OrderInv'
  <1> DEFINE o == Other(active)
  <1>1. /\ sent \in Nat /\ active \in Buf /\ o \in Buf /\ o # active
        /\ \A b \in Buf : data[b] \in Seq(Nat)
        /\ \A b \in Buf : b # active => b = o
        /\ image \in Seq(Nat) /\ Buf = {1, 2}
    BY Types
  <1>2. /\ sent' = sent + 1 /\ image' = image /\ pc' = pc /\ cur' = cur
        /\ \/ data'[active] = data[active]
           \/ data'[active] = Append(data[active], sent + 1)
        /\ \/ active' = active /\ data'[o] = data[o]
           \/ active' = o /\ data'[o] = <<>> /\ EndsLine(sent + 1) /\ MaySwitch
    BY IsrData
  <1>3. /\ bufState'[active] = bufState[active] \/ bufState'[active] = "READY"
        /\ active' = active => bufState'[o] = bufState[o]
        /\ active' # active => bufState[o] = "FREE"
    <2>1. bufState \in [Buf -> {"FREE", "RECEIVING", "READY"}]
      BY DEF TypeOK
    <2> QED
      BY <1>1, <2>1 DEF UartIsr, MaySwitch
  <1>4. UpTo(image, sent) /\ \A b \in Buf : UpTo(data[b], sent)
    BY DEF SeparateInv
  <1>5. ~MidLine /\ pc \notin PublishStates => bufState[o] # "READY"
    BY <1>1 DEF UartIsr, CameraSends, TaskKeepsUp, Drained
  <1>6. Other(active') # active' /\ (active' = o => Other(active') = active)
        /\ (active' = active => Other(active') = o)
    BY <1>1, <1>2 DEF Other
  <1>7. bufState'[cur] = "READY" \/ bufState[cur] # "READY"
    <2>1. cur \in Buf
      BY Types
    <2> QED
      BY <1>1, <1>2, <1>3, <2>1
  <1>8. ASSUME Clean(1)', Clean(2)'
        PROVE  Before(data'[Other(active')], data'[active'])
    <2>1. CASE active' = active /\ data'[o] = data[o]
      <3>1. Clean(1) /\ Clean(2)
        BY <1>2, <1>8 DEF Clean
      <3>2. Before(data[o], data[active])
        BY <3>1 DEF OrderInv
      <3>3. Before(data[o], Append(data[active], sent + 1))
        BY <1>1, <1>4, <3>2, BeforeNew
      <3> QED
        BY <1>2, <1>6, <2>1, <3>2, <3>3
    <2>2. CASE active' = o /\ data'[o] = <<>>
      BY <2>2, BeforeEmpty
    <2> QED
      BY <1>2, <2>1, <2>2
  <1>9. ASSUME pc' \notin PublishStates, bufState'[Other(active')] = "READY"
        PROVE  \/ data'[Other(active')] = <<>>
               \/ data'[active'] = <<>> /\ ~MidLine'
               \/ active' = 2 /\ cur' = 1 /\ pc' \in {"check", "append", "zero"}
    <2>1. CASE active' = active /\ data'[o] = data[o]
      <3>1. bufState[o] = "READY" /\ Other(active') = o
        BY <1>3, <1>6, <1>9, <2>1
      <3>2. MidLine
        BY <1>2, <1>5, <1>9, <3>1
      <3>3. \/ data[o] = <<>>
            \/ active = 2 /\ cur = 1 /\ pc \in {"check", "append", "zero"}
        BY <1>2, <1>9, <3>1, <3>2 DEF OrderInv
      <3> QED
        BY <1>2, <2>1, <3>1, <3>3
    <2>2. CASE active' = o /\ data'[o] = <<>> /\ EndsLine(sent + 1)
      BY <1>2, <2>2 DEF EndsLine, MidLine
    <2> QED
      BY <1>2, <2>1, <2>2
  <1>10. ASSUME pc' \notin PublishStates, NEW b \in Buf,
                b = active' \/ bufState'[b] = "READY", ~(pc' = "zero" /\ cur' = b)
         PROVE  Before(image', data'[b])
    <2>1. CASE data'[b] = <<>>
      BY <2>1, BeforeEmpty
    <2>2. CASE data'[b] # <<>>
      <3>1. b = active \/ bufState[b] = "READY"
        BY <1>1, <1>2, <1>3, <1>10, <2>2
      <3>2. Before(image, data[b])
        BY <1>2, <1>10, <3>1 DEF OrderInv
      <3>3. Before(image, Append(data[b], sent + 1))
        BY <1>1, <1>4, <3>2, BeforeNew
      <3> QED
        BY <1>1, <1>2, <2>2, <3>2, <3>3
    <2> QED
      BY <2>1, <2>2
  <1>11. pc' \in PublishStates \union {"timer", "decide"} => cur' = 1
    BY <1>2 DEF OrderInv
  <1>12. pc' \in {"append", "zero", "idx", "free"} => bufState'[cur'] = "READY"
    BY <1>2, <1>7 DEF OrderInv
  <1>13. ImageInOrder'
    BY <1>2 DEF OrderInv, ImageInOrder
  <1> HIDE DEF o
  <1> QED
    BY <1>8, <1>9, <1>10, <1>11, <1>12, <1>13 DEF OrderInv

\* The copy keeps the order: of two buffers that both hold something the older one
\* is copied first.
LEMMA OrderAppend ==
    ASSUME TypeOK, LineInv, OrderInv, AppendImage
    PROVE  OrderInv'
  <1> DEFINE longer == image \o data[cur]
             o == Other(active)
  <1>1. /\ sent' = sent /\ data' = data /\ active' = active /\ cur' = cur
        /\ bufState' = bufState
        /\ \/ image' = image
           \/ image' = longer
           \/ image' = SubSeq(longer, 1, ImageCap) /\ Len(longer) > ImageCap
        /\ pc = "append" /\ pc' = "zero"
    BY DEF AppendImage, lineVars, Goto
  <1>2. /\ image \in Seq(Nat) /\ cur \in Buf /\ longer \in Seq(Nat)
        /\ \A b \in Buf : data[b] \in Seq(Nat)
        /\ active \in Buf /\ o \in Buf /\ ImageCap \in Nat
        /\ \A b \in Buf : b # active => b = o
    BY Types
  <1>3. pc \notin PublishStates /\ pc' \notin PublishStates /\ Clean(1) /\ Clean(2)
    BY <1>1 DEF Clean, PublishStates
  <1>4. Before(image, data[cur]) /\ Increasing(image) /\ bufState[cur] = "READY"
    BY <1>1, <1>2, <1>3 DEF OrderInv, ImageInOrder, Increasing
  <1>5. ASSUME NEW b \in Buf, b # cur, b = active \/ bufState[b] = "READY"
        PROVE  Before(image, data[b]) /\ Before(longer, data[b])
    <2>1. Before(image, data[b])
      BY <1>1, <1>3, <1>5 DEF OrderInv
    <2>2. Before(data[cur], data[b])
      <3>1. CASE b = active
        <4>1. cur = o
          BY <1>2, <1>5, <3>1
        <4> QED
          BY <1>3, <3>1, <4>1 DEF OrderInv
      <3>2. CASE b = o /\ b # active
        <4>1. cur = active /\ bufState[o] = "READY"
          BY <1>2, <1>5, <3>2
        <4>2. data[o] = <<>> \/ data[active] = <<>> \/ (active = 2 /\ cur = 1)
          BY <1>3, <4>1 DEF OrderInv
        <4> QED
          BY <3>2, <4>1, <4>2, EmptyOrder
      <3> QED
        BY <1>2, <3>1, <3>2
    <2>3. Before(longer, data[b])
      <3> SUFFICES ASSUME NEW k \in 1 .. Len(longer), NEW m \in 1 .. Len(data[b])
                   PROVE  longer[k] < data[b][m]
        BY DEF Before
      <3>1. CASE k <= Len(image)
        BY <1>2, <2>1, <3>1 DEF Before
      <3>2. CASE k > Len(image)
        <4>1. k - Len(image) \in 1 .. Len(data[cur]) /\ longer[k] = data[cur][k - Len(image)]
          BY <1>2, <3>2
        <4> QED
          BY <2>2, <4>1 DEF Before
      <3> QED
        BY <1>2, <3>1, <3>2
    <2> QED
      BY <2>1, <2>3
  <1>6. Increasing(longer)
    <2>1. Increasing(data[cur])
      BY <1>2 DEF LineInv
    <2> QED
      BY <1>2, <1>4, <2>1, IncreasingConcat
  <1>7. ASSUME Len(longer) > ImageCap
        PROVE  /\ Increasing(SubSeq(longer, 1, ImageCap))
               /\ \A t : Before(longer, t) => Before(SubSeq(longer, 1, ImageCap), t)
    <2>1. ImageCap <= Len(longer)
      BY <1>2, <1>7
    <2> HIDE DEF longer
    <2> QED
      BY <1>2, <1>6, <2>1, PrefixOrder
  <1>8. Increasing(image')
    BY <1>1, <1>4, <1>6, <1>7
  <1>9. ASSUME NEW b \in Buf, b # cur, b = active \/ bufState[b] = "READY"
        PROVE  Before(image', data[b])
    BY <1>1, <1>5, <1>7, <1>9
  <1>10. ImageInOrder'
    BY <1>8 DEF ImageInOrder, Increasing
  <1> HIDE DEF longer
  <1> QED
    BY <1>1, <1>3, <1>4, <1>9, <1>10 DEF OrderInv, MidLine, Clean, PublishStates

\* The other steps of the task outside HT_USART_StartRX: they copy nothing, and let
\* go of a buffer only once it is empty or in the image.
LEMMA OrderTask ==
    ASSUME TypeOK, OrderInv, Aside \/ ZeroBuffer \/ ResetIdx
    PROVE  OrderInv'
  <1> DEFINE o == Other(active)
  <1>1. /\ active \in Buf /\ o \in Buf /\ o # active /\ cur \in Buf
        /\ \A b \in Buf : data[b] \in Seq(Nat)
        /\ \A b \in Buf : b # active => b = o
        /\ Buf = {1, 2} /\ Other(2) = 1
    BY Types DEF Other
  <1>2. /\ sent' = sent /\ active' = active /\ image' = image
        /\ \A b \in Buf : data'[b] = data[b] \/ data'[b] = <<>>
    BY DEF TypeOK, Aside, CheckReady, FreeBuffer, ReadTick, Decide, ZeroBuffer, ResetIdx,
           lineVars, imageVars
  <1>3. /\ pc \notin PublishStates /\ pc' \notin PublishStates \ {"publish"}
        /\ Clean(1) /\ Clean(2)
    BY DEF Aside, CheckReady, FreeBuffer, ReadTick, Decide, ZeroBuffer, ResetIdx, Goto,
           NextBuffer, Clean, PublishStates
  <1>4. \A b \in Buf : bufState'[b] = bufState[b] \/ bufState'[b] = "FREE"
    BY DEF TypeOK, Aside, CheckReady, FreeBuffer, ReadTick, Decide, ZeroBuffer, ResetIdx,
           lineVars
  <1>5. /\ pc' \in PublishStates \union {"timer", "decide"} => cur' = 1
        /\ pc' \in {"append", "zero", "idx", "free"} => bufState'[cur'] = "READY"
    BY <1>1 DEF Aside, CheckReady, FreeBuffer, ReadTick, Decide, ZeroBuffer, ResetIdx, Goto,
           NextBuffer, PublishStates, OrderInv, lineVars
  <1>6. Before(data'[Other(active')], data'[active'])
    BY <1>1, <1>2, <1>3, EmptyOrder DEF OrderInv
  <1>7. ASSUME pc' \notin PublishStates, bufState'[Other(active')] = "READY"
        PROVE  \/ data'[Other(active')] = <<>>
               \/ data'[active'] = <<>> /\ ~MidLine'
               \/ active' = 2 /\ cur' = 1 /\ pc' \in {"check", "append", "zero"}
    <2>1. bufState[o] = "READY"
      BY <1>1, <1>2, <1>4, <1>7
    <2>2. CASE data[o] = <<>> \/ (data[active] = <<>> /\ ~MidLine)
      BY <1>1, <1>2, <2>2 DEF MidLine
    <2>3. CASE active = 2 /\ cur = 1 /\ pc \in {"check", "append", "zero"}
      <3>1. cur = o
        BY <1>1, <2>3
      <3>2. pc = "check" => pc' = "append" /\ cur' = 1
        BY <1>1, <2>1, <2>3, <3>1 DEF Aside, CheckReady, FreeBuffer, ReadTick, Decide,
           ZeroBuffer, ResetIdx, Goto
      <3>3. pc = "zero" => data'[o] = <<>>
        BY <1>1, <3>1 DEF TypeOK, Aside, CheckReady, FreeBuffer, ReadTick, Decide,
           ZeroBuffer, ResetIdx
      <3>4. pc # "append"
        BY DEF Aside, CheckReady, FreeBuffer, ReadTick, Decide, ZeroBuffer, ResetIdx
      <3> QED
        BY <1>2, <2>3, <3>2, <3>3, <3>4
    <2> QED
      BY <1>3, <2>1, <2>2, <2>3 DEF OrderInv
  <1>8. ASSUME pc' \notin PublishStates, NEW b \in Buf,
               b = active' \/ bufState'[b] = "READY", ~(pc' = "zero" /\ cur' = b)
        PROVE  Before(image', data'[b])
    <2>1. CASE pc = "zero" /\ cur = b
      <3>1. data'[b] = <<>>
        BY <1>1, <2>1 DEF TypeOK, Aside, CheckReady, FreeBuffer, ReadTick, Decide,
           ZeroBuffer, ResetIdx
      <3> QED
        BY <3>1, EmptyOrder
    <2>2. CASE ~(pc = "zero" /\ cur = b)
      <3>1. b = active \/ bufState[b] = "READY"
        BY <1>2, <1>4, <1>8
      <3>2. Before(image, data[b])
        BY <1>3, <2>2, <3>1 DEF OrderInv
      <3> QED
        BY <1>2, <3>2, EmptyOrder
    <2> QED
      BY <2>1, <2>2
  <1>9. ImageInOrder'
    BY <1>2 DEF OrderInv, ImageInOrder
  <1> HIDE DEF o
  <1> QED
    BY <1>5, <1>6, <1>7, <1>8, <1>9 DEF OrderInv

\* The end of the upload and the restart begin with an empty image, and at the end
\* with at least one empty buffer.
LEMMA OrderRestart ==
    ASSUME TypeOK, LineInv, OrderInv, Publish \/ StartRX
    PROVE  OrderInv'
  <1>1. /\ active \in Buf /\ Other(active) \in Buf /\ Buf = {1, 2}
        /\ Other(1) = 2 /\ Other(2) = 1
    BY Types DEF Other
  <1>2. /\ pc \in PublishStates /\ cur' = cur /\ cur = 1
        /\ pc' \in (PublishStates \ {"publish"}) \union {"check"}
    BY DEF Publish, StartRX, RxState1, RxState2, RxIdx, RxActive, RxZero, Goto,
           OrderInv, PublishStates
  <1>3. image' = <<>>
    BY DEF Publish, StartRX, RxState1, RxState2, RxIdx, RxActive, RxZero, imageVars,
           LineInv, PublishStates
  <1>4. Clean(1)' /\ Clean(2)' => /\ pc' = "check" /\ active' = active
                                  /\ data' = [data EXCEPT ![2] = <<>>]
    BY DEF Publish, StartRX, RxState1, RxState2, RxIdx, RxActive, RxZero, Goto,
           Clean, PublishStates
  <1>5. pc' \notin PublishStates => Clean(1)' /\ Clean(2)'
    BY DEF Clean, PublishStates
  <1>6. ASSUME Clean(1)', Clean(2)'
        PROVE  /\ Before(data'[Other(active')], data'[active'])
               /\ data'[Other(active')] = <<>> \/ (active' = 2 /\ cur' = 1 /\ pc' = "check")
    <2>1. data'[2] = <<>> /\ active' = active
      BY <1>1, <1>4, <1>6 DEF TypeOK
    <2>2. CASE active = 1
      BY <1>1, <2>1, <2>2, EmptyOrder
    <2>3. CASE active = 2
      BY <1>1, <1>2, <1>4, <1>6, <2>1, <2>3, EmptyOrder
    <2> QED
      BY <1>1, <2>2, <2>3
  <1>7. ImageInOrder' /\ \A b \in Buf : Before(image', data'[b])
    BY <1>3, EmptyOrder DEF ImageInOrder
  <1>8. pc' \notin {"append", "zero", "idx", "free", "timer", "decide"}
    BY <1>2 DEF PublishStates
  <1> QED
    BY <1>2, <1>5, <1>6, <1>7, <1>8 DEF OrderInv

\* Every step keeps the order.
LEMMA OrderStep ==
    ASSUME TaskPrompt, CommonInv, OrderInv, [Next]_vars
    PROVE  OrderInv'
  <1> USE DEF CommonInv
  <1>1. CASE UartIsr
    BY <1>1, OrderIsr
  <1>2. CASE Tick \/ UNCHANGED vars
    <2>1. UNCHANGED <<sent, bufState, data, active, pc, cur, image>>
      BY <1>2 DEF Tick, vars, lineVars, taskVars, imageVars
    <2> QED
      BY <2>1 DEF OrderInv, ImageInOrder, Clean, MidLine
  <1>3. CASE Aside \/ ZeroBuffer \/ ResetIdx
    BY <1>3, OrderTask
  <1>4. CASE AppendImage
    BY <1>4, OrderAppend
  <1>5. CASE Publish \/ StartRX
    BY <1>5, OrderRestart
  <1> QED
    BY <1>1, <1>2, <1>3, <1>4, <1>5 DEF Next, Task, Aside

\* If the task has drained a line when the pause after it ends, the image is in the
\* order the camera sent it, although the task never asks which buffer is older.
THEOREM ImageComesInOrder ==
    ASSUME TaskPrompt
    PROVE  Spec => []ImageInOrder
  <1>1. Init => OrderInv
    <2> SUFFICES ASSUME Init PROVE OrderInv
      OBVIOUS
    <2>1. /\ image = <<>> /\ \A b \in Buf : data[b] = <<>>
          /\ active = 1 /\ Other(1) \in Buf /\ 1 \in Buf /\ pc = "check" /\ cur = 1
      BY DEF Init, Buf, Other
    <2> QED
      BY <2>1, EmptyOrder DEF OrderInv, ImageInOrder, PublishStates
  <1>2. CommonInv /\ OrderInv /\ [Next]_vars => OrderInv'
    BY OrderStep
  <1>3. OrderInv => ImageInOrder
    BY DEF OrderInv
  <1> QED
    BY <1>1, <1>2, <1>3, CommonInvariant, PTL DEF Spec, Safety

-----------------------------------------------------------------------------
(* Lines, frames and runs of fragments.                                    *)

\* The lengths are positive, and the clock does not wrap in the model's range.
LEMMA Lengths ==
    /\ LineLen \in Nat \ {0} /\ FrameLines \in Nat \ {0} /\ NumFrames \in Nat \ {0}
    /\ FrameLen \in Nat \ {0} /\ FrameLen = LineLen * FrameLines
    /\ ImageCap \in Nat /\ ChunkCap \in Nat /\ Timeout \in Nat /\ TickMod \in Nat \ {0}
    /\ MaxLag \in Nat /\ LineLen < ChunkCap
  BY ConstantsAssumption DEF ConstantsAssumption, FrameLen

\* A remainder is not more than the number.
LEMMA ModLe ==
    ASSUME NEW L \in Nat \ {0}, NEW a \in Nat
    PROVE  a % L \in Nat /\ a % L <= a
  <1>1. a % L \in 0 .. L - 1
    BY ModPart
  <1>2. CASE a < L
    <2>1. a \in 0 .. L - 1 /\ 0 = L * 0 /\ a = 0 + a /\ a \in Int /\ 0 \in Int
      BY <1>2
    <2>2. a % L = a
      BY <2>1, ModOfSum
    <2> QED
      BY <1>1, <2>2
  <1> QED
    BY <1>1, <1>2

\* A frame ends at the end of a line.
LEMMA LineInFrame ==
    ASSUME NEW n \in Nat, n % FrameLen = 0
    PROVE  n % LineLen = 0
  <1> DEFINE q == n \div FrameLen
             p == FrameLines * q
             m == LineLen * p
  <1>1. n = FrameLen * q + 0 /\ q \in Int
    <2>1. FrameLen \in Nat \ {0} /\ n \in Int
      BY Lengths
    <2>2. n = FrameLen * (n \div FrameLen) + (n % FrameLen) /\ n \div FrameLen \in Int
      BY <2>1, ModPart
    <2> QED
      BY <2>2
  <1>2. p \in Int /\ m \in Int /\ n = m + 0
    <2>1. \A a, b, c \in Int : (a * b) * c = a * (b * c)
      OBVIOUS
    <2>2. FrameLen * q = LineLen * (FrameLines * q)
      <3>1. LineLen \in Int /\ FrameLines \in Int /\ FrameLen = LineLen * FrameLines
        BY Lengths
      <3>2. (LineLen * FrameLines) * q = LineLen * (FrameLines * q)
        BY <1>1, <2>1, <3>1
      <3> QED
        BY <3>1, <3>2
    <2> QED
      BY <1>1, <2>2, Lengths
  <1>3. /\ m = LineLen * p /\ LineLen \in Nat \ {0} /\ 0 \in 0 .. LineLen - 1 /\ n \in Int
        /\ m \in Int /\ p \in Int /\ n = m + 0
    BY <1>2, Lengths
  <1> HIDE DEF m, p
  <1> QED
    BY <1>3, ModOfSum

\* Between two ends of frames lies a frame.
LEMMA FrameGap ==
    ASSUME NEW a \in Nat, NEW b \in Nat, a % FrameLen = 0, b % FrameLen = 0,
           a < b, b <= a + FrameLen
    PROVE  b = a + FrameLen
  <1> DEFINE q == a \div FrameLen
             m == FrameLen * q
             r == b - a
  <1>1. q \in Int /\ m \in Int /\ a = m /\ m = FrameLen * q
    <2>1. FrameLen \in Nat \ {0} /\ a \in Int
      BY Lengths
    <2>2. a = FrameLen * (a \div FrameLen) + (a % FrameLen) /\ a \div FrameLen \in Int
      BY <2>1, ModPart
    <2> QED
      BY <2>1, <2>2
  <1>2. r \in 1 .. FrameLen /\ b = m + r
    BY <1>1, Lengths
  <1> HIDE DEF q, m, r
  <1>3. CASE r < FrameLen
    <2>1. /\ r \in 0 .. FrameLen - 1 /\ b \in Int /\ FrameLen \in Nat \ {0}
          /\ q \in Int /\ m \in Int /\ m = FrameLen * q /\ b = m + r
      BY <1>1, <1>2, <1>3, Lengths
    <2>2. b % FrameLen = r
      BY <2>1, ModOfSum
    <2> QED
      BY <1>2, <2>2
  <1> QED
    BY <1>1, <1>2, <1>3, Lengths

\* The end of the f-th frame is the beginning of the next one.
LEMMA FrameEnds ==
    ASSUME NEW f \in Nat
    PROVE  /\ f * FrameLen \in Nat /\ (f * FrameLen) % FrameLen = 0
           /\ (f + 1) * FrameLen = f * FrameLen + FrameLen
           /\ Frame(f + 1) = Run(f * FrameLen, f * FrameLen + FrameLen)
  <1> DEFINE m == f * FrameLen
  <1>1. m \in Nat /\ m = FrameLen * f /\ (f + 1) * FrameLen = m + FrameLen
    BY Lengths
  <1>2. f \in Int /\ m \in Int /\ m = m + 0 /\ 0 \in 0 .. FrameLen - 1
    BY <1>1, Lengths
  <1> HIDE DEF m
  <1>3. m % FrameLen = 0
    <2>1. /\ FrameLen \in Nat \ {0} /\ m \in Int /\ f \in Int /\ 0 \in 0 .. FrameLen - 1
          /\ m = FrameLen * f /\ m = m + 0
      BY <1>1, <1>2, Lengths
    <2> QED
      BY <2>1, ModOfSum
  <1>4. (f + 1) - 1 = f
    OBVIOUS
  <1>5. Frame(f + 1) = Run(f * FrameLen, (f + 1) * FrameLen)
    BY <1>4 DEF Frame
  <1> QED
    BY <1>1, <1>3, <1>5 DEF m

\* A run holds what lies between its ends.
LEMMA RunType ==
    ASSUME NEW lo \in Nat, NEW hi \in Nat, lo <= hi
    PROVE  /\ Run(lo, hi) \in Seq(Nat) /\ Len(Run(lo, hi)) = hi - lo
           /\ \A i \in 1 .. hi - lo : Run(lo, hi)[i] = lo + i
  BY DEF Run

\* Two sequences of the same length with the same elements are the same.
LEMMA SameSeq ==
    ASSUME NEW s \in Seq(Nat), NEW t \in Seq(Nat), Len(s) = Len(t),
           \A i \in 1 .. Len(s) : s[i] = t[i]
    PROVE  s = t
  BY SeqEqual

\* Nothing was sent between a fragment and itself.
LEMMA RunEmpty ==
    ASSUME NEW lo \in Nat, NEW hi \in Nat, lo <= hi
    PROVE  (Run(lo, hi) = <<>>) <=> (lo = hi)
  <1>1. Run(lo, hi) \in Seq(Nat) /\ Len(Run(lo, hi)) = hi - lo
    BY RunType
  <1> QED
    BY <1>1

\* A run goes on with the next fragment.
LEMMA RunAppend ==
    ASSUME NEW lo \in Nat, NEW hi \in Nat, lo <= hi
    PROVE  Append(Run(lo, hi), hi + 1) = Run(lo, hi + 1)
  <1> DEFINE s == Run(lo, hi)
             t == Run(lo, hi + 1)
  <1>1. /\ s \in Seq(Nat) /\ Len(s) = hi - lo /\ \A i \in 1 .. hi - lo : s[i] = lo + i
        /\ t \in Seq(Nat) /\ Len(t) = hi - lo + 1
        /\ \A i \in 1 .. hi - lo + 1 : t[i] = lo + i
    <2>1. /\ Run(lo, hi) \in Seq(Nat) /\ Len(Run(lo, hi)) = hi - lo
          /\ \A i \in 1 .. hi - lo : Run(lo, hi)[i] = lo + i
      BY RunType
    <2>2. hi + 1 \in Nat /\ lo <= hi + 1 /\ (hi + 1) - lo = hi - lo + 1
      OBVIOUS
    <2>3. /\ Run(lo, hi + 1) \in Seq(Nat) /\ Len(Run(lo, hi + 1)) = (hi + 1) - lo
          /\ \A i \in 1 .. (hi + 1) - lo : Run(lo, hi + 1)[i] = lo + i
      BY <2>2, RunType
    <2> QED
      BY <2>1, <2>2, <2>3
  <1> HIDE DEF s, t
  <1>2. /\ Append(s, hi + 1) \in Seq(Nat) /\ Len(Append(s, hi + 1)) = hi - lo + 1
        /\ \A i \in 1 .. hi - lo : Append(s, hi + 1)[i] = s[i]
        /\ Append(s, hi + 1)[hi - lo + 1] = hi + 1
    BY <1>1
  <1>3. \A i \in 1 .. hi - lo + 1 : Append(s, hi + 1)[i] = t[i]
    BY <1>1, <1>2
  <1>4. Append(s, hi + 1) = t
    BY <1>1, <1>2, <1>3, SameSeq
  <1> QED
    BY <1>4 DEF s, t

\* A run and the one that begins where it ends are one run.
LEMMA RunConcat ==
    ASSUME NEW lo \in Nat, NEW mid \in Nat, NEW hi \in Nat, lo <= mid, mid <= hi
    PROVE  Run(lo, mid) \o Run(mid, hi) = Run(lo, hi)
  <1> DEFINE s == Run(lo, mid)
             t == Run(mid, hi)
             u == Run(lo, hi)
             n == mid - lo
             m == hi - mid
  <1>1. s \in Seq(Nat) /\ Len(s) = n /\ \A i \in 1 .. n : s[i] = lo + i
    BY RunType
  <1>2. t \in Seq(Nat) /\ Len(t) = m /\ \A i \in 1 .. m : t[i] = mid + i
    BY RunType
  <1>3. u \in Seq(Nat) /\ Len(u) = n + m /\ \A i \in 1 .. n + m : u[i] = lo + i
    <2>1. lo <= hi /\ hi - lo = n + m
      OBVIOUS
    <2>2. /\ Run(lo, hi) \in Seq(Nat) /\ Len(Run(lo, hi)) = hi - lo
          /\ \A i \in 1 .. hi - lo : Run(lo, hi)[i] = lo + i
      BY <2>1, RunType
    <2> QED
      BY <2>1, <2>2
  <1>4. n \in Nat /\ m \in Nat /\ mid = lo + n
    OBVIOUS
  <1> HIDE DEF s, t, u, n, m
  <1>5. s \o t \in Seq(Nat) /\ Len(s \o t) = n + m
    <2>1. s \in Seq(Nat) /\ t \in Seq(Nat) /\ Len(s) = n /\ Len(t) = m
      BY <1>1, <1>2
    <2> QED
      BY <2>1
  <1>6. ASSUME NEW i \in 1 .. n + m
        PROVE  (s \o t)[i] = u[i]
    <2>1. CASE i <= n
      <3>1. (s \o t)[i] = s[i] /\ i \in 1 .. n
        BY <1>1, <1>2, <1>4, <2>1
      <3> QED
        BY <1>1, <1>3, <3>1
    <2>2. CASE i > n
      <3>1. i - n \in 1 .. m
        BY <1>4, <2>2
      <3>2. (s \o t)[i] = t[i - n]
        BY <1>1, <1>2, <1>4, <2>2
      <3> QED
        BY <1>2, <1>3, <1>4, <3>1, <3>2
    <2>3. i <= n \/ i > n
      BY <1>4
    <2> QED
      BY <2>1, <2>2, <2>3
  <1>7. s \o t = u
    BY <1>3, <1>5, <1>6, SameSeq
  <1> QED
    BY <1>7 DEF s, t, u

-----------------------------------------------------------------------------
(* The clock.                                                              *)

\* If the task is never delayed between its two reads of the clock, the tick it
\* has read is the present one.
LEMMA LagStep ==
    ASSUME MaxLag = 0, TypeOK, lag = 0, [Next]_vars
    PROVE  (lag = 0)'
  <1>1. CASE UartIsr \/ Tick \/ UNCHANGED vars
    BY <1>1 DEF TypeOK, UartIsr, Tick, vars, timeVars
  <1>2. CASE Task
    BY <1>2 DEF Task, CheckReady, AppendImage, ZeroBuffer, ResetIdx, FreeBuffer, ReadTick,
                Decide, Publish, StartRX, RxState1, RxState2, RxIdx, RxActive, RxZero,
                timeVars
  <1> QED
    BY <1>1, <1>2 DEF Next

\* Then a silence that the task takes for the end of an image is one.
LEMMA SilenceIsReal ==
    ASSUME TypeOK, lag = 0, SilenceExpired
    PROVE  silence > Timeout
  <1>1. silence \in Nat /\ silence - lag = silence
    BY DEF TypeOK
  <1>2. silence % TickMod <= silence /\ silence % TickMod \in Nat
    BY <1>1, Lengths, ModLe
  <1> QED
    BY <1>1, <1>2, Lengths DEF SilenceExpired

-----------------------------------------------------------------------------
(* The two buffers take turns.                                             *)

\* HT_USART_StartRX between the upload and the loop, with the interrupt enabled.
Restart == PublishStates \ {"publish"}

\* The buffer that is not active holds a line for the task.
Held == bufState[Other(active)] = "READY"

\* The task empties a buffer.
Draining == pc \in {"append", "zero", "idx", "free"}

\* PingPong is not inductive: it fails if the handler runs inside HT_USART_StartRX,
\* or at the end of a line while the other buffer is still held.  Neither happens
\* because a silence that ends an image is a real one, so that the camera has
\* finished its frame, and a held buffer is drained before the next line begins.
PhaseInv ==
    /\ lag = 0
    /\ silence > Timeout => ~MidFrame /\ TaskKeepsUp
    /\ pc \in PublishStates => ~MidFrame /\ Drained
    /\ pc \notin Restart =>
         /\ bufState[active] = "RECEIVING" /\ bufState[Other(active)] # "RECEIVING"
         /\ ~Held => data[Other(active)] = <<>> /\ idx[Other(active)] = 0
         /\ Held => ~MidLine
         /\ Draining => Held /\ cur = Other(active)
    /\ pc = "free" => data[cur] = <<>> /\ idx[cur] = 0
    /\ pc \in Restart \ {"rx_state1"} => bufState[1] = "RECEIVING"
    /\ pc \in Restart \ {"rx_state1", "rx_state2"} => bufState[2] = "FREE"
    /\ pc \in Restart \ {"rx_state1", "rx_state2", "rx_idx1"} => data[1] = <<>> /\ idx[1] = 0
    /\ pc \in {"rx_active", "rx_zero1", "rx_zero2"} => data[2] = <<>> /\ idx[2] = 0
    /\ pc \in {"rx_zero1", "rx_zero2"} => active = 1

\* While the task publishes or empties a buffer nothing arrives.
LEMMA QuietIsr ==
    ASSUME TaskPrompt, FramesSpaced, TypeOK, PhaseInv, UartIsr
    PROVE  pc \notin PublishStates /\ ~Held /\ ~Draining
  <1>1. pc \notin PublishStates
    BY DEF PhaseInv, UartIsr, CameraSends, Idle
  <1>2. ~Held
    <2>1. Held => ~MidLine /\ TaskKeepsUp
      BY <1>1 DEF PhaseInv, UartIsr, CameraSends, Restart
    <2>2. TaskKeepsUp => ~Held
      BY <1>1, Types DEF TaskKeepsUp, Drained, Held
    <2> QED
      BY <2>1, <2>2
  <1>3. ~Draining
    BY <1>1, <1>2 DEF PhaseInv, Restart
  <1> QED
    BY <1>1, <1>2, <1>3

\* What the handler does then: it always finds the other buffer free.
LEMMA IsrTurns ==
    ASSUME TaskPrompt, FramesSpaced, TypeOK, PhaseInv, UartIsr
    PROVE  /\ bufState[Other(active)] = "FREE" /\ Other(Other(active)) = active
           /\ \/ /\ ~EndsLine(sent + 1) /\ UNCHANGED <<bufState, active>>
                 /\ idx' = Store(sent + 1).idx /\ data' = Store(sent + 1).data
              \/ /\ EndsLine(sent + 1) /\ active' = Other(active)
                 /\ bufState' = [b \in Buf |-> IF b = active THEN "READY" ELSE "RECEIVING"]
                 /\ idx' = [Store(sent + 1).idx EXCEPT ![Other(active)] = 0]
                 /\ data' = [Store(sent + 1).data EXCEPT ![Other(active)] = <<>>]
  <1>1. bufState[Other(active)] \in {"FREE", "RECEIVING", "READY"}
    BY Types DEF TypeOK
  <1>2. bufState[Other(active)] = "FREE"
    BY <1>1, QuietIsr DEF PhaseInv, Restart, Held
  <1>3. Other(Other(active)) = active
    BY Types DEF Other
  <1> QED
    BY <1>2, <1>3 DEF UartIsr, MaySwitch

\* So the handler keeps the buffers' turns.
LEMMA PhaseIsr ==
    ASSUME TaskPrompt, FramesSpaced, TypeOK, PhaseInv, UartIsr
    PROVE  PhaseInv'
  <1> DEFINE o == Other(active)
  <1>1. /\ pc \notin PublishStates /\ ~Held /\ ~Draining
        /\ pc' = pc /\ cur' = cur /\ lag' = lag /\ silence' = 0 /\ sent' = sent + 1
    BY QuietIsr DEF UartIsr, taskVars
  <1>2. /\ pc' \notin Restart /\ pc' \notin PublishStates /\ ~Draining' /\ pc' # "free"
        /\ pc' \notin {"rx_active", "rx_zero1", "rx_zero2"}
    BY <1>1 DEF Restart, Draining, PublishStates
  <1>3. lag' = 0 /\ ~(silence' > Timeout)
    BY <1>1, Lengths DEF PhaseInv
  <1>4. /\ active \in Buf /\ o \in Buf /\ o # active /\ sent + 1 \in Nat
    BY Types
  <1>5. Store(sent + 1).data[o] = data[o] /\ Store(sent + 1).idx[o] = idx[o]
    BY <1>4 DEF TypeOK, Store
  <1>6. /\ bufState'[active'] = "RECEIVING" /\ bufState'[Other(active')] # "RECEIVING"
        /\ ~Held' => data'[Other(active')] = <<>> /\ idx'[Other(active')] = 0
        /\ Held' => ~MidLine'
    <2>1. CASE /\ ~EndsLine(sent + 1) /\ UNCHANGED <<bufState, active>>
               /\ idx' = Store(sent + 1).idx /\ data' = Store(sent + 1).data
      BY <1>1, <1>5, <2>1 DEF PhaseInv, Held, Restart
    <2>2. CASE /\ EndsLine(sent + 1) /\ active' = o
               /\ bufState' = [b \in Buf |-> IF b = active THEN "READY" ELSE "RECEIVING"]
      <3>1. Other(active') = active /\ Held' /\ bufState'[active'] = "RECEIVING"
        BY <1>4, <2>2, IsrTurns DEF Held
      <3>2. ~MidLine'
        BY <1>1, <2>2 DEF MidLine, EndsLine
      <3> QED
        BY <3>1, <3>2 DEF Held
    <2> QED
      BY <2>1, <2>2, IsrTurns
  <1> HIDE DEF o
  <1> QED
    BY <1>2, <1>3, <1>6 DEF PhaseInv, Restart

\* The tick keeps them: the line is not silent for long inside a frame.
LEMMA PhaseTick ==
    ASSUME MaxLag = 0, TypeOK, PhaseInv, Tick
    PROVE  PhaseInv'
  <1>1. UNCHANGED <<sent, bufState, idx, data, active, pc, cur>>
    BY DEF Tick, lineVars, taskVars
  <1>2. lag' = 0
    BY DEF Tick, PhaseInv
  <1>3. silence' > Timeout => ~MidFrame /\ TaskKeepsUp
    BY Lengths DEF Tick, PhaseInv, TypeOK
  <1> QED
    BY <1>1, <1>2, <1>3 DEF PhaseInv, MidFrame, MidLine, TaskKeepsUp, Drained, Held, Draining

\* The task keeps them while it drains and looks at the clock.
LEMMA PhaseTask ==
    ASSUME TaskPrompt, MaxLag = 0, TypeOK, PhaseInv,
           Aside \/ AppendImage \/ ZeroBuffer \/ ResetIdx
    PROVE  PhaseInv'
  <1> DEFINE o == Other(active)
  <1>1. /\ active \in Buf /\ o \in Buf /\ o # active /\ cur \in Buf
        /\ \A b \in Buf : b # active => b = o
    BY Types
  <1>2. /\ sent' = sent /\ active' = active /\ silence' = silence
        /\ pc \notin PublishStates /\ pc' \notin Restart
        /\ pc' = "publish" => Decide /\ SilenceExpired
    BY DEF Aside, CheckReady, FreeBuffer, ReadTick, Decide, AppendImage, ZeroBuffer, ResetIdx,
           Goto, NextBuffer, PublishStates, Restart, lineVars, timeVars
  <1>3. lag' = 0
    BY DEF Aside, CheckReady, FreeBuffer, ReadTick, Decide, AppendImage, ZeroBuffer, ResetIdx,
           PhaseInv, timeVars
  <1>4. \A b \in Buf : bufState'[b] = bufState[b] \/ (bufState'[b] = "FREE" /\ FreeBuffer /\ b = cur)
    BY DEF TypeOK, Aside, CheckReady, FreeBuffer, ReadTick, Decide, AppendImage, ZeroBuffer,
           ResetIdx, lineVars
  <1>5. \A b \in Buf : \/ data'[b] = data[b] /\ idx'[b] = idx[b]
                       \/ Draining /\ b = cur /\ ~FreeBuffer
    BY DEF TypeOK, Aside, CheckReady, FreeBuffer, ReadTick, Decide, AppendImage, ZeroBuffer,
           ResetIdx, Goto, NextBuffer, Draining, lineVars
  <1>6. Drained => Drained'
    BY <1>4 DEF Drained
  <1>7. silence > Timeout => ~MidFrame /\ Drained
    BY <1>2 DEF PhaseInv, TaskKeepsUp
  <1>8. silence' > Timeout => ~MidFrame' /\ TaskKeepsUp'
    BY <1>2, <1>6, <1>7 DEF MidFrame, TaskKeepsUp
  <1>9. pc' \in PublishStates => ~MidFrame' /\ Drained'
    BY <1>2, <1>6, <1>7, SilenceIsReal DEF PhaseInv, MidFrame, Restart
  <1>10. /\ bufState[active] = "RECEIVING" /\ bufState[o] # "RECEIVING"
         /\ ~Held => data[o] = <<>> /\ idx[o] = 0
         /\ Held => ~MidLine
         /\ Draining => Held /\ cur = o
    BY <1>2 DEF PhaseInv, Restart
  <1>11. FreeBuffer => cur = o /\ data[o] = <<>> /\ idx[o] = 0 /\ Draining
    BY <1>1, <1>10 DEF FreeBuffer, Draining, PhaseInv
  <1>12. bufState'[active] = "RECEIVING" /\ bufState'[o] # "RECEIVING"
    BY <1>1, <1>4, <1>10, <1>11
  <1>13. ~Held' => data'[o] = <<>> /\ idx'[o] = 0
    BY <1>1, <1>2, <1>4, <1>5, <1>10, <1>11 DEF Held
  <1>14. Held' => ~MidLine'
    BY <1>1, <1>2, <1>4, <1>10 DEF Held, MidLine
  <1>15. Draining' => Held' /\ cur' = o
    <2>1. CASE CheckReady
      BY <1>1, <1>2, <1>10, <2>1 DEF CheckReady, Goto, NextBuffer, Draining, Held, lineVars
    <2>2. CASE AppendImage \/ ZeroBuffer \/ ResetIdx
      BY <1>1, <1>2, <1>10, <2>2 DEF AppendImage, ZeroBuffer, ResetIdx, Goto, Draining, Held,
                                     lineVars
    <2>3. CASE FreeBuffer \/ ReadTick \/ Decide
      BY <2>3 DEF FreeBuffer, ReadTick, Decide, Goto, NextBuffer, Draining
    <2> QED
      BY <2>1, <2>2, <2>3 DEF Aside
  <1>16. pc' = "free" => data'[cur'] = <<>> /\ idx'[cur'] = 0
    BY <1>1 DEF TypeOK, Aside, CheckReady, FreeBuffer, ReadTick, Decide, AppendImage,
                ZeroBuffer, ResetIdx, Goto, NextBuffer
  <1>17. pc' \notin Restart /\ pc' \notin {"rx_active", "rx_zero1", "rx_zero2"}
    BY <1>2 DEF Restart, PublishStates
  <1> HIDE DEF o
  <1>18. Other(active') = o
    BY <1>2 DEF o
  <1> QED
    BY <1>2, <1>3, <1>8, <1>9, <1>12, <1>13, <1>14, <1>15, <1>16, <1>17, <1>18 DEF PhaseInv

\* Publishing and restarting the receiver keep them: nothing arrives meanwhile, so
\* in the end the buffers are as HT_USART_StartRX means to leave them.
LEMMA PhaseRestart ==
    ASSUME TypeOK, PhaseInv, Publish \/ StartRX
    PROVE  PhaseInv'
  <1>1. /\ active \in Buf /\ Buf = {1, 2} /\ Other(1) = 2
    BY Types DEF Other
  <1>2. /\ pc \in PublishStates /\ sent' = sent /\ lag' = lag /\ cur' = cur
        /\ pc' \in Restart \union {"check"}
        /\ silence' = silence \/ silence' = 0
    BY DEF Publish, StartRX, RxState1, RxState2, RxIdx, RxActive, RxZero, Goto,
           PublishStates, Restart, timeVars
  <1>3. Drained /\ ~MidFrame /\ ~MidFrame' /\ lag' = 0
    BY <1>2 DEF PhaseInv, MidFrame
  <1>4. Drained'
    BY <1>3 DEF Drained, TypeOK, Publish, StartRX, RxState1, RxState2, RxIdx, RxActive, RxZero,
                lineVars
  <1>5. silence' > Timeout => ~MidFrame' /\ TaskKeepsUp'
    BY <1>3, <1>4 DEF TaskKeepsUp
  <1>6. pc' # "free" /\ ~Draining'
    BY <1>2 DEF Draining, Restart, PublishStates
  <1>7. /\ pc' \in Restart \ {"rx_state1"} => bufState'[1] = "RECEIVING"
        /\ pc' \in Restart \ {"rx_state1", "rx_state2"} => bufState'[2] = "FREE"
        /\ pc' \in Restart \ {"rx_state1", "rx_state2", "rx_idx1"} =>
              data'[1] = <<>> /\ idx'[1] = 0
        /\ pc' \in {"rx_active", "rx_zero1", "rx_zero2"} => data'[2] = <<>> /\ idx'[2] = 0
        /\ pc' \in {"rx_zero1", "rx_zero2"} => active' = 1
    BY <1>1 DEF PhaseInv, TypeOK, Publish, StartRX, RxState1, RxState2, RxIdx, RxActive,
                RxZero, Goto, PublishStates, Restart, lineVars
  <1>8. ASSUME pc' \notin Restart
        PROVE  /\ bufState'[active'] = "RECEIVING" /\ bufState'[Other(active')] = "FREE"
               /\ data'[Other(active')] = <<>> /\ idx'[Other(active')] = 0
    <2>1. RxZero(2, "rx_zero2", "check")
      BY <1>8 DEF Publish, StartRX, RxState1, RxState2, RxIdx, RxActive, RxZero, Goto,
                  PublishStates, Restart
    <2>2. /\ pc = "rx_zero2" /\ active' = active /\ bufState' = bufState /\ idx' = idx
          /\ data'[2] = <<>>
      BY <1>1, <2>1 DEF RxZero, TypeOK
    <2> QED
      BY <1>1, <2>2 DEF PhaseInv, Restart, PublishStates
  <1> QED
    BY <1>3, <1>4, <1>5, <1>6, <1>7, <1>8 DEF PhaseInv, Held

\* Every step keeps the buffers' turns.
LEMMA PhaseStep ==
    ASSUME TaskPrompt, FramesSpaced, MaxLag = 0, TypeOK, PhaseInv, [Next]_vars
    PROVE  PhaseInv'
  <1>1. CASE UartIsr
    BY <1>1, PhaseIsr
  <1>2. CASE Tick
    BY <1>2, PhaseTick
  <1>3. CASE UNCHANGED vars
    BY <1>3 DEF vars, lineVars, taskVars, timeVars, PhaseInv, MidFrame, MidLine,
                TaskKeepsUp, Drained, Held, Draining
  <1>4. CASE Aside \/ AppendImage \/ ZeroBuffer \/ ResetIdx
    BY <1>4, PhaseTask
  <1>5. CASE Publish \/ StartRX
    BY <1>5, PhaseRestart
  <1> QED
    BY <1>1, <1>2, <1>3, <1>4, <1>5 DEF Next, Task, Aside

\* The turns hold when the task enters its loop.
LEMMA PhaseInit == Init => PhaseInv
  <1> SUFFICES ASSUME Init PROVE PhaseInv
    OBVIOUS
  <1>1. /\ lag = 0 /\ silence = 0 /\ pc = "check" /\ active = 1 /\ Buf = {1, 2} /\ Other(1) = 2
        /\ bufState[1] = "RECEIVING" /\ bufState[2] = "FREE" /\ data[2] = <<>> /\ idx[2] = 0
    BY DEF Init, Buf, Other
  <1> QED
    BY <1>1, Lengths DEF PhaseInv, Restart, PublishStates, Held, Draining

\* So the turns are kept in every behaviour.
LEMMA PhaseAlways ==
    ASSUME TaskPrompt, FramesSpaced, MaxLag = 0
    PROVE  Safety => [](TypeOK /\ PhaseInv)
  <1>1. TypeOK /\ PhaseInv /\ [Next]_vars => PhaseInv'
    BY PhaseStep
  <1>2. CommonInv => TypeOK
    BY DEF CommonInv
  <1> QED
    BY <1>1, <1>2, PhaseInit, CommonInvariant, PTL DEF Safety

\* The turns are those PingPong is about.
LEMMA PhasePingPong == PhaseInv => PingPong
  BY DEF PhaseInv, PingPong, Restart, Held

\* Outside HT_USART_StartRX exactly one buffer receives and the other one is free and
\* empty or waits for the task: no buffer is ever left RECEIVING with nobody to fill
\* or free it.
THEOREM BuffersTakeTurns ==
    ASSUME TaskPrompt, FramesSpaced, MaxLag = 0
    PROVE  Spec => []PingPong
  BY PhasePingPong, PhaseAlways, PTL DEF Spec, Safety

-----------------------------------------------------------------------------
(* Every published image is one frame.                                     *)

\* What was sent before the current line.
LineStart == sent - (sent % LineLen)

\* A line waits for the task and is not in the image yet.
Waiting == Held /\ pc \notin {"zero", "idx", "free"}

\* The image goes up to here.
ImageEnd == IF Waiting THEN LineStart - LineLen ELSE LineStart

\* The image holds the f-th frame as far as it has been drained.
ImageOf(f) ==
    /\ f * FrameLen <= ImageEnd
    /\ image = Run(f * FrameLen, ImageEnd)
    /\ sent <= f * FrameLen + FrameLen

\* FramesIntact follows from where every fragment of the frame is: the drained lines
\* in the image, the last line in the held buffer until it is copied, and the line
\* that is being received in the active buffer.
FrameInv ==
    /\ ~overrun
    /\ sent <= NumFrames * FrameLen
    /\ pc \in {"decide", "publish"} => image # <<>>
    /\ pc \in Restart => image = <<>>
    /\ idx[active] = sent % LineLen /\ data[active] = Run(LineStart, sent)
    /\ Waiting => LineStart - LineLen \in Nat
                  /\ data[Other(active)] = Run(LineStart - LineLen, LineStart)
    /\ FramesIntact

\* The beginning of the line is where it was, or the line has ended.
LEMMA LineStartStep ==
    ASSUME NEW n \in Nat
    PROVE  /\ n % LineLen \in 0 .. LineLen - 1 /\ n - (n % LineLen) \in 0 .. n
           /\ (n + 1) % LineLen # 0 =>
                 /\ (n + 1) % LineLen = (n % LineLen) + 1
                 /\ (n + 1) - ((n + 1) % LineLen) = n - (n % LineLen)
           /\ (n + 1) % LineLen = 0 =>
                 /\ (n % LineLen) + 1 = LineLen
                 /\ (n + 1) - LineLen = n - (n % LineLen)
  <1>1. n % LineLen \in 0 .. LineLen - 1
    BY Lengths, ModPart
  <1>2. n % LineLen <= n
    BY Lengths, ModLe
  <1>3. (n + 1) % LineLen = IF (n % LineLen) + 1 = LineLen THEN 0 ELSE (n % LineLen) + 1
    BY Lengths, ModNext
  <1> DEFINE r == n % LineLen
             r1 == (n + 1) % LineLen
  <1>4. r \in 0 .. LineLen - 1 /\ r <= n /\ r1 = (IF r + 1 = LineLen THEN 0 ELSE r + 1)
        /\ LineLen \in Nat \ {0}
    BY <1>1, <1>2, <1>3, Lengths
  <1> HIDE DEF r, r1
  <1>5. /\ r \in 0 .. LineLen - 1 /\ n - r \in 0 .. n
        /\ r1 # 0 => r1 = r + 1 /\ (n + 1) - r1 = n - r
        /\ r1 = 0 => r + 1 = LineLen /\ (n + 1) - LineLen = n - r
    BY <1>4
  <1> QED
    BY <1>5 DEF r, r1

\* The handler fills the active buffer with the current line, which has room for it.
LEMMA StoreRun ==
    ASSUME TypeOK, FrameInv
    PROVE  /\ Store(sent + 1).idx[active] = (sent % LineLen) + 1
           /\ Store(sent + 1).data[active] = Run(LineStart, sent + 1)
           /\ \A b \in Buf : b # active => /\ Store(sent + 1).idx[b] = idx[b]
                                           /\ Store(sent + 1).data[b] = data[b]
  <1>1. sent \in Nat /\ active \in Buf
    BY Types
  <1>2. sent % LineLen \in 0 .. LineLen - 1 /\ LineStart \in 0 .. sent
    BY <1>1, LineStartStep DEF LineStart
  <1>3. idx[active] = sent % LineLen /\ idx[active] + 1 < ChunkCap
    BY <1>2, Lengths DEF FrameInv
  <1>4. Append(data[active], sent + 1) = Run(LineStart, sent + 1)
    <2>1. LineStart \in Nat /\ LineStart <= sent
      BY <1>1, <1>2
    <2>2. data[active] = Run(LineStart, sent)
      BY DEF FrameInv
    <2> QED
      BY <1>1, <2>1, <2>2, RunAppend
  <1> QED
    BY <1>1, <1>3, <1>4 DEF Store, TypeOK

\* The handler keeps the frame together.
LEMMA FrameIsr ==
    ASSUME TaskPrompt, FramesSpaced, TypeOK, PhaseInv, FrameInv, UartIsr,
           NEW f \in 0 .. NumFrames, ImageOf(f)
    PROVE  FrameInv' /\ ImageOf(f)'
  <1> DEFINE o == Other(active)
  <1>1. /\ active \in Buf /\ o \in Buf /\ o # active /\ sent \in Nat /\ sent' \in Nat
        /\ image \in Seq(Nat)
    BY Types DEF UartIsr
  <1>2. /\ pc \notin PublishStates /\ ~Held /\ ~Draining /\ pc' = pc /\ sent' = sent + 1
        /\ image' = image /\ images' = images /\ overrun' = overrun
    BY QuietIsr DEF UartIsr, taskVars, imageVars
  <1>3. /\ ~Waiting /\ ImageEnd = LineStart /\ pc' \notin {"zero", "idx", "free"}
        /\ pc' \notin Restart
    BY <1>2 DEF Waiting, ImageEnd, Draining, PublishStates, Restart
  <1>4. /\ sent % LineLen \in 0 .. LineLen - 1 /\ LineStart \in 0 .. sent
        /\ ~EndsLine(sent + 1) => LineStart' = LineStart /\ sent' % LineLen = (sent % LineLen) + 1
        /\ EndsLine(sent + 1) => /\ LineStart' = sent' /\ sent' % LineLen = 0
                                 /\ LineStart' - LineLen = LineStart
    <2>1. /\ sent % LineLen \in 0 .. LineLen - 1 /\ sent - (sent % LineLen) \in 0 .. sent
          /\ (sent + 1) % LineLen # 0 =>
                /\ (sent + 1) % LineLen = (sent % LineLen) + 1
                /\ (sent + 1) - ((sent + 1) % LineLen) = sent - (sent % LineLen)
          /\ (sent + 1) % LineLen = 0 => (sent + 1) - LineLen = sent - (sent % LineLen)
      BY <1>1, LineStartStep
    <2>2. /\ LineStart = sent - (sent % LineLen)
          /\ LineStart' = (sent + 1) - ((sent + 1) % LineLen)
          /\ EndsLine(sent + 1) <=> (sent + 1) % LineLen = 0
      BY <1>2 DEF LineStart, EndsLine
    <2> QED
      BY <1>1, <1>2, <2>1, <2>2
  <1>5. sent' <= NumFrames * FrameLen
    <2>1. NumFrames * FrameLen \in Nat
      BY Lengths
    <2> QED
      BY <1>1, <1>2, <2>1 DEF UartIsr, CameraSends
  <1> DEFINE base == f * FrameLen
  <1>7. base \in Nat /\ base % FrameLen = 0 /\ FrameLen \in Nat \ {0}
    BY FrameEnds, Lengths
  <1>8. base <= LineStart /\ image = Run(base, LineStart) /\ sent <= base + FrameLen
    BY <1>3 DEF ImageOf
  <1>9. sent' <= base + FrameLen
    <2> SUFFICES ASSUME sent = base + FrameLen PROVE FALSE
      BY <1>1, <1>2, <1>7, <1>8
    <2>1. sent % FrameLen = 0
      <3>1. (f + 1) * FrameLen = sent /\ f + 1 \in Nat
        BY FrameEnds
      <3> QED
        BY <3>1, FrameEnds
    <2>2. image = <<>>
      BY <2>1 DEF UartIsr, CameraSends, MidFrame, Idle
    <2>3. sent % LineLen = 0
      BY <1>1, <2>1, LineInFrame
    <2>4. LineStart = sent
      BY <1>1, <2>3 DEF LineStart
    <2>5. base = sent
      BY <1>1, <1>7, <1>8, <2>2, <2>4, RunEmpty
    <2> QED
      BY <1>7, <2>5
  <1> HIDE DEF base
  <1>10. /\ idx'[active'] = sent' % LineLen /\ data'[active'] = Run(LineStart', sent')
         /\ Waiting' => LineStart' - LineLen \in Nat
                        /\ data'[Other(active')] = Run(LineStart' - LineLen, LineStart')
         /\ ImageEnd' = LineStart
    <2>1. CASE /\ ~EndsLine(sent + 1) /\ UNCHANGED <<bufState, active>>
               /\ idx' = Store(sent + 1).idx /\ data' = Store(sent + 1).data
      <3>1. ~Waiting'
        BY <1>2, <2>1 DEF Waiting, Held
      <3>2. ImageEnd' = LineStart'
        BY <3>1 DEF ImageEnd
      <3> QED
        BY <1>2, <1>4, <2>1, <3>1, <3>2, StoreRun
    <2>2. CASE /\ EndsLine(sent + 1) /\ active' = o
               /\ bufState' = [b \in Buf |-> IF b = active THEN "READY" ELSE "RECEIVING"]
               /\ idx' = [Store(sent + 1).idx EXCEPT ![o] = 0]
               /\ data' = [Store(sent + 1).data EXCEPT ![o] = <<>>]
      <3>1. Other(active') = active
        BY <2>2, IsrTurns
      <3>2. /\ Store(sent + 1).idx \in [Buf -> Nat] /\ Store(sent + 1).data \in [Buf -> Seq(Nat)]
        BY <1>1, <1>2, StoreType
      <3>3. idx'[o] = 0 /\ data'[o] = <<>> /\ data'[active] = Run(LineStart, sent')
        BY <1>1, <1>2, <2>2, <3>2, StoreRun
      <3>4. Run(LineStart', sent') = <<>>
        BY <1>1, <1>4, <2>2, RunEmpty
      <3>5. Waiting'
        BY <1>1, <1>3, <2>2, <3>1 DEF Waiting, Held
      <3>6. ImageEnd' = LineStart
        BY <1>4, <2>2, <3>5 DEF ImageEnd
      <3> QED
        BY <1>4, <2>2, <3>1, <3>3, <3>4, <3>6
    <2> QED
      BY <2>1, <2>2, IsrTurns
  <1>11. ImageOf(f)'
    BY <1>2, <1>8, <1>9, <1>10 DEF ImageOf, base
  <1>12. FramesIntact'
    BY <1>2 DEF FrameInv, FramesIntact
  <1>13. /\ ~overrun'
         /\ pc' \in {"decide", "publish"} => image' # <<>>
    BY <1>2 DEF FrameInv
  <1> HIDE DEF o
  <1> QED
    BY <1>3, <1>5, <1>10, <1>11, <1>12, <1>13 DEF FrameInv

\* The copy takes the waiting line, which continues the image and still fits.
LEMMA FrameAppend ==
    ASSUME FrameLen <= ImageCap, TypeOK, PhaseInv, FrameInv, AppendImage,
           NEW f \in 0 .. NumFrames, ImageOf(f)
    PROVE  FrameInv' /\ ImageOf(f)'
  <1> DEFINE o == Other(active)
             end == LineStart - LineLen
  <1>1. /\ sent' = sent /\ data' = data /\ active' = active /\ cur' = cur
        /\ bufState' = bufState /\ idx' = idx /\ images' = images
        /\ pc = "append" /\ pc' = "zero"
    BY DEF AppendImage, lineVars, Goto
  <1>2. /\ sent \in Nat /\ sent % LineLen \in 0 .. LineLen - 1 /\ LineStart \in 0 .. sent
        /\ LineLen \in Nat \ {0} /\ ImageCap \in Nat
    BY Types, LineStartStep, Lengths DEF LineStart
  <1>3. Held /\ cur = o /\ ~MidLine
    BY <1>1 DEF PhaseInv, Restart, PublishStates, Draining
  <1>4. LineStart = sent /\ Waiting /\ ~Waiting'
    BY <1>1, <1>2, <1>3 DEF MidLine, LineStart, Waiting, Held
  <1>5. /\ ImageEnd = end /\ end \in Nat /\ ImageEnd' = sent /\ LineStart' = LineStart
        /\ data[o] = Run(end, sent)
    BY <1>1, <1>4 DEF ImageEnd, FrameInv, LineStart
  <1> DEFINE base == f * FrameLen
  <1>7. base \in Nat
    BY FrameEnds
  <1>8. /\ base <= end /\ image = Run(base, end) /\ sent <= base + FrameLen
        /\ end < sent
    BY <1>2, <1>4, <1>5 DEF ImageOf
  <1> HIDE DEF base, end, o
  <1>9. /\ image \o data[cur] = Run(base, sent)
        /\ Len(image) = end - base
        /\ Len(Run(base, sent)) = sent - base
    <2>1. sent \in Nat /\ base \in Nat /\ end \in Nat /\ base <= end /\ end <= sent /\ base <= sent
      BY <1>2, <1>5, <1>7, <1>8
    <2>2. Run(base, end) \o Run(end, sent) = Run(base, sent)
      BY <2>1, RunConcat
    <2>3. Len(Run(base, end)) = end - base /\ Len(Run(base, sent)) = sent - base
      BY <2>1, RunType
    <2> QED
      BY <1>3, <1>5, <1>8, <2>2, <2>3
  <1>10. /\ Len(image) < ImageCap
         /\ ~(Len(image \o data[cur]) > ImageCap)
    BY <1>2, <1>5, <1>7, <1>8, <1>9, Lengths
  <1>11. image' = Run(base, sent) /\ overrun' = overrun
    BY <1>9, <1>10 DEF AppendImage
  <1>12. ImageOf(f)'
    BY <1>1, <1>2, <1>5, <1>7, <1>8, <1>11 DEF ImageOf, base
  <1>13. FramesIntact' /\ pc' \notin Restart
    BY <1>1 DEF FrameInv, FramesIntact, Restart, PublishStates
  <1> QED
    BY <1>1, <1>4, <1>5, <1>11, <1>12, <1>13 DEF FrameInv

\* The other steps of the task, before it publishes, leave the frame where it is.
LEMMA FrameTask ==
    ASSUME TypeOK, PhaseInv, FrameInv, Aside \/ ZeroBuffer \/ ResetIdx,
           NEW f \in 0 .. NumFrames, ImageOf(f)
    PROVE  FrameInv' /\ ImageOf(f)'
  <1> DEFINE o == Other(active)
  <1>1. /\ sent' = sent /\ active' = active
        /\ image' = image /\ images' = images /\ overrun' = overrun
        /\ pc \notin PublishStates /\ pc' \notin Restart
    BY DEF Aside, CheckReady, FreeBuffer, ReadTick, Decide, ZeroBuffer, ResetIdx,
           Goto, NextBuffer, PublishStates, Restart, lineVars, imageVars
  <1>2. /\ active \in Buf /\ o \in Buf /\ o # active /\ cur \in Buf
    BY Types
  <1>3. Draining => Held /\ cur = o
    BY <1>1 DEF PhaseInv, Restart
  <1>4. idx'[active] = idx[active] /\ data'[active] = data[active]
    BY <1>2, <1>3 DEF TypeOK, Aside, CheckReady, FreeBuffer, ReadTick, Decide, ZeroBuffer,
       ResetIdx, Draining, lineVars
  <1>5. LineStart' = LineStart
    BY <1>1 DEF LineStart
  <1>6. /\ Waiting' <=> Waiting
        /\ Waiting => data'[o] = data[o]
    <2>1. CASE CheckReady
      BY <1>1, <2>1 DEF CheckReady, NextBuffer, Goto, Waiting, Held, lineVars
    <2>2. CASE ZeroBuffer \/ ResetIdx
      BY <1>1, <2>2 DEF ZeroBuffer, ResetIdx, Goto, Waiting, lineVars
    <2>3. CASE FreeBuffer
      <3>1. pc = "free" /\ cur = o /\ bufState'[o] = "FREE"
        BY <1>2, <1>3, <2>3 DEF FreeBuffer, Draining, TypeOK
      <3> QED
        BY <1>1, <3>1 DEF Waiting, Held
    <2>4. CASE ReadTick \/ Decide
      BY <1>1, <2>4 DEF ReadTick, Decide, Goto, Waiting, Held, lineVars
    <2> QED
      BY <2>1, <2>2, <2>3, <2>4 DEF Aside
  <1>7. ImageEnd' = ImageEnd
    BY <1>5, <1>6 DEF ImageEnd
  <1>8. ImageOf(f)'
    BY <1>1, <1>7 DEF ImageOf
  <1>9. pc' \in {"decide", "publish"} => image' # <<>>
    BY <1>1 DEF FrameInv, Aside, CheckReady, FreeBuffer, ReadTick, Decide, ZeroBuffer, ResetIdx,
           Goto, NextBuffer
  <1>10. FramesIntact'
    BY <1>1 DEF FrameInv, FramesIntact
  <1> HIDE DEF o
  <1>11. Waiting' => LineStart' - LineLen \in Nat
                     /\ data'[Other(active')] = Run(LineStart' - LineLen, LineStart')
    BY <1>1, <1>5, <1>6 DEF FrameInv, o
  <1> QED
    BY <1>1, <1>4, <1>5, <1>8, <1>9, <1>10, <1>11 DEF FrameInv

\* When the task publishes, the image is the whole frame.
LEMMA WholeFrame ==
    ASSUME TypeOK, PhaseInv, FrameInv, pc = "publish", NEW f \in 0 .. NumFrames, ImageOf(f)
    PROVE  /\ image = Frame(f + 1) /\ f + 1 \in 1 .. NumFrames
           /\ sent = (f + 1) * FrameLen /\ ~Held /\ sent % LineLen = 0
  <1>1. /\ sent \in Nat /\ image \in Seq(Nat)
        /\ Other(active) \in Buf /\ LineLen \in Nat \ {0} /\ FrameLen \in Nat \ {0}
    BY Types, Lengths DEF TypeOK
  <1>2. sent % FrameLen = 0 /\ ~Held
    BY <1>1 DEF PhaseInv, PublishStates, MidFrame, Drained, Held
  <1>3. sent % LineLen = 0
    BY <1>1, <1>2, LineInFrame
  <1>4. ImageEnd = sent
    BY <1>1, <1>2, <1>3 DEF LineStart, Waiting, ImageEnd
  <1> DEFINE base == f * FrameLen
             next == (f + 1) * FrameLen
  <1>5. /\ base \in Nat /\ base % FrameLen = 0 /\ next = base + FrameLen
        /\ Frame(f + 1) = Run(base, base + FrameLen)
    BY FrameEnds
  <1>6. base <= sent /\ image = Run(base, sent) /\ sent <= base + FrameLen
    BY <1>4 DEF ImageOf
  <1>7. f = NumFrames => base >= sent
    <2>1. NumFrames * FrameLen \in Nat /\ sent <= NumFrames * FrameLen
      BY Lengths DEF FrameInv
    <2> QED
      BY <1>1, <2>1
  <1> HIDE DEF base, next
  <1>8. base < sent
    <2>1. image # <<>>
      BY DEF FrameInv
    <2> QED
      BY <1>1, <1>5, <1>6, <2>1, RunEmpty
  <1>9. sent = base + FrameLen /\ sent = next
    BY <1>1, <1>2, <1>5, <1>6, <1>8, FrameGap
  <1>10. f + 1 \in 1 .. NumFrames
    BY <1>1, <1>5, <1>7, <1>8, Lengths
  <1> QED
    BY <1>2, <1>3, <1>5, <1>6, <1>9, <1>10 DEF next

\* So it becomes one of the published images, and the next one is that of the next frame.
LEMMA FramePublish ==
    ASSUME TypeOK, PhaseInv, FrameInv, Publish, NEW f \in 0 .. NumFrames, ImageOf(f)
    PROVE  FrameInv' /\ ImageOf(f + 1)' /\ f + 1 \in 0 .. NumFrames
  <1>1. /\ sent' = sent /\ data' = data /\ active' = active /\ bufState' = bufState
        /\ idx' = idx /\ overrun' = overrun /\ image' = <<>>
        /\ images' = images \/ images' = Append(images, image)
        /\ pc = "publish" /\ pc' = "rx_state1"
    BY DEF Publish, lineVars, Goto
  <1>2. /\ sent \in Nat /\ images \in Seq(Seq(Nat)) /\ FrameLen \in Nat \ {0}
    BY Types, Lengths DEF TypeOK
  <1> DEFINE next == (f + 1) * FrameLen
  <1>3. /\ image = Frame(f + 1) /\ f + 1 \in 1 .. NumFrames
        /\ sent = next /\ ~Held /\ sent % LineLen = 0
    BY <1>1, WholeFrame
  <1> HIDE DEF next
  <1>4. LineStart = sent /\ LineStart' = sent /\ ~Waiting /\ ~Waiting' /\ ImageEnd' = sent
    BY <1>1, <1>2, <1>3 DEF LineStart, Waiting, Held, ImageEnd
  <1>5. FramesIntact'
    <2> SUFFICES ASSUME NEW i \in 1 .. Len(images')
                 PROVE  \E g \in 1 .. NumFrames : images'[i] = Frame(g)
      BY DEF FramesIntact, Frame, Run
    <2>1. i \in 1 .. Len(images) => \E g \in 1 .. NumFrames : images[i] = Frame(g)
      BY DEF FrameInv, FramesIntact
    <2>2. CASE images' = images
      BY <2>1, <2>2
    <2>3. CASE images' = Append(images, image)
      <3>1. CASE i \in 1 .. Len(images)
        BY <1>2, <2>1, <2>3, <3>1
      <3>2. CASE i = Len(images) + 1
        BY <1>2, <1>3, <2>3, <3>2
      <3> QED
        BY <1>2, <2>3, <3>1, <3>2
    <2> QED
      BY <1>1, <2>2, <2>3
  <1>6. ImageOf(f + 1)'
    <2>1. Run(sent, sent) = <<>>
      BY <1>2, RunEmpty
    <2>2. /\ next <= ImageEnd' /\ image' = Run(next, ImageEnd') /\ sent' <= next + FrameLen
      BY <1>1, <1>2, <1>3, <1>4, <2>1
    <2> QED
      BY <2>2 DEF ImageOf, next
  <1>7. f + 1 \in 0 .. NumFrames
    BY <1>3
  <1> QED
    BY <1>1, <1>4, <1>5, <1>6, <1>7 DEF FrameInv

\* The restart clears two buffers in which there is nothing.
LEMMA FrameRestart ==
    ASSUME TypeOK, PhaseInv, FrameInv, StartRX, NEW f \in 0 .. NumFrames, ImageOf(f)
    PROVE  FrameInv' /\ ImageOf(f)'
  <1>1. /\ active \in Buf /\ Buf = {1, 2} /\ sent \in Nat /\ Other(1) = 2 /\ Other(2) = 1
        /\ LineLen \in Nat \ {0} /\ Other(active) \in Buf
    BY Types, Lengths DEF Other
  <1>2. /\ sent' = sent /\ image' = image /\ images' = images /\ overrun' = overrun
        /\ pc \in Restart /\ pc' \notin {"decide", "publish"}
    BY DEF StartRX, RxState1, RxState2, RxIdx, RxActive, RxZero, Goto, imageVars, Restart,
           PublishStates
  <1>3. sent % FrameLen = 0 /\ Drained /\ image = <<>>
    BY <1>2 DEF PhaseInv, MidFrame, Restart, FrameInv
  <1>4. sent % LineLen = 0
    BY <1>1, <1>3, LineInFrame
  <1>5. ~Held /\ ~Held'
    BY <1>1, <1>3 DEF Drained, Held, TypeOK, Other, StartRX, RxState1, RxState2, RxIdx,
                      RxActive, RxZero
  <1>6. LineStart = sent /\ LineStart' = sent /\ ~Waiting /\ ~Waiting'
    BY <1>1, <1>2, <1>4, <1>5 DEF LineStart, Waiting
  <1>7. ImageEnd' = ImageEnd
    BY <1>6 DEF ImageEnd
  <1>8. Run(sent, sent) = <<>>
    BY <1>1, RunEmpty
  <1>9. idx[active] = 0 /\ data[active] = <<>>
    BY <1>4, <1>6, <1>8 DEF FrameInv
  <1>10. idx'[active'] = 0 /\ data'[active'] = <<>>
    <2>1. CASE RxActive
      <3>1. pc = "rx_active" /\ active' = 1 /\ idx' = idx /\ data' = data
        BY <2>1 DEF RxActive
      <3>2. data[1] = <<>> /\ idx[1] = 0
        BY <3>1 DEF PhaseInv, Restart, PublishStates
      <3> QED
        BY <3>1, <3>2
    <2>2. CASE RxState1 \/ RxState2
      BY <1>9, <2>2 DEF RxState1, RxState2
    <2>3. ASSUME NEW b \in Buf, NEW from, NEW to, RxIdx(b, from, to) \/ RxZero(b, from, to)
          PROVE  idx'[active'] = 0 /\ data'[active'] = <<>>
      BY <1>1, <1>9, <2>3 DEF TypeOK, RxIdx, RxZero
    <2> QED
      BY <1>1, <2>1, <2>2, <2>3 DEF StartRX
  <1>11. ImageOf(f)'
    BY <1>2, <1>7 DEF ImageOf
  <1>12. FramesIntact'
    BY <1>2 DEF FrameInv, FramesIntact
  <1> QED
    BY <1>2, <1>3, <1>4, <1>6, <1>8, <1>10, <1>11, <1>12 DEF FrameInv

\* Every step keeps the frame together, and only Publish goes on to the next one.
LEMMA FrameStep ==
    ASSUME TaskPrompt, FramesSpaced, FrameLen <= ImageCap,
           TypeOK, PhaseInv, FrameInv, [Next]_vars, ~Publish,
           NEW f \in 0 .. NumFrames, ImageOf(f)
    PROVE  FrameInv' /\ ImageOf(f)'
  <1>1. CASE UartIsr
    BY <1>1, FrameIsr
  <1>2. CASE Tick \/ UNCHANGED vars
    <2>1. UNCHANGED <<sent, bufState, idx, data, active, pc, cur, image, overrun, images>>
      BY <1>2 DEF Tick, vars, lineVars, taskVars, imageVars
    <2> QED
      BY <2>1 DEF FrameInv, ImageOf, ImageEnd, LineStart, Waiting, Held, FramesIntact
  <1>3. CASE Aside \/ ZeroBuffer \/ ResetIdx
    BY <1>3, FrameTask
  <1>4. CASE AppendImage
    BY <1>4, FrameAppend
  <1>5. CASE StartRX
    BY <1>5, FrameRestart
  <1> QED
    BY <1>1, <1>2, <1>3, <1>4, <1>5 DEF Next, Task, Aside

\* Nothing has been sent when the task enters its loop.
LEMMA FrameInit == Init => FrameInv /\ ImageOf(0)
  <1> SUFFICES ASSUME Init PROVE FrameInv /\ ImageOf(0)
    OBVIOUS
  <1>1. /\ sent = 0 /\ pc = "check" /\ active = 1 /\ 1 \in Buf /\ Other(1) = 2 /\ 2 \in Buf
        /\ image = <<>> /\ images = <<>> /\ ~overrun
        /\ idx[1] = 0 /\ data[1] = <<>> /\ bufState[2] = "FREE"
    BY DEF Init, Buf, Other
  <1>2. 0 % LineLen = 0
    <2>1. 0 % LineLen \in Nat /\ 0 % LineLen <= 0
      BY Lengths, ModLe
    <2> QED
      BY <2>1
  <1>3. ~Waiting /\ LineStart = 0 /\ ImageEnd = 0
    BY <1>1, <1>2 DEF Waiting, Held, LineStart, ImageEnd
  <1>4. Run(0, 0) = <<>>
    BY RunEmpty
  <1>5. 0 * FrameLen = 0 /\ 0 \in 0 .. NumFrames /\ 0 <= FrameLen /\ 0 <= NumFrames * FrameLen
    BY Lengths
  <1>6. ImageOf(0)
    <2>1. 0 * FrameLen <= ImageEnd /\ sent <= 0 * FrameLen + FrameLen
      BY <1>1, <1>3, <1>5, Lengths
    <2>2. image = Run(0 * FrameLen, ImageEnd)
      BY <1>1, <1>3, <1>4, <1>5
    <2> QED
      BY <2>1, <2>2 DEF ImageOf
  <1> QED
    BY <1>1, <1>2, <1>3, <1>4, <1>5, <1>6 DEF FrameInv, FramesIntact, Restart, PublishStates

\* The image is always the beginning of some frame.
OfOneFrame == \E f \in 0 .. NumFrames : ImageOf(f)

\* The invariants together hold always.
LEMMA FrameAlways ==
    ASSUME TaskPrompt, FramesSpaced, MaxLag = 0, FrameLen <= ImageCap
    PROVE  Safety => []FrameInv
  <1>1. TypeOK /\ PhaseInv /\ FrameInv /\ OfOneFrame /\ [Next]_vars => FrameInv' /\ OfOneFrame'
    <2> SUFFICES ASSUME TypeOK, PhaseInv, FrameInv, [Next]_vars,
                        NEW f \in 0 .. NumFrames, ImageOf(f)
                 PROVE  FrameInv' /\ OfOneFrame'
      BY DEF OfOneFrame
    <2>1. CASE Publish
      <3>1. FrameInv' /\ ImageOf(f + 1)' /\ f + 1 \in 0 .. NumFrames
        BY <2>1, FramePublish
      <3> QED
        BY <3>1 DEF OfOneFrame
    <2>2. CASE ~Publish
      <3>1. FrameInv' /\ ImageOf(f)'
        BY <2>2, FrameStep
      <3> QED
        BY <3>1 DEF OfOneFrame
    <2> QED
      BY <2>1, <2>2
  <1>2. Init => FrameInv /\ OfOneFrame
    <2>1. 0 \in 0 .. NumFrames
      BY Lengths
    <2> QED
      BY <2>1, FrameInit DEF OfOneFrame
  <1> QED
    BY <1>1, <1>2, PhaseAlways, PTL DEF Safety

\* Each published image is one frame of the camera, complete and in order, when the
\* task keeps up with the lines, the operator waits for the modem, no interrupt
\* disturbs the reading of the clock and a frame fits into image_buffer.
THEOREM PublishedFramesIntact ==
    ASSUME TaskPrompt, FramesSpaced, MaxLag = 0, FrameLen <= ImageCap
    PROVE  Spec => []FramesIntact
  <1>1. FrameInv => FramesIntact
    BY DEF FrameInv
  <1> QED
    BY <1>1, FrameAlways, PTL DEF Spec, Safety

\* Under the same assumptions append_hex_chars never writes past image_buffer: the
\* image never grows beyond one frame.
THEOREM ImageNeverOverruns ==
    ASSUME TaskPrompt, FramesSpaced, MaxLag = 0, FrameLen <= ImageCap
    PROVE  Spec => []NoOverrun
  <1>1. FrameInv => NoOverrun
    BY DEF FrameInv, NoOverrun
  <1> QED
    BY <1>1, FrameAlways, PTL DEF Spec, Safety
=============================================================================
