------------------------------- MODULE UartRx -------------------------------
(***************************************************************************)
(* The UART receiver of the modem firmware: the interrupt handler          *)
(* HT_USART_Callback fills two ping-pong buffers while the task HT_Fsm     *)
(* drains them into image_buffer, declares the image complete after a      *)
(* silence on the line, publishes it and restarts the receiver.            *)
(*                                                                         *)
(* There is one core.  The handler runs to completion and may run between  *)
(* any two statements of the task, so it is one action, and the task is    *)
(* split at every statement that touches the shared state.                 *)
(*                                                                         *)
(* Data.  The bytes one interrupt finds in the UART FIFO are one fragment, *)
(* and fragments are numbered 1, 2, 3, ... in the order the camera sends   *)
(* them: LineLen fragments make a line, the last one carrying the newline, *)
(* and FrameLines lines make a frame.                                      *)
(*                                                                         *)
(* Time.  silence is osKernelGetTickCount() - last_rx_time and lag is the  *)
(* age of the tick count the task has read and not used yet, so the        *)
(* difference the task computes is silence - lag, in unsigned arithmetic.  *)
(*                                                                         *)
(* NoPause, StoreUnchecked, NextBufferForever, AppendWholeBuffer,          *)
(* ZeroBufferSkipped, SilenceExpiredEarly, DecideRestartsClock,            *)
(* PublishKeepsImage and RxActiveForgotten are faulty variants of the      *)
(* definition after them: no behaviour uses them, they show that some      *)
(* property notices the fault.                                             *)
(***************************************************************************)
EXTENDS Integers, Sequences

CONSTANTS
    LineLen,      \* fragments in a line (1026 characters, about 35 interrupts)
    FrameLines,   \* lines in a frame (numPacotes)
    NumFrames,    \* bound: frames the camera takes
    ChunkCap,     \* USART_CHUNK_BUFFER_SIZE, in fragments
    ImageCap,     \* sizeof image_buffer, in fragments
    Timeout,      \* the 4000 ticks of silence that end an image
    TickMod,      \* modulus of the tick arithmetic (2^32 in the code)
    MaxLag,       \* bound: ticks between the reads of the tick and last_rx_time
    TaskPrompt,   \* the task, unless it publishes, runs every 10 ms or so
    FramesSpaced  \* the operator takes a photo only when the modem is idle

ASSUME ConstantsAssumption ==
    /\ {LineLen, FrameLines, NumFrames} \subseteq Nat \ {0}
    /\ {ChunkCap, ImageCap, Timeout, TickMod} \subseteq Nat \ {0}
    /\ MaxLag \in Nat
    /\ LineLen < ChunkCap
    /\ Timeout + MaxLag + 1 < TickMod
    /\ {TaskPrompt, FramesSpaced} \subseteq BOOLEAN

VARIABLES
    sent,         \* fragments the camera has sent, the number of the last one
    bufState,     \* buf1_state, buf2_state
    idx,          \* buf1_idx, buf2_idx
    data,         \* the fragments below idx that memset has not cleared
    active,       \* active_buf_idx
    pc, cur,      \* where the task is, and the buffer it looks at
    image,        \* image_buffer[0 .. image_len - 1]
    overrun,      \* append_hex_chars has written past the end of image_buffer
    images,       \* the images handed to the MQTT upload so far
    silence, lag

lineVars == <<bufState, idx, data, active>>
taskVars == <<pc, cur>>
imageVars == <<image, overrun, images>>
timeVars == <<silence, lag>>
vars == <<sent, lineVars, taskVars, imageVars, timeVars>>

Buf == {1, 2}
Other(b) == 3 - b
FrameLen == LineLen * FrameLines

\* The fragments lo+1, ..., hi, in order.
Run(lo, hi) == [i \in 1 .. (hi - lo) |-> lo + i]

\* The fragments of the f-th frame, as the camera sent them.
Frame(f) == Run((f - 1) * FrameLen, f * FrameLen)

EndsLine(u) == u % LineLen = 0
MidLine == sent % LineLen # 0
MidFrame == sent % FrameLen # 0

PublishStates == {"publish", "rx_state1", "rx_state2", "rx_idx1", "rx_idx2",
                  "rx_active", "rx_zero1", "rx_zero2"}
PcStates == {"check", "append", "zero", "idx", "free", "timer", "decide"}
            \union PublishStates

\* No buffer waits for the task.
Drained == \A b \in Buf : bufState[b] # "READY"

\* The task waits for an image and has nothing of one.
Idle == pc \notin PublishStates /\ image = <<>> /\ Drained

-----------------------------------------------------------------------------

\* HT_Fsm has run HT_USART_StartRX once and entered its loop.
Init ==
    /\ sent = 0
    /\ bufState = [b \in Buf |-> IF b = 1 THEN "RECEIVING" ELSE "FREE"]
    /\ idx = [b \in Buf |-> 0]
    /\ data = [b \in Buf |-> <<>>]
    /\ active = 1
    /\ pc = "check" /\ cur = 1
    /\ image = <<>> /\ overrun = FALSE /\ images = <<>>
    /\ silence = 0 /\ lag = 0

-----------------------------------------------------------------------------
(* The interrupt handler and the tick.                                     *)

NoPause == TRUE

\* Of a task that runs every 10 ms nothing waits at the end of a pause of the
\* camera (300 ms), let alone of a silence of Timeout.
TaskKeepsUp == (TaskPrompt /\ pc \notin PublishStates) => Drained

\* When the camera and its operator send the next fragment: inside a line the
\* characters follow each other; a line follows the 300 ms pause that ends the
\* one before, and a frame the operator's next command.
CameraSends ==
    /\ sent < NumFrames * FrameLen
    /\ ~MidLine => TaskKeepsUp
    /\ (FramesSpaced /\ ~MidFrame) => Idle

StoreUnchecked(u) ==
    [idx  |-> [idx EXCEPT ![active] = @ + 1],
     data |-> [data EXCEPT ![active] = Append(@, u)]]

\* idx and data after the handler copied fragment u to the active buffer, if
\* buf_idx + len < USART_CHUNK_BUFFER_SIZE, and otherwise dropped it.
Store(u) ==
    IF idx[active] + 1 < ChunkCap
    THEN [idx  |-> [idx EXCEPT ![active] = @ + 1],
          data |-> [data EXCEPT ![active] = Append(@, u)]]
    ELSE [idx |-> idx, data |-> data]

\* The handler switches to the other buffer only if that one is free.
MaySwitch == bufState[Other(active)] = "FREE"

\* HT_USART_Callback: one fragment arrives.
UartIsr ==
    /\ CameraSends
    /\ sent' = sent + 1
    /\ LET stored == Store(sent + 1)
       IN \/ /\ ~EndsLine(sent + 1)
             /\ idx' = stored.idx /\ data' = stored.data
             /\ UNCHANGED <<bufState, active>>
          \/ /\ EndsLine(sent + 1) /\ MaySwitch
             /\ bufState' = [b \in Buf |-> IF b = active THEN "READY" ELSE "RECEIVING"]
             /\ idx' = [stored.idx EXCEPT ![Other(active)] = 0]
             /\ data' = [stored.data EXCEPT ![Other(active)] = <<>>]
             /\ active' = Other(active)
          \/ /\ EndsLine(sent + 1) /\ ~MaySwitch
             /\ bufState' = [bufState EXCEPT ![active] = "READY"]
             /\ idx' = stored.idx /\ data' = stored.data
             /\ UNCHANGED active
    /\ silence' = 0
    /\ UNCHANGED <<taskVars, imageVars, lag>>

\* The tick interrupt.  The camera pauses 300 ms between lines, so a frame in
\* progress never lets the line fall silent for the 4 seconds of Timeout.
\* silence stops at a value past Timeout whatever lag is subtracted.
Tick ==
    /\ (MidFrame \/ ~TaskKeepsUp) => silence < Timeout
    /\ pc = "decide" => lag < MaxLag
    /\ silence < Timeout + MaxLag + 1 \/ pc = "decide"
    /\ silence' = IF silence < Timeout + MaxLag + 1 THEN silence + 1 ELSE silence
    /\ lag' = IF pc = "decide" THEN lag + 1 ELSE lag
    /\ UNCHANGED <<sent, lineVars, taskVars, imageVars>>

-----------------------------------------------------------------------------
(* The task, state HT_WAIT_FOR_UART_CHUNK.                                 *)

Goto(label) == pc' = label /\ UNCHANGED cur

NextBufferForever == pc' = "check" /\ cur' = cur + 1

\* The first buffer done, look at the second; both done, look at the clock.
NextBuffer ==
    IF cur = 1 THEN pc' = "check" /\ cur' = 2 ELSE pc' = "timer" /\ cur' = 1

\* if (bufN_state == BUF_READY)
CheckReady ==
    /\ pc = "check"
    /\ IF bufState[cur] = "READY" THEN Goto("append") ELSE NextBuffer
    /\ UNCHANGED <<sent, lineVars, imageVars, timeVars>>

AppendWholeBuffer ==
    /\ pc = "append"
    /\ Goto("zero")
    /\ overrun' = (Len(image) + ChunkCap > ImageCap)
    /\ image' = image \o data[cur]
    /\ UNCHANGED <<sent, lineVars, images, timeVars>>

\* append_hex_chars of the bytes below bufN_idx, then the clamp of copied.
\* Copying more than image_buffer holds is undefined behaviour: overrun.
AppendImage ==
    /\ pc = "append"
    /\ Goto("zero")
    /\ IF Len(image) < ImageCap
       THEN LET longer == image \o data[cur]
            IN IF Len(longer) > ImageCap
               THEN image' = SubSeq(longer, 1, ImageCap) /\ overrun' = TRUE
               ELSE image' = longer /\ UNCHANGED overrun
       ELSE UNCHANGED <<image, overrun>>
    /\ UNCHANGED <<sent, lineVars, images, timeVars>>

ZeroBufferSkipped ==
    /\ pc = "zero"
    /\ Goto("free")
    /\ UNCHANGED <<sent, lineVars, imageVars, timeVars>>

\* memset of the buffer: cleared bytes are no hexadecimal digits.
ZeroBuffer ==
    /\ pc = "zero"
    /\ Goto("idx")
    /\ data' = [data EXCEPT ![cur] = <<>>]
    /\ UNCHANGED <<sent, bufState, idx, active, imageVars, timeVars>>

\* bufN_idx = 0: what the handler stored since the copy is lost.
ResetIdx ==
    /\ pc = "idx"
    /\ Goto("free")
    /\ idx' = [idx EXCEPT ![cur] = 0]
    /\ data' = [data EXCEPT ![cur] = <<>>]
    /\ UNCHANGED <<sent, bufState, active, imageVars, timeVars>>

\* bufN_state = BUF_FREE
FreeBuffer ==
    /\ pc = "free"
    /\ NextBuffer
    /\ bufState' = [bufState EXCEPT ![cur] = "FREE"]
    /\ UNCHANGED <<sent, idx, data, active, imageVars, timeVars>>

\* image_len > 0 && ..., and the call of osKernelGetTickCount.
ReadTick ==
    /\ pc = "timer"
    /\ Goto(IF image # <<>> THEN "decide" ELSE "check")
    /\ lag' = 0
    /\ UNCHANGED <<sent, lineVars, imageVars, silence>>

SilenceExpiredEarly == (silence - lag) % TickMod >= Timeout - 1

\* ... - last_rx_time > 4000, in unsigned arithmetic.
SilenceExpired == (silence - lag) % TickMod > Timeout

DecideRestartsClock ==
    /\ pc = "decide"
    /\ Goto(IF SilenceExpired THEN "publish" ELSE "check")
    /\ lag' = 0 /\ silence' = 0
    /\ UNCHANGED <<sent, lineVars, imageVars>>

Decide ==
    /\ pc = "decide"
    /\ Goto(IF SilenceExpired THEN "publish" ELSE "check")
    /\ lag' = 0
    /\ UNCHANGED <<sent, lineVars, imageVars, silence>>

-----------------------------------------------------------------------------
(* The task, state HT_PUBLISH_CHUNK.                                       *)

PublishKeepsImage ==
    /\ pc = "publish"
    /\ Goto("rx_state1")
    /\ images' \in {images, Append(images, image)}
    /\ silence' = 0
    /\ UNCHANGED <<sent, lineVars, image, overrun, lag>>

\* The upload, which takes half a second per 256 bytes, has ended or has been
\* given up because the broker could not be reached; image_len = 0 and
\* last_rx_time = now.  While pc is "publish" only the handler and the tick run.
Publish ==
    /\ pc = "publish"
    /\ Goto("rx_state1")
    /\ images' \in {images, Append(images, image)}
    /\ image' = <<>>
    /\ silence' = 0
    /\ UNCHANGED <<sent, lineVars, overrun, lag>>

\* The statements of HT_USART_StartRX, with the UART interrupt enabled since
\* the first call.  The last memset and the register writes change nothing here.
RxState1 ==
    /\ pc = "rx_state1" /\ Goto("rx_state2")
    /\ bufState' = [bufState EXCEPT ![1] = "RECEIVING"]
    /\ UNCHANGED <<sent, idx, data, active, imageVars, timeVars>>

RxState2 ==
    /\ pc = "rx_state2" /\ Goto("rx_idx1")
    /\ bufState' = [bufState EXCEPT ![2] = "FREE"]
    /\ UNCHANGED <<sent, idx, data, active, imageVars, timeVars>>

RxIdx(b, from, to) ==
    /\ pc = from /\ Goto(to)
    /\ idx' = [idx EXCEPT ![b] = 0]
    /\ data' = [data EXCEPT ![b] = <<>>]
    /\ UNCHANGED <<sent, bufState, active, imageVars, timeVars>>

RxActiveForgotten ==
    /\ pc = "rx_active" /\ Goto("rx_zero1")
    /\ UNCHANGED <<sent, lineVars, imageVars, timeVars>>

RxActive ==
    /\ pc = "rx_active" /\ Goto("rx_zero1")
    /\ active' = 1
    /\ UNCHANGED <<sent, bufState, idx, data, imageVars, timeVars>>

RxZero(b, from, to) ==
    /\ pc = from /\ Goto(to)
    /\ data' = [data EXCEPT ![b] = <<>>]
    /\ UNCHANGED <<sent, bufState, idx, active, imageVars, timeVars>>

StartRX ==
    \/ RxState1 \/ RxState2
    \/ RxIdx(1, "rx_idx1", "rx_idx2") \/ RxIdx(2, "rx_idx2", "rx_active")
    \/ RxActive
    \/ RxZero(1, "rx_zero1", "rx_zero2") \/ RxZero(2, "rx_zero2", "check")

-----------------------------------------------------------------------------

Task ==
    \/ CheckReady \/ AppendImage \/ ZeroBuffer \/ ResetIdx \/ FreeBuffer
    \/ ReadTick \/ Decide
    \/ Publish \/ StartRX

\* After an overrun the behaviour of the program is undefined: nothing is said.
Next == ~overrun /\ (UartIsr \/ Tick \/ Task)

\* The scheduler runs the task, the tick counts, and a line or frame that has
\* begun goes on.  Whether another frame begins is up to the operator.
Fairness ==
    /\ WF_vars(~overrun /\ Task)
    /\ SF_vars(~overrun /\ Tick)
    /\ WF_vars(~overrun /\ MidFrame /\ UartIsr)

Spec == Init /\ [][Next]_vars /\ Fairness

-----------------------------------------------------------------------------
(* Properties.                                                             *)

TypeOK ==
    /\ sent \in Nat
    /\ bufState \in [Buf -> {"FREE", "RECEIVING", "READY"}]
    /\ idx \in [Buf -> Nat]
    /\ data \in [Buf -> Seq(Nat)]
    /\ active \in Buf
    /\ pc \in PcStates /\ cur \in Buf
    /\ image \in Seq(Nat) /\ overrun \in BOOLEAN /\ images \in Seq(Seq(Nat))
    /\ silence \in Nat /\ lag \in Nat

\* Every fragment of s is older than every fragment of t.
Before(s, t) == \A k \in 1 .. Len(s), m \in 1 .. Len(t) : s[k] < t[m]

\* Nothing arrives twice: an image only holds fragments that came after every
\* fragment of the images before it, so publishing and restarting the receiver
\* (image_len = 0, HT_USART_StartRX) leave nothing of the old image behind.
ImagesSeparate ==
    \A i \in 1 .. Len(images) :
        /\ Before(images[i], image)
        /\ \A j \in 1 .. Len(images) : i < j => Before(images[i], images[j])

LineOf(u) == (u - 1) \div LineLen

\* Whatever the handler and the task do to each other, the fragments of one
\* line keep their order in the image, and none is there twice: the drain may
\* lose data, it never scrambles a line.
LinesInOrder ==
    \A k, m \in 1 .. Len(image) :
        (k < m /\ LineOf(image[k]) = LineOf(image[m])) => image[k] < image[m]

\* The whole image is in the order the camera sent it: buffer 1 is drained
\* before buffer 2 without looking which is older, so this needs the pause
\* between the lines.
ImageInOrder ==
    \A k, m \in 1 .. Len(image) : k < m => image[k] < image[m]

\* bufN_idx stays inside the buffer, with the room the handler's test leaves,
\* and never counts less than what the buffer holds.
BufferBounds == \A b \in Buf : Len(data[b]) <= idx[b] /\ idx[b] < ChunkCap

\* Outside HT_USART_StartRX exactly one buffer receives: the other one is free
\* and empty or waits for the task.  If it were left RECEIVING nobody would
\* ever free it and the handler could not switch to it again.
PingPong ==
    pc \notin PublishStates \ {"publish"} =>
        /\ bufState[active] = "RECEIVING"
        /\ bufState[Other(active)] # "RECEIVING"
        /\ bufState[Other(active)] = "FREE" => idx[Other(active)] = 0

\* Each image that is published is one frame of the camera: all of it, in
\* order, and nothing of another.
FramesIntact ==
    \A i \in 1 .. Len(images) : \E f \in 1 .. NumFrames : images[i] = Frame(f)

\* append_hex_chars stays inside image_buffer.
NoOverrun == ~overrun

\* "4 seconds without data from the camera = reception complete": the task
\* takes the image for complete only if the line has been silent that long.
CompleteAfterSilence ==
    [][pc = "decide" /\ pc' = "publish" => silence > Timeout]_vars

\* An image that has begun leaves the buffer again, published or discarded.
ImageLeaves == (image # <<>>) ~> (image = <<>> \/ overrun)
=============================================================================
