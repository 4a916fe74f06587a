------------------------------ MODULE Pipeline ------------------------------
(***************************************************************************)
(* The way of a photo through the whole system: the camera's lines, the    *)
(* UART receiver of the modem (UartRx), the upload over MQTT, and the      *)
(* process that joins the image (ImageReceiver).                           *)
(*                                                                         *)
(* UartRx is extended: its action Publish, one step there, is here the end *)
(* of an upload that connects, sends chunk after chunk and may lose them.  *)
(* ImageReceiver is instantiated for its message handler, up to the image  *)
(* it joins; that MongoDB and the disk get it is left to that module.      *)
(*                                                                         *)
(* The MQTT session (MqttSession in detail) is seen from outside: a        *)
(* connection can die at any moment, and is noticed now or later.  A chunk *)
(* published meanwhile is lost, and so are those after it, for nothing     *)
(* reconnects during an upload.  The broker hands every chunk it gets to   *)
(* the receiver, if that one is connected: topics are not retained, and it *)
(* subscribes with quality of service 0.  The receiver's client reconnects *)
(* by itself and keeps the chunks it has; only a new process begins with   *)
(* none.                                                                   *)
(*                                                                         *)
(* missed is a history variable: no action depends on it.                  *)
(***************************************************************************)
EXTENDS UartRx

CONSTANTS
    ChunkLen,     \* the 256 bytes of a chunk, in fragments
    TotalChunks,  \* TOTAL_CHUNKS of the receiver
    MaxRetries,   \* the 3 attempts to reconnect
    MaxFailures,  \* bound: times a connection dies or is closed
    MaxOutages    \* bound: times the receiver is disconnected or ends

ASSUME PipelineAssumption ==
    /\ {ChunkLen, TotalChunks} \subseteq Nat \ {0}
    /\ {MaxRetries, MaxFailures, MaxOutages} \subseteq Nat

VARIABLES
    link,         \* "up", "dead" (isconnected, but nothing arrives), "closed"
    failures,     \* connections that have died or were closed
    up,           \* where HT_PUBLISH_CHUNK is
    retries,      \* retry_count
    published,    \* published, in fragments
    handled,      \* images dealt with
    client,       \* the receiver: "online", "offline", "ended"
    outages,      \* times it was disconnected or ended
    missed,       \* chunks were published without it, which may still show in an image
    chunks,       \* its dictionary
    joined        \* the images it has joined

uploadVars == <<link, failures, up, retries, published, handled>>
receiverVars == <<client, outages, missed, chunks, joined>>
allVars == <<vars, uploadVars, receiverVars>>

\* The chunk of image s that begins after its first n fragments.
ChunkAt(s, n) == SubSeq(s, n + 1, IF n + ChunkLen < Len(s) THEN n + ChunkLen ELSE Len(s))

\* The whole image s as the receiver joins it.
ChunksOf(s) ==
    [i \in 1 .. (Len(s) + ChunkLen - 1) \div ChunkLen |->
        <<ChunkAt(s, (i - 1) * ChunkLen), i - 1>>]

\* Frames that end in a short chunk, and have fewer chunks than the receiver
\* expects: its fallback joins them, and what a damaged frame left is replaced
\* before.  The 75 full chunks of the camera's 160 x 120 pictures are not such.
ShortFrames == FrameLen % ChunkLen # 0 /\ FrameLen \div ChunkLen + 1 < TotalChunks

\* A payload is the content of the chunk, and whether it is a short one.
Payload == [frame |-> ChunkAt(image, published), short |-> published + ChunkLen > Len(image)]

Receiver == INSTANCE ImageReceiver WITH
    images <- joined, Scenarios <- {}, scenario <- {}, restarts <- outages,
    frame <- handled + 1, shape <- [n |-> 1, short |-> TRUE], next <- published,
    whole <- TRUE, lost <- 0, delivered <- {},
    inMongo <- {}, onDisk <- {}, named <- {}

PipelineInit ==
    /\ Init
    /\ link = "up" /\ failures = 0 /\ up = "ensure" /\ retries = 0 /\ published = 0 /\ handled = 0
    /\ client = "online" /\ outages = 0 /\ missed = FALSE
    /\ chunks = Receiver!Empty /\ joined = <<>>

-----------------------------------------------------------------------------
(* The modem receives from the camera: every step of UartRx but Publish.   *)

Receive ==
    /\ \/ CheckReady \/ AppendImage \/ ZeroBuffer \/ ResetIdx \/ FreeBuffer
       \/ ReadTick \/ Decide \/ StartRX
    /\ UNCHANGED <<uploadVars, receiverVars>>

Interrupt == (UartIsr \/ Tick) /\ UNCHANGED <<uploadVars, receiverVars>>

-----------------------------------------------------------------------------
(* The modem publishes.                                                    *)

UpGoto(from, to) == pc = "publish" /\ up = from /\ up' = to

\* while (!isconnected && retry_count < 3): one attempt, which may fail.
Reconnect ==
    /\ UpGoto("ensure", "ensure")
    /\ link = "closed" /\ retries < MaxRetries
    /\ \/ link' = "up" /\ UNCHANGED retries
       \/ retries' = retries + 1 /\ UNCHANGED link
    /\ UNCHANGED <<vars, failures, published, handled, receiverVars>>

\* The loop ends, with a connection or without.
EndRetries ==
    /\ UpGoto("ensure", "decide")
    /\ link # "closed" \/ retries = MaxRetries
    /\ UNCHANGED <<vars, link, failures, retries, published, handled, receiverVars>>

\* if (!isconnected): the image is discarded.  The session may have been closed
\* since the loop ended.
Commence ==
    /\ UpGoto("decide", IF link = "closed" THEN "discard" ELSE "send")
    /\ published' = 0
    /\ UNCHANGED <<vars, link, failures, retries, handled, receiverVars>>

Arrives == link = "up" /\ client = "online"

\* One turn of the upload loop: the result of the publication does not matter
\* to it.  A write to a dead connection may fail, and then closes the session.
PublishChunk ==
    /\ UpGoto("send", "send") /\ published < Len(image)
    /\ published' = published + Len(ChunkAt(image, published))
    /\ link' \in IF link = "dead" THEN {"dead", "closed"} ELSE {link}
    /\ \/ Arrives /\ Receiver!OnMessage(published \div ChunkLen, Payload) /\ UNCHANGED missed
       \/ ~Arrives /\ missed' = TRUE /\ UNCHANGED <<chunks, joined>>
    /\ UNCHANGED <<vars, failures, retries, handled, client, outages>>

\* The loop has ended: published = image_len.
Sent == up = "send" /\ published = Len(image)

\* Publish of UartRx: image_len = 0, and then HT_USART_StartRX.
EndUpload ==
    /\ Sent \/ up = "discard"
    /\ Publish
    /\ images' = IF up = "send" THEN Append(images, image) ELSE images
    /\ up' = "ensure" /\ retries' = 0 /\ handled' = handled + 1
    /\ missed' = (missed /\ ~ShortFrames)
    /\ UNCHANGED <<link, failures, published, client, outages, chunks, joined>>

Upload == Reconnect \/ EndRetries \/ Commence \/ PublishChunk \/ EndUpload

-----------------------------------------------------------------------------
(* The connection and the receiver's process.                              *)

LinkDies ==
    /\ link = "up" /\ failures < MaxFailures
    /\ link' = "dead" /\ failures' = failures + 1
    /\ UNCHANGED <<vars, up, retries, published, handled, receiverVars>>

\* A reader thread or the keep-alive closes the session, also a healthy one:
\* a receive timeout does.
SessionCloses ==
    /\ link = "dead" \/ (link = "up" /\ failures < MaxFailures)
    /\ link' = "closed"
    /\ failures' = IF link = "up" THEN failures + 1 ELSE failures
    /\ UNCHANGED <<vars, up, retries, published, handled, receiverVars>>

\* The receiver loses its connection: the dictionary stays, the chunks published
\* meanwhile are missed.
ClientDisconnects ==
    /\ client = "online" /\ outages < MaxOutages
    /\ client' = "offline" /\ outages' = outages + 1
    /\ UNCHANGED <<vars, uploadVars, missed, chunks, joined>>

\* The thread of loop_start connects again, and on_connect subscribes.
ClientReconnects ==
    /\ client = "offline" /\ client' = "online"
    /\ UNCHANGED <<vars, uploadVars, outages, missed, chunks, joined>>

\* The process ends: its dictionary is gone, what it stored stays.
ReceiverEnds ==
    /\ client # "ended" /\ outages < MaxOutages
    /\ client' = "ended" /\ outages' = outages + 1
    /\ chunks' = Receiver!Empty
    /\ UNCHANGED <<vars, uploadVars, missed, joined>>

\* The upload is neither at its beginning nor at its end.
MidUpload == up = "send" /\ published \in 1 .. Len(image) - 1

\* It is started again, with an empty dictionary, and subscribes.
ReceiverStarts ==
    /\ client = "ended" /\ client' = "online"
    /\ missed' = MidUpload
    /\ UNCHANGED <<vars, uploadVars, outages, chunks, joined>>

World ==
    \/ LinkDies \/ SessionCloses
    \/ ClientDisconnects \/ ClientReconnects \/ ReceiverEnds \/ ReceiverStarts

-----------------------------------------------------------------------------

ModemTask == Receive \/ Upload

PipelineNext ==
    /\ ~overrun
    /\ Interrupt \/ ModemTask \/ World

\* As in UartRx; the upload is part of the task.
PipelineFairness ==
    /\ WF_allVars(~overrun /\ ModemTask)
    /\ SF_allVars(~overrun /\ Tick /\ UNCHANGED <<uploadVars, receiverVars>>)
    /\ WF_allVars(~overrun /\ MidFrame /\ UartIsr /\ UNCHANGED <<uploadVars, receiverVars>>)

PipelineSpec == PipelineInit /\ [][PipelineNext]_allVars /\ PipelineFairness

-----------------------------------------------------------------------------
(* Properties.                                                             *)

\* The frames of the camera in chunks.
FrameChunks == [f \in 1 .. NumFrames |-> ChunksOf(Frame(f))]

\* The frame a chunk is of: the fragments of all frames are numbered through.
FrameOfChunk(content) == (content[1] - 1) \div FrameLen + 1

\* The frame an image is of: that of its newest chunk.
FrameOf(img) ==
    CHOOSE f \in 1 .. NumFrames :
        /\ \E k \in 1 .. Len(img) : FrameOfChunk(img[k][1]) = f
        /\ \A k \in 1 .. Len(img) : FrameOfChunk(img[k][1]) <= f

\* It has all chunks of that frame, in order, or as many as the receiver expects;
\* only after these can others stand.
IsWhole(img) ==
    LET frame == FrameChunks[FrameOf(img)]
    IN  /\ Len(img) <= Len(frame)
        /\ \A k \in 1 .. Len(frame) : k <= TotalChunks => k <= Len(img) /\ img[k] = frame[k]

Delivery == INSTANCE FrameDelivery WITH
    Heals <- ShortFrames,
    taken <- sent \div FrameLen,
    stored <- [k \in 1 .. Len(joined) |-> [frame |-> FrameOf(joined[k]), whole |-> IsWhole(joined[k])]]

\* The pipeline implements FrameDelivery: with photos taken while the modem is
\* idle, an image has chunks of the frame being published and none of a later
\* one; there is at most one of each frame, in the order the frames were taken;
\* and an image is whole unless the receiver has missed chunks - of this frame,
\* if the frames are short, of any since it was started, if they are not -
\* however connections die and the receiver restarts.
DeliversFrames == Delivery!Safety

\* The modem has done with each frame in the end, whatever becomes of it.
FramesFinish == Delivery!Progress
=============================================================================
