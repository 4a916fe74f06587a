# TLA+ models of NB-IoT EspCam

An ESP32-CAM takes a grey 160 x 120 picture and sends it, as lines of
hexadecimal digits, over a UART to an HTNB32L NB-IoT modem.  The modem's
firmware (FreeRTOS) collects the picture, waits for the line to fall silent and
publishes it over MQTT in chunks of 256 bytes.  A Python process collects the
chunks, joins them and stores the picture in MongoDB and on disk; a Flask page
shows what is stored.

    ESP32-CAM --UART, 115200 baud--> modem firmware --MQTT, QoS 0--> broker
     main.ino                        EspCam_MQTT         nb-iot-espcam/chunck/<n>
                                                                       |
            web_dashboard.py <--MongoDB-- mqtt_receiver.py <-----------+
                                          (and output/*.jpg)

Paths below are relative to the repository; `EspCam_MQTT/` stands for
`Firmware/Applications/EspCam_MQTT/Src/` and `MQTT/` for
`Firmware/SDK/Thirdparty/MQTT/`.


## 1. Inventory

| part | state it keeps | operations | what is hard about it |
|---|---|---|---|
| Camera (`Firmware/Esp32-CAM/main/main.ino`) | none between frames | on the operator's command: take a picture, send its lines, 300 ms apart | it does not know whether the modem listens |
| UART receiver (`EspCam_MQTT/HT_USART_Demo.c`, `HT_Fsm.c` lines 121-168) | two ping-pong buffers with a state and an index each, the active one, `last_rx_time`, `image_buffer` | interrupt `HT_USART_Callback`; task: drain, time-out, restart | interrupts between any two statements of the task; a clock read while the handler writes it; bounds |
| MQTT session (`HT_Fsm.c` lines 29-110 and 170-242, `HT_MQTT_Api.c`, `MQTT/MQTTClient`, `MQTT/FreeRTOS`) | `isconnected`, `ping_outstanding`, the timers, `readbuf`, `my_socket` | reconnect, publish, `MQTTYield`, `MQTTRun`, `cycle`, `readPacket`, `keepalive`, `waitfor` | three threads on one client without a lock; the broker may be silent, refuse, close, reset |
| Sending (`MQTT/MQTTPacket`, `sendPacket`, `FreeRTOS_write`) | the one send buffer `c->buf` | serialise, write | three threads write into the buffer; partial writes; length code |
| Boot (`EspCam_MQTT/main.c`, `HT_Fsm.c` lines 112-127, `HT_MQTT_Api.c`) | event queue, SIM flag, the queue of reconnect messages | event callback, main task, start of `HT_Fsm` | order of registration and creation; a failed first connection; a queue without a receiver |
| UART driver (`Firmware/SDK/HT_API/Driver_UART`) | FIFO, the buffer it was given | `HAL_USART_Receive_IT`, `USART_IRQHandler` | a late interrupt; an interrupt before there is a buffer |
| Image receiver (`Software/scripts/mqtt_receiver.py`, `Software/core/db_manager.py`) | the dictionary of chunks | `on_message`, `tentar_montar_imagem`, `processar_imagem` | lost chunks, frames of any length, restarts, the database out of reach |
| Dashboard (`Software/scripts/web_dashboard.py`) | the connection made at start-up | read-only pages | a stale connection |
| LED, GPIO, board; SPI and I2C drivers; start-up; local tools | registers, flags | pure I/O, or not used by the application | - |

How they interact.  The camera and the modem share nothing but the line: no
acknowledgement, no flow control.  The handler and the task share the two
buffers and `last_rx_time`, without disabling the interrupt.  The task and the
two reader threads share the MQTT client and its socket; `mqttMutex1` is taken
by one of them only, and the client's own mutex exists in TLS builds only.  The
modem and the receiver share the topic: the index of a chunk is in its name, the
frame it belongs to is not said anywhere.

What makes each part correct:

* UART receiver: a published image is one frame, all of it, in order; no write
  leaves a buffer; the two buffers stay in step; an image is complete only after
  four seconds of silence; an image that has begun leaves the buffer again.
* MQTT session: `isconnected` means that `my_socket` is open and that the broker has
  answered the CONNECT on it (that it has accepted it would be better, and is not quite
  true: finding 3); chunks go to such connections only, and those written of an image are
  its first ones; sockets do not leak; a dead session is noticed; the task comes back to
  the camera.
* Image receiver: a frame that arrives whole is joined as it was sent; no chunk is
  used twice; left-over chunks stand only at the end of an image.
* Send buffer: a chunk that reaches the receiver is the chunk that was serialised,
  whatever the other threads write into the buffer meanwhile.
* Boot: once there is a queue, news of the network starts the application or leads to
  its one place of giving up; the camera is heard only when the session has readers.
* All of it: an image is of a frame that was taken, there is at most one of each, in the
  order they were taken, and it is a whole frame unless the receiver has missed chunks.

`PROJECT.json` lists the components with their status, and under `hazards` what
a test would hardly reach in each of them, at its line.


## 2. Modules

### UartRx - the receiver of the modem

One core: the handler runs to completion and may come between any two
statements of the task.  So `UartIsr` is one action and the task is split at every
statement that touches shared state.

| model | code |
|---|---|
| `UartIsr`, `Store`, `MaySwitch` | `HT_USART_Callback`: copy if it fits, newline, switch to the other buffer if it is free |
| `CheckReady`, `AppendImage`, `ZeroBuffer`, `ResetIdx`, `FreeBuffer` | the drain of buffer `cur` in `HT_WAIT_FOR_UART_CHUNK` |
| `ReadTick`, `Decide`, `SilenceExpired` | `osKernelGetTickCount() - last_rx_time > 4000` |
| `Publish` | the upload of `HT_PUBLISH_CHUNK` seen from here: it takes any time, may be given up, and ends with `image_len = 0` |
| `RxState1` ... `RxZero` (`StartRX`) | `HT_USART_StartRX`, statement by statement |
| `CameraSends`, `Tick` | the camera's pauses, the tick interrupt |

Data are fragments: the bytes one interrupt finds in the FIFO, numbered in the
order the camera sends them.  `LineLen` of them make a line (the last holds the
newline), `FrameLines` lines a frame.  A fragment is a whole number of image
bytes; how `append_hex_chars` pairs digits is in `UartDriver`.  Time is `silence`
(how old `last_rx_time` is) and `lag` (how old the tick count in the task's hand
is); the subtraction is modulo `TickMod`.

Two constants say what is assumed of the surroundings.  `TaskPrompt`: unless it
publishes, the task runs every 10 ms or so and has drained both buffers before a
pause of the camera ends.  `FramesSpaced`: the operator takes the next photo only
while the modem is idle.  The runs drop them one after the other.  Writing past
`image_buffer` is undefined behaviour: the model sets `overrun` and stops.

### The modules named ...Proofs - theorems

`UartRxProofs`, `UartDriverProofs`, `MqttSessionProofs`, `SendPathProofs`, `BootProofs`,
`ImageReceiverProofs`, `FrameDeliveryProofs` and `PipelineProofs` extend the module they
are about; `PipelineProofs` also extends `UartRxProofs`, as `Pipeline` extends `UartRx`.
See section 4.

### MqttSession - three threads, one client

The task `FSM` runs `HT_FSM_MQTTReconnect` and the upload; the threads in
`Background` are `HT_YieldThread` (`MQTTYield`) and the receive thread
(`MQTTRun`).  Both are loops around `cycle`, and so is the wait for CONNACK.  A
read of a packet is the code's sequence of calls: `CallRead` (load `my_socket`),
`ReadHeader`, `ReadLength` for each byte of the length, `ReadRest` into the shared
`readbuf`, then `Act` (the switch and `keepalive`) and `Exit` (close the session on a
failure).  Bytes are real here: CONNACK is `<<32, 2, 0, code>>`, PINGRESP `<<208, 0>>`, so
a thread can take another one's header, length or rest, and a type is read from whatever
`readbuf` holds by then.  A length has up to four bytes (`Value`); one that does not come
ends it with the value so far, for `readPacket` does not look at the result of
`decodePacket`; it is encoded again into `readbuf` (`Encode`, `LengthRead`), and a packet
longer than `readbuf` is given up (`BUFFER_OVERFLOW`).  Of `readbuf` the model keeps the
bytes `MQTTDeserialize_connack` looks at: type, length and return code.  `ConnackAccepts`
is that function, with its way out for a packet shorter than two bytes, which counts as an
acceptance (finding 3).  The task's statements on shared state are actions of their own,
from `EnsureConnected` through `Disconnect`, `NetworkInit`,
`NetworkSetConnTimeout`, `NetworkConnect`, `SendConnect`, `WaitFor`, `ReadConnack`
and `SetConnected` to `Upload` and `Write`.

The broker answers with any return code or never, and answers a PINGREQ only on a
connection it has accepted.  `answers` remembers on which socket it has sent which code:
`Answered(s)`, `Accepted(s)`.  The peer may close or reset the connection at any time.
The keep-alive timers are two flags.  So is the command timer of `waitfor`, which every
call of `MQTTConnect` sets anew; it is 60 s and the keep-alive 240 s, so that of two timers
set together the command timer runs out first (`KeepAliveOver`).

Assumed: lwIP's `recv` returns -1 on a receive time-out and on a closed socket, 0
when the peer has closed.  Writes are all or nothing here; `SendPath` has the others.

### SendPath - one send buffer, three threads

`MQTTPublish`, `MQTTConnect` and `keepalive` serialise into the same `c->buf` and send
from it, and nothing keeps them apart.  So a packet is written in three steps
(`WriteHeader`, `WriteLength`, `WriteRest`), `sendPacket` and `FreeRTOS_write` are split
at the test of the loop (`TestLoop`), the call of `send()` (`Send`), which may take any
number of bytes and block, and its return (`EndSend`, `SendFails`), and the bytes go to
`stream` from what the buffer holds at that moment.  A PINGREQ is as long as the first
two bytes of any packet: that is where the threads can meet.

The broker is `Accepted`: it takes packet after packet off the stream, by the length
code, and closes the connection at the first malformed one.  `Reaches` are the
publications on a topic of a chunk, which is all that the receiver is subscribed to: what
PINGREQ bytes make of another packet does not concern it.  The length code has the
base `LenBase` (128 in the code; a small one in the run, so that a chunk needs two bytes
of length).  `EncodeLength`, `DecodeLength` and `PacketLen` are the code's algorithms,
with its thresholds; `LengthCode` checks them against each other for every length of up
to four bytes.

Assumed: a `send()` that cannot finish gives up after `SO_SNDTIMEO`, 60 s, which is no
less than the timer of any `sendPacket` (60 s for the task, 1 s for a PINGREQ); lwIP
refuses a second `send()` on a socket while one is in progress.

### UartDriver - character by character

Below `UartRx`: the FIFO of UART0, the HAL's handler that moves it to `temp_rx_buf`,
`HT_USART_Callback`, which has to guess the length from the last byte that is not 0,
and `append_hex_chars` (`TakeChar` is the body of its loop, `HexChars` the loop).
Characters may find the FIFO full (`Arrive`), the modem may begin
to listen in the middle of a frame (`EnableInterrupt`, `ReceiveIT`: the interrupt is
enabled before the HAL has a buffer), and interrupts come with any number of characters.
The task drains promptly here; what happens otherwise is `UartRx`'s matter.  That the FIFO
holds less than a line (32 characters, a line has more than 1000) is an assumption
(`DriverAssumption`): otherwise the FIFO, full before the interrupt is enabled, could hold
the ends of two lines, and both buffers would wait for the task at once.

### Boot - from power-on to the first image

`HT_MQTTExampleTask` statement by statement (`Register`, `CreateQueue`, `WaitForSim`,
`Receive`), the calls of `HT_Fsm` and `HT_MQTT_Connect` with each way they can fail
(`CreateSocket`, `Connect`, `StartRecv`), the threads it makes, and the events of the
protocol stack at any moment (`SimReady`, `NetworkUp`), before the callback is registered
too.  The reader threads appear only with their keep-alive failures, which send messages
to a "send task" the application does not have: the queue fills (`SendReconnect`), and
it is made by the receive thread (`Start`), if there is one and `xQueueCreate` does not
fail, whose result nobody looks at (`MakeReconnectQueue`).  The same thread makes
`mqttMutex1` and locks it unseen (`LockFails`).  A failed assertion of FreeRTOS stops the
model.

### ImageReceiver - the Python side

Single-threaded (the MQTT client's loop calls `on_message`), so each message is
one action: `OnMessage` with `AllPresent` (all expected indices), `LastChunk` (the
fallback on a short chunk), `TentarMontarImagem` and `ProcessarImagem`.  The
environment delivers the chunks of a frame in order, loses any of them (`Lose`),
begins frames of any shape (`NextFrame`), and restarts the process (`Restart`).  The
constant `Scenarios` says which shapes come together with how many losses and restarts;
a behaviour stays in one scenario.  A payload is the number of its frame and whether it is shorter than
a full chunk; decoding and padding are left out.  The insertion in MongoDB and the write of
the file may each fail, and both exceptions are swallowed; a file may have the name of the
one before, if both come in one second, and then replaces it or, failing, may leave nothing
of it (`ProcessarImagem`).  So an image can be lost in both places, and the model says so:
no property promises that each is kept.

### Pipeline and FrameDelivery - the whole

`FrameDelivery` is the promise: frames are taken, dealt with one after the other, and
each is stored or given up; the newest chunk of an image is of the frame being
dealt with, no two images are of the same one, and an image is whole unless the receiver has missed chunks (`Safety`); no frame is
undecided for ever (`Progress`).  `missed` is what may damage an image.  How long a
loss shows depends on the frames.  If they end in a short chunk, and have fewer chunks than
the receiver expects (`ShortFrames`, the constant `Heals`), the next frame replaces what a
damaged one has left, and `missed` ends with the frame.  If they are full, as the 75
chunks of a 160 x 120 picture are, nothing does: one lost chunk shifts what completes an
image, and all later ones may mix two frames, until the receiver is started again.

`Pipeline` composes the detailed modules.  It extends `UartRx` and puts the upload of
`HT_PUBLISH_CHUNK` (`Reconnect`, `EndRetries`, `Commence`, `PublishChunk`, `EndUpload`)
where `UartRx` has the one step `Publish`; it instantiates `ImageReceiver` for
`OnMessage`, so a chunk that arrives goes through the receiver's code; what MongoDB and the
disk get of a joined image is left to `ImageReceiver`.  A connection of the modem may die
unnoticed or be closed at any moment.  The receiver may be away in two ways: its client
loses the broker and connects again by itself, with the dictionary it had
(`ClientDisconnects`, `ClientReconnects`), or its process ends and is started again with
none (`ReceiverEnds`, `ReceiverStarts`).  Chunks published meanwhile are missed, since the
receiver has subscribed with QoS 0.

The refinement mapping: `taken` are the frames the camera has finished, `handled` the
images the modem has finished, `missed` the history variable of that name, which no action
depends on, `stored` the joined images, each as the frame of its newest chunk and whether it
is whole.  Whole means: all chunks of the frame, or the first 74 of a longer one, in order;
only behind them left-over ones may stand (finding 4).

The `MC*` modules only give the constants their values.


## 3. Runs

| run | bounds | shows |
|---|---|---|
| `pipeline` | 3 frames of 3 lines of 2 fragments, buffers of 4 (3 used), image buffer of one frame and one fragment, time-out 2; frames of 3 full chunks where the receiver expects 2; 1 failure, 2 attempts, 2 outages of the receiver | with `TaskPrompt` and `FramesSpaced`: each image handed to the upload is one frame (`FramesIntact`), the buffers stay in step (`PingPong`), `image_buffer` is not overrun, the image is in the order of the camera at any time (`ImageInOrder`), and the whole implements `FrameDelivery`: its safety part (`DeliversFrames`) and its progress (`FramesFinish`) |
| `uart_races` | 2 frames of 2 lines, no assumption on the task or the operator, lag 1 | any interleaving may lose data, but indices stay in bounds, a line is never scrambled or repeated (`LinesInOrder`), published images do not share or swap data (`ImagesSeparate`), an image leaves the buffer (`ImageLeaves`) |
| `uart_wrap` (violation) | 1 frame, lag 1 | the wrap of the tick difference, finding 1 |
| `session_shared` | the task and the yield thread, 2 sockets, 2 attempts per image, at most 4 bytes waiting, any part of a packet may arrive late | `ConnectedMeansAnswered`, `ChunksOnlyAfterAnswer` and `NoSocketLeaks` whatever bytes the threads take from each other |
| `session_live` | the task and the yield thread, 2 chunks, 2 sockets, 1 attempt, packets arrive whole | `DeadSessionNoticed`, `TaskReturns`; after a chunk that failed no later chunk is written (`UploadIsPrefix`) |
| `session_timeout` (violation) | 1 socket | finding 2 |
| `session_refused` (violation) | the task, the yield and the receive thread, 2 sockets, 1 attempt per image | finding 3 |
| `fifo` | 2 frames of 3 lines of 2 bytes (6 characters), FIFO of 3, 4 lost characters once the modem listens | no character is decoded twice or out of order, a line that came in whole is decoded exactly (`CleanLinesExact`), a frame without losses is published |
| `send` | 1 image of 2 chunks, packets of 8 and 6 bytes, length code of base 5, 2 connections, 2 PINGREQ | `ChunksAsSent`, `DamageEndsSession`, `NoOverRead`, `LengthCode` |
| `boot` | queues of 3 and 2 messages | `StartNotMissed`, `StartDecides`, `ListeningMeansServed`, `HaltsWithoutReceiver`, `YieldGoesOn` |
| `recv` | 4 frames, 4 chunks expected; either frames of 3 chunks, the last short, 3 losses and 1 restart, or frames of 1, 3, 4, 5 or 6 chunks | frames that arrive whole are joined as sent; what is left of an older frame can only stand at the end of an image (`HeadIsNewest`); no chunk is used twice |
| `recv_full` (violation) | frames one chunk longer than expected | finding 4 |

Why the bounds are enough to see the interesting cases:

* `UartRx`: three lines use buffer 1 again after buffer 2; two fragments to a line
  put an interrupt between the parts of a line; three frames follow each other
  through two restarts of the receiver, so what a frame leaves behind meets the next.
  A buffer of 4 (indices below 4) is reached when two lines go into one, which the
  slow task of `uart_races` allows.  `TickMod` is larger than any difference that
  does not wrap, as 2^32 is.
* `MqttSession`: two sockets are one loss of a session and one reconnection during which a
  reader may still hold the old socket, or the header of a packet of it, and an attempt
  that has left a socket open is followed by another one.  Four bytes (`MaxInbox`) are a
  CONNACK, or two PINGRESP.  `PacketsWhole` is FALSE where it matters what a missing byte
  leads to; in the run for liveness it is TRUE, to keep it small: there a length byte is
  missing only when another thread has taken it.  The safety runs with one reader
  are small instances of theorems for any number of threads and sockets;
  `session_refused` and `session_timeout` have both readers.
* `ImageReceiver`: four frames with three losses allow two damaged frames before and
  after a whole one; `Mixed` has frames below, at, and above the number expected.
* `Pipeline`: a frame is three chunks and the receiver expects two, as 75 are one more than
  74; so a chunk can be lost before, between and after the others, and one is always left
  over.  One failure cuts an upload or falls between two; two outages are the two ways the
  receiver can be away, one after the other; the third frame finds what the others left.
  Short frames are in `recv` and in the theorem.
* `UartDriver`: a FIFO of 3 is smaller than a line of 6, so a line takes several
  interrupts, an interrupt may hold the end of a line and the beginning of the next, and
  a loss may hit digits, an odd digit, CR, or the newline.  A buffer takes one line and a
  bit: what does not fit is dropped.
* `SendPath`: two chunks, the first with a length of two bytes and the second with one;
  two PINGREQ are enough for one that is written over a packet and another that completes
  it; two connections are a failure and the CONNECT after it.  `Stops` leaves out stops
  in the middle of the rest: the bytes there are the task's own.
* `Boot`: more messages than a queue holds behave like the one that finds it full.

`CHECK_DEADLOCK FALSE` stands where the system really may stop: in `recv`, when the
bound on frames is reached and nothing more arrives; in `fifo` and `send`, when the
bounds on characters, images and PINGREQ are reached; in `boot`, where the task spins for
ever after a failed first connection, returns without a queue, or has halted.

Fairness.  `UartRx`: the task runs (weak), the tick counts (strong: an interrupt may
restart the silence over and over), and a frame that has begun goes on, since
`loop()` sends it to the end; whether another one begins is up to the operator.
`MqttSession`: every thread runs, and the calls of the network return (weak, `Task` and
each `BackgroundThread`; the code gives all of them time-outs).  Time passes: the command
timer runs out if one `waitfor` lasts (weak, `CommandTimerExpires`; the next call sets it
again, and it has to run out anew), and `last_received` runs out unless something sets it
again (weak).  Nothing is assumed of what the broker and the camera do.  `UartDriver`: the FIFO asks for its interrupt until it is empty, and the task runs.
`Pipeline`: as in `UartRx`, with the upload as part of the task.  `Boot`: the task and
the yield thread run, which have the same priority; of the receive thread, which has a
lower one, nothing is assumed.  That blocking calls end is the one
thing assumed of the network; whether a connection holds, whether anything arrives, and
what the broker answers is free.  The threads' priorities are not
modelled in `MqttSession`: on the target the spinning yield thread can keep the receive
thread, which has a lower one, from running.

`TaskReturns` is as strong as the code allows.  An attempt that reconnects, and whose
session another thread closes before the loop looks at `isconnected`, is not counted
(`HT_Fsm.c:175-184`), so the loop has no bound of its own; what holds is that the task comes
back to the camera or reconnects again, every other attempt being counted and each ending.

### Findings

1. `HT_Fsm.c:163`: if the compiler loads the tick count before `last_rx_time`, a tick
   and an interrupt in between make the unsigned difference wrap, and the image is
   complete in the middle of a frame.  C leaves the order open.
2. `MQTTFreeRTOS.c:104`: a receive time-out of 60 s reaches `cycle` as -1 and not as the
   0 of its case "timed out reading packet", so a healthy idle session is closed, long
   before the keep-alive of 240 s sends a ping.
3. `MQTTClient.c:763`: a CONNECT the broker refuses can be taken for accepted.
   `readPacket` does not notice that the length byte of a CONNACK has not come
   (`MQTTClient.c:300`) and takes the length for 0; of so short a packet
   `MQTTDeserialize_connack` returns the 1 that stands for success
   (`MQTTConnectClient.c:147-149`), and the return code still is the 0 it was set to
   (`MQTTClient.c:761`).  So MQTTConnect, which should "wait for a Connack" and "return
   success code", returns SUCCESS.  A byte that is late, or that another thread takes,
   suffices.  What holds is `ConnectedMeansAnswered`.
4. `mqtt_receiver.py:17`: `TOTAL_CHUNKS = 74` expects the chunks 0-73, the comment says
   75 chunks (0-74), and a full frame has 75: the last stays for the next image.

Not runs of their own, but seen while modelling:

* `HT_MQTT_Api.c:135` drops the result of `MQTTPublish`, so "All chunks published!" is
  printed though some were not.  What holds is that the chunks written are a prefix of
  the image (`UploadIsPrefix`), which the receiver survives (`DeliversFrames`).
* `HT_MQTT_Api.c:78`: without a socket at the start `HT_MQTT_Connect` returns 0, "MQTT
  Connection Success!" is printed, and no receive thread is ever made; the first fatal
  keep-alive failure of a later session then sends to a queue that does not exist
  (`MQTTClient.c:589`).  `HaltsWithoutReceiver` says that this, the receive thread not
  having come to its loop, and a queue it could not make are the only ways to a halt.
* `db_manager.py:44` and `mqtt_receiver.py:57,64` swallow whatever goes wrong: an image of
  which both insertion and file fail, or whose file is overwritten in the same second, is
  lost without a trace.
* With full frames one missed chunk mixes all later images until the receiver is started
  again (`FrameDelivery`, above).
* The "send task" of the comment at `MQTTClient.c:585` does not exist: reconnect messages
  stay in their queue.
* A PINGREQ may be sent from the bytes of a chunk, and bytes of a chunk from a PINGREQ:
  `MQTTClient.c:994` and `:436` share a buffer without a lock.  The length bytes make the
  broker reject the result unless a write of the task was cut short (`SendPath`).


## 4. Proofs

All theorems hold for every value of the constants that meets the assumptions of the
module they are about.  `PROJECT.json` lists them; each names the property it proves.
Where a property is not inductive, the strengthening was checked by TLC first.

**`UartRxProofs`**, with no assumption on the speed of the task or the operator:

* `TypeCorrect` and `BuffersInBounds`: the handler stores only when the index stays below
  `ChunkCap`, and every action that clears an index clears the data below it.
* `ImagesAreSeparate`.  What is still in the ping-pong buffers becomes the next image, so
  `SeparateInv` says in addition that what a buffer holds is newer than every published
  image unless the task is in the middle of restarting the receiver, and which buffers
  the restart has cleaned at each of its statements (`Clean(b)`): an interrupt during the
  restart may store to a buffer already or not yet reset, and what survives must be new.
* `LinesStayInOrder`.  `LineInv`: each buffer is in order, a line is in one buffer only
  unless a restart cuts it, and then both are cleared; and what is in the image is of
  earlier lines than the buffers, but for the buffer being copied.

With the assumptions the runs name, because the code counts on them:

* `ImageComesInOrder` (`TaskPrompt`).  The task always drains buffer 1 before buffer 2,
  never asking which is older; `OrderInv` says when the wrong one could be, and that the
  pause after a line has then emptied one of them.
* `BuffersTakeTurns` (`TaskPrompt`, `FramesSpaced`, and `MaxLag = 0`: without finding 1's
  interrupt between the two reads the difference of the ticks does not wrap).  `PhaseInv`: a real silence means
  that the camera has ended its frame, so no interrupt comes inside the restart, and a
  buffer that waits is drained before the next line begins; the handler always finds the
  other buffer free.
* `PublishedFramesIntact`, `ImageNeverOverruns` (and `FrameLen <= ImageCap`).  `FrameInv`
  says where every fragment of the frame is: the drained lines in the image, the line
  that waits in the held buffer, the line being received in the active one.

**`UartDriverProofs`**: `TypeCorrect`, `DecodedOnceInOrder` and `CleanLinesPublished`, for
lines, buffers and FIFOs of any size and any number of lost characters.  `DriverInv` follows the characters
all the way: image, active buffer and FIFO are each in order and one after the other
(`OrderInv`); `temp_rx_buf` is empty when an interrupt begins, so that the callback, which
looks for the last byte that is not 0, finds the FIFO and nothing else (`ContentIsFifo`);
and a newline in the FIFO, or a buffer that waits, means that the camera pauses
(`PhaseInv`).  `HexCharsInOrder` is the lemma on `append_hex_chars`, by induction over the
characters: the library's induction theorems cannot be used, but that a set of numbers has
a least element can (`Least`, `Counting`).

`CleanLinesPublished` needs the contents of a line at every place on its way, where
`DriverInv` has the order only.  `WholeInv`: the characters of an intact line that were
sent are exactly what is in the active buffer and the FIFO, then in the buffer that waits
(`LineInv`), which holds because the buffer was empty when the line began (`BoundaryInv`:
the newline of the line before was not lost); once drained, its bytes stand in the image
until the frame is over, and in the one image published for it (`KeptInv`), which is
published once and after all its characters (`PastInv`).

**`MqttSessionProofs`**, for any number of threads, images, sockets and attempts:

* `SocketsDoNotLeak`.  `NetworkInit` forgets `my_socket` and `NetworkSetConnTimeout`
  replaces it; `LeakInv` adds that no socket is open at either, which `Disconnect`, the
  statement before, sees to.
* `TypeCorrect`: attempts stay within their bound, and a task that has given up reads no
  more.
* `NoHolesInUploads`.  `PrefixInv`: a session closed during an upload stays closed until
  its end, as nobody but the task opens one.
* `SessionsAreAnswered`, `ChunksGoToAnsweredSockets`.  Nothing is known of the bytes in
  `readbuf`, which three threads fill, and a packet cut off after its first byte is taken
  for a CONNACK too; but a byte comes in only when the broker has sent
  one on this socket, and it sends nothing before its answer to the CONNECT.  `AnswerInv`
  carries this from the socket to every stage of the task after the first byte it takes.
  The stronger statement, that the answer was an acceptance, turned out false (finding 3).

**`SendPathProofs`**: `LengthsSurvive`, for every base up to the 128 of the code, by
unrolling encoder and decoder digit by digit; `SendStaysInPacket`, where `LoopInv` adds that
between two calls of `send()` nothing is sent yet, or all is, or the timer has expired; and
for any number of background threads, connections and PINGREQ packets and every base:

* `SendPathTypes`: all that is in the buffer and on the wire are bytes, and nothing is sent
  from beyond the buffer.  The task wants to send something only while it is in
  `sendPacket`, and no chunk beyond the last (`TypeInv`).
* `ChunksArriveAsSent` (`ChunksAsSent`) and `DamageIsLast` (`DamageEndsSession`), by
  `WireInv`.  A PINGREQ is two bytes, so other threads can change header and first digit of
  the packet in the buffer and no more, and the digit only to 0 (`BufInv`); so wherever the
  topic of a chunk stands on the wire, its packet stands around it but for these two bytes,
  and as a whole unless it is the last topic on this connection and was cut short or is
  being sent (`StreamInv`, with `TailInv` for what is being sent); a write cut short
  closes the session before the task sends again (`TaskInv`).  Then the broker: `Accepted`
  is recursive, and by induction on the places of the stream (`UpTo`) its packets stand
  one after the other (`AcceptedStand`).  The topic of a packet is where its length ends
  (`TopicThere`).  If the broker began to read elsewhere than the task began to write, a
  header would be a digit with the flag or the reverse, and a first digit replaced by 0
  would end the packet before its topic, so that packet is the task's (`Aligned`).

The chunks are told apart by their bytes, which lie below the flag: so the theorems are
about at most 67 chunks (`60 + NumImages * NumChunks < 128`).  This is a bound of the data
of the model, not of the code.

**`BootProofs`**, for queues of any size: `TypeCorrect`, `NoStartMissed`, `CameraHasReaders`
and `HaltNeedsMissingQueue`.  `BootInv` adds that no news is counted before there is a queue,
which threads exist at each statement between the connection and the camera, and that a
receive thread in its loop has tried to make its queue, and nobody else has.

**`ImageReceiverProofs`**, for any scenarios:

* `TypeCorrect`.
* `NoChunkReused` (`ReuseInv`: what the dictionary holds is in no image yet, and neither
  holds what is still to come).
* `NewestAtHead` (`HeadInv`: the dictionary is ordered by frames, newest first, and its
  front is of the present frame).
* `CompleteFramesJoined` (`WholeInv`: what a whole frame has put in the dictionary is all
  there, and left-overs have no index beyond its last).

**`FrameDeliveryProofs`**: `StoredInOrder`, of the abstract specification.

**`PipelineProofs`**: the refinement, step by step.  `ModemKeepsPromises`: the upload is
UartRx's `Publish` or a stutter, so what `UartRxProofs` shows holds inside the whole.
`PipelineDelivers`: `PipelineSpec => DeliversFrames`, the safety part of `FrameDelivery`,
for frames of any number of chunks, full or short, and any number of frames, failures of the
connection and outages of the receiver.  `PipelineInv` has three parts beyond those of
`UartRxProofs`.  `UploadInv`: an image at the upload is the frame after the last one dealt
with, and whole chunks of it have been published.  `ChunkInv`: every chunk in the dictionary
is of a frame that has come (`Origins`), which is all that holds once chunks were missed;
while none were, those at the indices already published are of the present frame
(`Fresh`), and if the frame has as many chunks as the receiver expects, just those are there
until the image is joined (`Complete`).  `StoredInv`: no image is of a later frame than the
present one, nor of that one before its first chunk has come and been used up, which it is
only once.  From these each message that completes an image is shown to be the step `Store`
of the abstract specification, and all others to be its other steps or stutters.  Assumed
are, with the above, `TaskPrompt`, `FramesSpaced`, `MaxLag = 0` and `FrameLen <= ImageCap`,
and nothing of the frames.

These assumptions cannot be dropped: `uart_races` and `uart_wrap` go without
`TaskPrompt`, `FramesSpaced` and `MaxLag = 0`, and there frames are merged or cut.

Only model-checked:

* Liveness under fairness: `ImageLeaves`, `FramesFinish` (the `Progress` of
  `FrameDelivery`), `DeadSessionNoticed`, `TaskReturns`, `CleanFramePublished`,
  `StartDecides`, `YieldGoesOn`.
* The runs that expect a violation.


## 5. Not modelled

* QoS 1 and 2, subscriptions, `MQTTReConnect`, TLS: not used or not built by the
  application.  The rest of the packet library (acknowledgements, the server side) with
  them.
* The UART driver's DMA branch, transmission, power control and control flags; SPI and
  I2C: not on the path of the application.
* LEDs, GPIO, board set-up: register writes no other part reads.
* The dashboard, which only reads the database, and the local tools.  JPEG, hex decoding
  and grey padding on the Python side: data no property tells apart.
* The priorities of the threads, except for what `Boot` assumes of them.
* Memory: `sendQueueMsg` does not free a message it could not queue.

Most of the repository by size is the modem vendor's SDK: header files of the chip, of
lwIP, mbedTLS, FreeRTOS, and the protocol stack, whose implementation comes as libraries
that are not part of the repository.  They declare interfaces and have no behaviour to
model; what the application calls in them is modelled from its use and marked external.


## 6. Plan

In this order, most important behaviour first; 1-10 are done.

1. `UartRx`: receiver and its races.
2. `UartRxProofs`, `MqttSessionProofs`: types, bounds, separation of images; sockets.
3. `MqttSession`: reconnection and upload with three threads.
4. `ImageReceiver`: collecting, joining and storing.
5. `FrameDelivery` and `Pipeline`: the whole, and the refinement.
6. `UartDriver`: characters, FIFO, `append_hex_chars`.
7. `SendPath`: the send buffer, partial writes, the length code.
8. `Boot` with `BootProofs`, `FrameDeliveryProofs`.
9. Proofs of every safety property of `UartRx`, `MqttSession`, `ImageReceiver` and `Boot`,
   of the order of characters in `UartDriver`, of the length code and the send loop, and
   of the refinement.
10. Proofs of the contents of lines in `UartDriver` (`CleanLinesExact`) and of the bytes on
   the wire in `SendPath` (`ChunksAsSent`, `DamageEndsSession`).
11. Left: the dashboard's connection, and priorities in `MqttSession`.
