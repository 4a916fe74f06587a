------------------------------ MODULE SendPath ------------------------------
(***************************************************************************)
(* The way of the bytes of a packet from MQTTPublish, MQTTConnect and      *)
(* keepalive through the one send buffer c->buf and sendPacket to the      *)
(* broker.  The task HT_Fsm publishes, the background threads send         *)
(* PINGREQ, nothing guards the buffer, and a thread can be preempted       *)
(* between any two of the bytes that matter: header, length, rest.         *)
(*                                                                         *)
(* The broker is seen through the bytes of the current connection: it      *)
(* reads packet after packet and closes at the first malformed one.        *)
(*                                                                         *)
(* Data.  Bytes are numbers.  A header is its packet type.  The length     *)
(* code has the base LenBase (128 in MQTT), and the flag 128 as in MQTT.   *)
(* The payload of chunk i is made of bytes that tell its number.           *)
(*                                                                         *)
(* Time.  A send that has not taken all bytes gives up after SO_SNDTIMEO,  *)
(* 60 s, which is no less than the timer of sendPacket, 60 s for a packet  *)
(* of the task and 1 s for a PINGREQ: so the timer has expired by then.    *)
(*                                                                         *)
(* PingClearsBuffer, TimerIgnored, MoreChunksAtEnd, PublishForgetsFailure, *)
(* and LengthUnflagged are faulty variants of the definition after them:   *)
(* no behaviour uses them.                                                 *)
(***************************************************************************)
EXTENDS Integers, Sequences, FiniteSetsExt

CONSTANTS
    LenBase,          \* base of the remaining length code
    NumChunks,        \* chunks in an image
    NumImages,        \* bound: images uploaded
    MaxConnections,   \* bound: connections
    MaxPings,         \* bound: PINGREQ packets begun
    Background,       \* yield_thread and mqttRecv
    FSM               \* the task

ASSUME SendAssumption ==
    /\ {NumChunks, NumImages, MaxConnections} \subseteq Nat \ {0}
    /\ 60 + NumImages * NumChunks < 128   \* data: see ChunkBody
    /\ LenBase \in 2 .. 128 /\ MaxPings \in Nat
    /\ FSM \notin Background

VARIABLES
    buf,           \* c->buf
    pc,            \* of each thread
    size, done,    \* of each thread: length and sent of sendPacket
    expired,       \* of each thread: its timer has run out
    holder,        \* the threads inside send(): none or one
    isconnected,
    task,          \* what the task sends: "none", "connect", "chunk"
    chunk,         \* chunks the upload loop has gone through
    retrying,      \* the background threads in keepaliveRetry
    pings,         \* PINGREQ packets begun
    connection,    \* the number of the socket
    stream,        \* the bytes written to it
    torn           \* a packet of the task was written to it in part

threadVars == <<pc, size, done, expired>>
netVars == <<holder, connection, stream, torn>>
taskVars == <<isconnected, task, chunk>>
pingVars == <<retrying, pings>>
vars == <<buf, threadVars, netVars, taskVars, pingVars>>

Thread == Background \union {FSM}

-----------------------------------------------------------------------------
(* Packets.                                                                *)

CONNECT == 1
PUBLISH == 3
PINGREQ == 12

LengthUnflagged(n) ==
    LET bytes[r \in 0 .. n] ==
          IF r < LenBase THEN <<r>> ELSE <<r % LenBase>> \o bytes[r \div LenBase]
    IN bytes[n]

\* MQTTPacket_encode: the digits of n, the lowest first, all but the last with
\* the flag.
EncodeLength(n) ==
    LET bytes[r \in 0 .. n] ==
          IF r < LenBase THEN <<r>> ELSE <<(r % LenBase) + 128>> \o bytes[r \div LenBase]
    IN bytes[n]

\* MQTTPacket_len: header, length and rest of a packet.  The code compares the
\* rest with the header already added, and with 2097151, one less than the third
\* power of 128.
PacketLen(n) ==
    LET m == n + 1
    IN m + IF m < LenBase THEN 1
           ELSE IF m < LenBase * LenBase THEN 2
           ELSE IF m < LenBase * LenBase * LenBase - 1 THEN 3
           ELSE 4

\* decodePacket: how many of the bytes after place p of s are the length, no
\* more than 4; 0 if the last of them has not come.
LengthLen(s, p) ==
    LET ends == {j \in 1 .. 4 : p + j <= Len(s) /\ s[p + j] < 128}
    IN IF ends = {} THEN 0 ELSE Min(ends)

\* ... and the length they say: each byte adds its digit times the multiplier.
DecodeLength(s, p) ==
    LET digit(j) == IF j <= LengthLen(s, p) THEN s[p + j] % 128 ELSE 0
    IN digit(1) + LenBase * (digit(2) + LenBase * (digit(3) + LenBase * digit(4)))

\* What follows the length: the topic with its own length, one byte here that
\* tells the index, and the payload; the last chunk of an image is shorter.  (The
\* bytes of a chunk are different from each other, and like those of a text they
\* have no flag.)
Topic(i) == <<20 + i>>
ChunkBody(i) ==
    <<0, 1>> \o Topic(i) \o (IF i % NumChunks = 0 THEN <<40 + i>> ELSE <<40 + i, 60 + i>>)
ConnectBody == <<90, 91>>

Packet(type, body) == <<type>> \o EncodeLength(Len(body)) \o body

\* What thread t wants to send.
Wanted(t) ==
    IF t # FSM THEN <<PINGREQ, 0>>
    ELSE IF task = "connect" THEN Packet(CONNECT, ConnectBody)
    ELSE Packet(PUBLISH, ChunkBody(chunk + 1))

-----------------------------------------------------------------------------
(* The broker, which is no part of the repository.                         *)

\* The packets the broker accepts among the bytes s.
Accepted(s) ==
    LET Well(type, body, first) ==
          IF first THEN type = CONNECT /\ body = ConnectBody
          ELSE \/ type = PINGREQ /\ body = <<>>
               \/ type = PUBLISH /\ Len(body) >= 2 /\ 256 * body[1] + body[2] <= Len(body) - 2
        from[p \in 1 .. Len(s) + 1] ==
          LET j == LengthLen(s, p)
              end == p + j + DecodeLength(s, p)
              body == SubSeq(s, p + j + 1, end)
          IN IF p > Len(s) \/ j = 0 \/ end > Len(s) THEN <<>>
             ELSE IF ~Well(s[p], body, p = 1) THEN <<>>
             ELSE <<[type |-> s[p], body |-> body]>> \o from[end + 1]
    IN from[1]

\* A PUBLISH packet that reaches the receiver, which has subscribed to the topics
\* of chunks.
Reaches(packet) ==
    /\ packet.type = PUBLISH /\ Len(packet.body) >= 3
    /\ \E i \in 1 .. NumImages * NumChunks :
         SubSeq(packet.body, 1, 3) = <<0, 1>> \o Topic(i)

ConnectAccepted == Accepted(stream) # <<>>

-----------------------------------------------------------------------------

\* HT_MQTT_Connect has succeeded and the threads have been started.
Init ==
    /\ buf = Packet(CONNECT, ConnectBody) \o [i \in 1 .. 8 |-> 0]
    /\ pc = [t \in Thread |-> "idle"]
    /\ size = [t \in Thread |-> 0] /\ done = [t \in Thread |-> 0]
    /\ expired = [t \in Thread |-> FALSE]
    /\ holder = {} /\ connection = 1 /\ torn = FALSE
    /\ stream = Packet(CONNECT, ConnectBody)
    /\ isconnected = TRUE /\ task = "none" /\ chunk = 0
    /\ retrying = {} /\ pings = 0

Step(t, from, to) == pc[t] = from /\ pc' = [pc EXCEPT ![t] = to]

\* sendPacket has returned, and its locals are gone.
Finish(t) ==
    /\ Step(t, "sent", "idle")
    /\ size' = [size EXCEPT ![t] = 0] /\ done' = [done EXCEPT ![t] = 0]
    /\ expired' = [expired EXCEPT ![t] = FALSE]

-----------------------------------------------------------------------------
(* Serialising, byte by byte as far as two threads can meet there.         *)

\* buf with the bytes of s from place p on.
Over(p, s) ==
    [i \in 1 .. Len(buf) |-> IF i \in p .. p + Len(s) - 1 THEN s[i - p + 1] ELSE buf[i]]

WriteHeader(t) ==
    /\ Step(t, "header", "length")
    /\ buf' = Over(1, <<Wanted(t)[1]>>)
    /\ UNCHANGED <<size, done, expired, netVars, taskVars, pingVars>>

WriteLength(t) ==
    /\ Step(t, "length", "rest")
    /\ buf' = Over(2, <<Wanted(t)[2]>>)
    /\ UNCHANGED <<size, done, expired, netVars, taskVars, pingVars>>

PingClearsBuffer(t) ==
    /\ Step(t, "rest", "write")
    /\ buf' = IF t = FSM THEN Over(3, SubSeq(Wanted(t), 3, Len(Wanted(t))))
              ELSE <<PINGREQ>> \o [i \in 1 .. Len(buf) - 1 |-> 0]
    /\ size' = [size EXCEPT ![t] = Len(Wanted(t))]
    /\ done' = [done EXCEPT ![t] = 0] /\ expired' = [expired EXCEPT ![t] = FALSE]
    /\ UNCHANGED <<netVars, taskVars, pingVars>>

\* The rest of the packet; and sendPacket begins.
WriteRest(t) ==
    /\ Step(t, "rest", "write")
    /\ buf' = Over(3, SubSeq(Wanted(t), 3, Len(Wanted(t))))
    /\ size' = [size EXCEPT ![t] = Len(Wanted(t))]
    /\ done' = [done EXCEPT ![t] = 0] /\ expired' = [expired EXCEPT ![t] = FALSE]
    /\ UNCHANGED <<netVars, taskVars, pingVars>>

-----------------------------------------------------------------------------
(* sendPacket and FreeRTOS_write.                                          *)

TimerIgnored(t) == FALSE

TimerIsExpired(t) == expired[t]

\* while (sent < length && !TimerIsExpired(timer)): write, or be done.  A
\* thread that was kept from running may also find its timer expired.
TestLoop(t) ==
    /\ \/ done[t] < size[t] /\ ~TimerIsExpired(t) /\ Step(t, "write", "send")
       \/ (done[t] = size[t] \/ expired[t] \/ done[t] = 0) /\ Step(t, "write", "sent")
    /\ UNCHANGED <<buf, size, done, expired, netVars, taskVars, pingVars>>

\* Where send() may stop in the n bytes it was given: among the two bytes that
\* threads write over for each other, before the last byte, or at the end.  (To
\* stop anywhere between is like stopping before the last.)
Stops(n) == {k \in 0 .. n : k <= 2 \/ k >= n - 1}

\* send() takes the first bytes, none or all of them, from &buf[sent]; if it
\* has not got them all it blocks.
Send(t) ==
    /\ holder = {} /\ Step(t, "send", "blocked")
    /\ holder' = {t}
    /\ \E n \in Stops(size[t]) :
         /\ stream' = stream \o SubSeq(buf, done[t] + 1, done[t] + n)
         /\ done' = [done EXCEPT ![t] = @ + n]
    /\ UNCHANGED <<buf, size, expired, connection, torn, taskVars, pingVars>>

\* The rest is taken, from what is in the buffer by now, or send() gives up
\* after SO_SNDTIMEO with what it has got until then: FreeRTOS_write and
\* sendPacket find their timers expired.
EndSend(t) ==
    /\ Step(t, "blocked", "write")
    /\ holder' = {}
    /\ \E n \in {k - done[t] : k \in {i \in Stops(size[t]) : i >= done[t]}} :
         /\ stream' = stream \o SubSeq(buf, done[t] + 1, done[t] + n)
         /\ done' = [done EXCEPT ![t] = @ + n]
         /\ expired' = [expired EXCEPT ![t] = done[t] + n < size[t]]
         /\ torn' = (torn \/ (t = FSM /\ done[t] + n \in 1 .. size[t] - 1))
    /\ UNCHANGED <<buf, size, connection, taskVars, pingVars>>

\* send() fails at once: the connection is broken, or another thread is in it.
SendFails(t) ==
    /\ Step(t, "send", "sent")
    /\ UNCHANGED <<buf, size, done, expired, netVars, taskVars, pingVars>>

SendPacket(t) == TestLoop(t) \/ Send(t) \/ EndSend(t) \/ SendFails(t)

Serialize(t) == WriteHeader(t) \/ WriteLength(t) \/ WriteRest(t)

-----------------------------------------------------------------------------
(* The background threads: keepalive, keepaliveRetry.                      *)

\* A keep-alive timer has expired: keepalive sends a PINGREQ, or, if one is
\* outstanding, keepaliveRetry does; whether or not the session lives.
BeginPing(t) ==
    /\ pings < MaxPings /\ pings' = pings + 1
    /\ Step(t, "idle", "header")
    /\ retrying' \in {retrying, retrying \union {t}}
    /\ UNCHANGED <<buf, size, done, expired, netVars, taskVars>>

\* keepalive has failed, with no fatal error of the socket.
RetryPing(t) ==
    /\ t \notin retrying /\ done[t] < size[t]
    /\ pings < MaxPings /\ pings' = pings + 1
    /\ Step(t, "sent", "header")
    /\ retrying' = retrying \union {t}
    /\ UNCHANGED <<buf, size, done, expired, netVars, taskVars>>

\* A failure of keepalive closes the session, also after a retry.
EndPing(t) ==
    /\ Finish(t)
    /\ isconnected' = (isconnected /\ t \notin retrying /\ done[t] = size[t])
    /\ retrying' = retrying \ {t}
    /\ UNCHANGED <<buf, netVars, task, chunk, pings>>

\* cycle closes the session for another reason.
SessionCloses ==
    /\ isconnected /\ isconnected' = FALSE
    /\ UNCHANGED <<buf, threadVars, netVars, task, chunk, pingVars>>

KeepAlive(t) == BeginPing(t) \/ RetryPing(t) \/ EndPing(t) \/ Serialize(t) \/ SendPacket(t)

-----------------------------------------------------------------------------
(* The task.                                                               *)

BetweenImages == chunk % NumChunks = 0
MoreChunksAtEnd == chunk <= NumImages * NumChunks

MoreChunks == chunk < NumImages * NumChunks

\* HT_FSM_MQTTReconnect as far as the new socket is connected.  Of a thread
\* that is inside send() on the old one, that call fails.
Reconnect ==
    /\ task = "none" /\ BetweenImages /\ MoreChunks
    /\ ~isconnected /\ connection < MaxConnections
    /\ connection' = connection + 1 /\ stream' = <<>> /\ torn' = FALSE
    /\ holder' = {}
    /\ task' = "connect"
    /\ pc' = [t \in Thread |-> IF t = FSM THEN "header"
                               ELSE IF t \in holder THEN "sent" ELSE pc[t]]
    /\ UNCHANGED <<buf, size, done, expired, isconnected, chunk, pingVars>>

\* MQTTConnect ends: with the CONNACK, if the broker has accepted the CONNECT.
EndConnect ==
    /\ task = "connect" /\ Finish(FSM)
    /\ task' = "none"
    /\ isconnected' \in {FALSE, done[FSM] = size[FSM] /\ ConnectAccepted}
    /\ UNCHANGED <<buf, netVars, chunk, pingVars>>

\* The reconnection failed: the image is discarded.
Discard ==
    /\ task = "none" /\ BetweenImages /\ MoreChunks /\ ~isconnected
    /\ chunk' = chunk + NumChunks
    /\ UNCHANGED <<buf, threadVars, netVars, isconnected, task, pingVars>>

\* MQTTPublish of the next chunk.
BeginPublish ==
    /\ task = "none" /\ MoreChunks /\ isconnected
    /\ Step(FSM, "idle", "header")
    /\ task' = "chunk"
    /\ UNCHANGED <<buf, size, done, expired, netVars, isconnected, chunk, pingVars>>

\* ... which fails at once without a session.
FailPublish ==
    /\ task = "none" /\ ~BetweenImages /\ ~isconnected
    /\ chunk' = chunk + 1
    /\ UNCHANGED <<buf, threadVars, netVars, isconnected, task, pingVars>>

PublishForgetsFailure ==
    /\ task = "chunk" /\ Finish(FSM)
    /\ task' = "none" /\ chunk' = chunk + 1
    /\ UNCHANGED <<buf, netVars, isconnected, pingVars>>

\* sendPacket has returned; its failure closes the session.
EndPublish ==
    /\ task = "chunk" /\ Finish(FSM)
    /\ task' = "none" /\ chunk' = chunk + 1
    /\ isconnected' = (isconnected /\ done[FSM] = size[FSM])
    /\ UNCHANGED <<buf, netVars, pingVars>>

Task ==
    \/ Reconnect \/ EndConnect \/ Discard
    \/ BeginPublish \/ FailPublish \/ EndPublish
    \/ Serialize(FSM) \/ SendPacket(FSM)

-----------------------------------------------------------------------------

Next == (\E t \in Background : KeepAlive(t)) \/ SessionCloses \/ Task

Spec == Init /\ [][Next]_vars

-----------------------------------------------------------------------------
(* Properties.                                                             *)

TypeOK ==
    /\ \A i \in 1 .. Len(buf) : buf[i] \in 0 .. 255
    /\ pc \in [Thread -> {"idle", "header", "length", "rest", "write", "send", "blocked", "sent"}]
    /\ \A t \in Thread : done[t] \in 0 .. size[t] /\ size[t] <= Len(buf)
    /\ expired \in [Thread -> BOOLEAN]
    /\ holder = {t \in Thread : pc[t] = "blocked"}
    /\ {isconnected, torn} \subseteq BOOLEAN /\ task \in {"none", "connect", "chunk"}
    /\ chunk \in 0 .. NumImages * NumChunks /\ retrying \subseteq Background
    /\ pings \in 0 .. MaxPings
    /\ connection \in 1 .. MaxConnections
    /\ \A i \in 1 .. Len(stream) : stream[i] \in 0 .. 255

\* The chunk the packet holds as it was serialised, or 0.
ChunkOf(packet) ==
    IF \E i \in 1 .. NumImages * NumChunks : packet.body = ChunkBody(i)
    THEN CHOOSE i \in 1 .. NumImages * NumChunks : packet.body = ChunkBody(i)
    ELSE 0

\* "Exactly as it came from the UART": whatever the threads do to each other's
\* bytes in c->buf, each PUBLISH that reaches the receiver is a chunk,
\* byte for byte, and on a connection they come in order and once, as long as no
\* write of the task was cut short.
ChunksAsSent ==
    ~torn =>
        LET got == Accepted(stream)
        IN \A k \in 1 .. Len(got) : Reaches(got[k]) =>
              /\ ChunkOf(got[k]) # 0
              /\ \A j \in 1 .. k - 1 : Reaches(got[j]) => ChunkOf(got[j]) < ChunkOf(got[k])

\* If a write was cut short, PINGREQ bytes may complete the packet to one that
\* is no chunk: but it is the last that reaches the receiver on that connection.
DamageEndsSession ==
    LET got == Accepted(stream)
    IN \A j, k \in 1 .. Len(got) :
          j < k /\ Reaches(got[j]) /\ Reaches(got[k]) => ChunkOf(got[j]) # 0

\* sendPacket passes the whole length again after a partial write, but the
\* timers never let it come to that: it does not read past the packet.
NoOverRead == \A t \in Thread : pc[t] = "send" => done[t] = 0

\* The length code: where the task is about to write the length of a packet, then
\* whatever that length is, what is encoded is decoded, in at most four bytes, and
\* MQTTPacket_len, which guards the buffer, is never too small, nor more than one
\* byte too large.  (PINGREQ packets have nothing to do with it: it is enough to
\* look before the first of them.)
LengthCode ==
    pc[FSM] = "length" /\ pings = 0 =>
        \A n \in 0 .. LenBase * LenBase * LenBase * LenBase - 1 :
            LET s == <<PUBLISH>> \o EncodeLength(n)
            IN /\ LengthLen(s, 1) = Len(s) - 1 /\ DecodeLength(s, 1) = n
               /\ PacketLen(n) - Len(s) - n \in {0, 1}
=============================================================================
