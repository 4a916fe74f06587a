----------------------------- MODULE MqttSession -----------------------------
(***************************************************************************)
(* The MQTT session of the modem firmware.  Three threads use one client   *)
(* and one socket, and nothing guards them: the task HT_Fsm connects and   *)
(* publishes, the yield thread and the receive thread read packets and     *)
(* watch the keep-alive timers.  (mqttMutex1 is only taken by the receive  *)
(* thread; the mutex of the client exists in TLS builds only.)             *)
(*                                                                         *)
(* Every read of a packet takes the bytes of the socket in several steps,  *)
(* header, each byte of the length, and rest, into the one readbuf, so the *)
(* threads can take each other's bytes.  Bytes are numbers; a packet type  *)
(* is a header div 16.  A socket is numbered by its creation, and 0 is     *)
(* my_socket = -1.                                                         *)
(*                                                                         *)
(* Left out: the send buffer's contents, the unread queue of reconnect     *)
(* messages, and the branch of HT_MQTT_Connect that starts no receive      *)
(* thread.                                                                 *)
(*                                                                         *)
(* KeepaliveForgetsPing, EnsureConnectedOnceMore, DisconnectForgotten,     *)
(* WaitForAnything, AttemptedUncounted and WriteKeepsSession are faulty    *)
(* variants of the definition after them: no behaviour uses them.          *)
(***************************************************************************)
EXTENDS Integers, Sequences

CONSTANTS
    NumImages,    \* bound: images the camera delivers
    NumChunks,    \* chunks in an image
    MaxSockets,   \* bound: sockets that can be created
    MaxInbox,     \* bound: bytes that wait to be read
    PacketsWhole, \* whether the bytes of a packet arrive together
    MaxRetries,   \* the 3 attempts to reconnect before an image
    Background,   \* the threads that only read: yield_thread and mqttRecv
    FSM           \* the task

ASSUME ConstantsAssumption ==
    /\ {NumImages, NumChunks, MaxSockets, MaxRetries, MaxInbox} \subseteq Nat \ {0}
    /\ PacketsWhole \in BOOLEAN /\ FSM \notin Background

VARIABLES
    isconnected, ping_outstanding,
    sentExpired, receivedExpired,   \* last_sent, last_received have run out
    commandExpired,                 \* and so has connect_timer
    readbuf,                        \* the bytes of it that are looked at again
    sock, created,                  \* my_socket, and the last socket created
    open,                           \* the sockets not closed
    link, inbox,                    \* the connection of sock: state, bytes to read
    asked, pinged,                  \* the broker owes a CONNACK, a PINGRESP
    answers,                        \* its answers to CONNECT: <<socket, code>>
    pc, rsock, rem, rc,             \* of each thread: where in cycle(), the socket it
                                    \* reads, the length's bytes, the result (0 or
                                    \* none when it no longer looks at them)
    fsm, image, retry_count,        \* the task: where, which image, attempts
    published, written              \* its chunks: tried, handed to the socket

sessionVars == <<isconnected, ping_outstanding>>
timerVars == <<sentExpired, receivedExpired, commandExpired>>
sockVars == <<sock, created, open>>
netVars == <<sockVars, link, inbox, asked, pinged, answers>>
readVars == <<readbuf, pc, rsock, rem, rc>>
taskVars == <<fsm, image, retry_count, published, written>>
vars == <<sessionVars, timerVars, netVars, readVars, taskVars>>

Thread == Background \union {FSM}

\* What the broker answered to the CONNECT on socket s.
Accepted(s) == <<s, 0>> \in answers
Answered(s) == \E code \in {0, 5} : <<s, code>> \in answers

\* Packet types, and the bytes of the packets the broker sends.
CONNACK == 2
PINGRESP == 13
Connack(code) == <<32, 2, 0, code>>
Pingresp == <<208, 0>>

\* The results below 0 of a read.  To the code they are alike: the model tells a
\* receive timeout on a silent connection from an error.
TimedOut == -1
Failed == -2

\* HT_MQTT_BUFFER_SIZE, and the indices of readbuf that MQTTDeserialize_connack looks
\* at in a packet shorter than 128 bytes: type, length and return code.
ReadbufSize == 1024
ReadbufIndices == {0, 1, 3}

\* The weights of the bytes of a length, seven bits each.
Weight == <<1, 128, 16384, 2097152>>

\* The length the bytes s encode.
Value(s) ==
    LET part(i) == IF i <= Len(s) THEN (s[i] % 128) * Weight[i] ELSE 0
    IN part(1) + part(2) + part(3) + part(4)

\* MQTTPacket_encode: how many bytes n takes, and which.
Digits(n) == IF n < Weight[2] THEN 1 ELSE IF n < Weight[3] THEN 2 ELSE IF n < Weight[4] THEN 3 ELSE 4
Encode(n) ==
    [i \in 1 .. Digits(n) |-> ((n \div Weight[i]) % 128) + (IF i < Digits(n) THEN 128 ELSE 0)]

\* readbuf with these bytes from index k on.
Put(k, bytes) ==
    [i \in ReadbufIndices |-> IF i - k + 1 \in 1 .. Len(bytes) THEN bytes[i - k + 1] ELSE readbuf[i]]

\* HT_MQTT_Connect has succeeded, and the threads have been started.
Init ==
    /\ isconnected = TRUE /\ ping_outstanding = FALSE
    /\ sentExpired = FALSE /\ receivedExpired = FALSE /\ commandExpired = FALSE
    /\ readbuf = [i \in ReadbufIndices |-> Connack(0)[i + 1]]
    /\ sock = 1 /\ created = 1 /\ open = {1} /\ link = "up" /\ inbox = <<>>
    /\ asked = FALSE /\ pinged = FALSE /\ answers = {<<1, 0>>}
    /\ pc = [t \in Thread |-> IF t = FSM THEN "idle" ELSE "call"]
    /\ rsock = [t \in Thread |-> 0]
    /\ rem = [t \in Thread |-> <<>>] /\ rc = [t \in Thread |-> 0]
    /\ fsm = "wait" /\ image = 0 /\ retry_count = 0
    /\ published = 0 /\ written = 0

\* The session is over; my_socket stays as it is.
MQTTCloseSession == isconnected' = FALSE /\ ping_outstanding' = FALSE

\* A send can be accepted while the peer has closed only its direction, and
\* it can always fail or time out.
CanSend == link \in {"up", "eof"}

-----------------------------------------------------------------------------
(* The broker and the network.                                             *)

\* A packet arrives, of which a read can find a part only.
Receive(packet) == inbox' = inbox \o packet /\ Len(inbox') <= MaxInbox

BrokerAnswers(code) ==
    /\ asked /\ link = "up"
    /\ asked' = FALSE
    /\ Receive(Connack(code))
    /\ answers' = answers \union {<<sock, code>>}
    /\ UNCHANGED <<sessionVars, timerVars, readVars, taskVars, sockVars, link, pinged>>

BrokerPongs ==
    /\ pinged /\ link = "up"
    /\ pinged' = FALSE
    /\ Receive(Pingresp)
    /\ UNCHANGED <<sessionVars, timerVars, readVars, taskVars,
                   sockVars, link, asked, answers>>

\* The peer closes the connection, or it is reset.
LinkFails ==
    /\ link = "up"
    /\ \/ link' = "eof" /\ UNCHANGED inbox
       \/ link' = "reset" /\ inbox' = <<>>
    /\ asked' = FALSE /\ pinged' = FALSE
    /\ UNCHANGED <<sessionVars, timerVars, readVars, taskVars, sockVars, answers>>

\* 240 seconds have passed since the timer was set.  In waitfor, just after both were
\* set, the command timer of 60 seconds runs out before.
KeepAliveOver == fsm = "waitfor" => commandExpired

SentExpires ==
    /\ ~sentExpired /\ KeepAliveOver /\ sentExpired' = TRUE
    /\ UNCHANGED <<receivedExpired, commandExpired, sessionVars, netVars, readVars, taskVars>>

ReceivedExpires ==
    /\ ~receivedExpired /\ KeepAliveOver /\ receivedExpired' = TRUE
    /\ UNCHANGED <<sentExpired, commandExpired, sessionVars, netVars, readVars, taskVars>>

\* command_timeout_ms has passed since this call of MQTTConnect set its timer.
CommandTimerExpires ==
    /\ fsm = "waitfor" /\ ~commandExpired /\ commandExpired' = TRUE
    /\ UNCHANGED <<sentExpired, receivedExpired, sessionVars, netVars, readVars, taskVars>>

Environment ==
    \/ \E code \in {0, 5} : BrokerAnswers(code)
    \/ BrokerPongs \/ LinkFails
    \/ SentExpires \/ ReceivedExpires \/ CommandTimerExpires

-----------------------------------------------------------------------------
(* readPacket and cycle, of any thread t.                                  *)

Step(t, label) == pc' = [pc EXCEPT ![t] = label]

\* mqttread reads my_socket and blocks in recv on that socket.
CallRead(t) ==
    /\ pc[t] = "call" /\ Step(t, "header")
    /\ rsock' = [rsock EXCEPT ![t] = sock]
    /\ UNCHANGED <<sessionVars, timerVars, netVars, taskVars, readbuf, rem, rc>>

\* The header byte comes in, or nothing does: a socket that was closed, reset
\* or not connected gives an error, a silent one an error after the receive
\* timeout, and one the peer closed gives 0.
ReadHeader(t) ==
    /\ pc[t] = "header"
    /\ \/ /\ rsock[t] = sock /\ inbox # <<>>
          /\ readbuf' = [readbuf EXCEPT ![0] = Head(inbox)]
          /\ inbox' = Tail(inbox)
          /\ Step(t, "length") /\ UNCHANGED rc
       \/ /\ rsock[t] = sock /\ inbox = <<>> /\ link = "eof"
          /\ rc' = [rc EXCEPT ![t] = 0]
          /\ Step(t, "act") /\ UNCHANGED <<readbuf, inbox>>
       \/ /\ rsock[t] = sock /\ inbox = <<>> /\ link = "up"
          /\ rc' = [rc EXCEPT ![t] = TimedOut]
          /\ Step(t, "exit") /\ UNCHANGED <<readbuf, inbox>>
       \/ /\ rsock[t] # sock \/ link \notin {"up", "eof"}
          /\ rc' = [rc EXCEPT ![t] = Failed]
          /\ Step(t, "exit") /\ UNCHANGED <<readbuf, inbox>>
    /\ rsock' = [rsock EXCEPT ![t] = 0]
    /\ UNCHANGED <<sessionVars, timerVars, taskVars, rem,
                   sockVars, link, asked, pinged, answers>>

\* decodePacket is done, with these bytes: the length is put into readbuf.  A packet
\* that does not fit is given up (BUFFER_OVERFLOW).
LengthRead(t, bytes) ==
    LET n == Value(bytes)
    IN /\ readbuf' = Put(1, Encode(n))
       /\ \/ /\ n <= ReadbufSize - (1 + Digits(n))
             /\ Step(t, "rest") /\ rem' = [rem EXCEPT ![t] = bytes] /\ UNCHANGED rc
          \/ /\ n > ReadbufSize - (1 + Digits(n))
             /\ Step(t, "exit") /\ rem' = [rem EXCEPT ![t] = <<>>]
             /\ rc' = [rc EXCEPT ![t] = Failed]

\* One byte of the length is read, or none comes: a failure of mqttread ends
\* decodePacket, which keeps the value so far and returns no error.
ReadLength(t) ==
    \E more \in BOOLEAN :
        LET bytes == IF more THEN Append(rem[t], Head(inbox)) ELSE rem[t]
        IN /\ pc[t] = "length"
           /\ more => inbox # <<>>
           /\ ~more => ~PacketsWhole \/ inbox = <<>>
           /\ inbox' = IF more THEN Tail(inbox) ELSE inbox
           /\ IF more /\ Head(inbox) >= 128 /\ Len(bytes) < 4
              THEN rem' = [rem EXCEPT ![t] = bytes] /\ UNCHANGED <<pc, rc, readbuf>>
              ELSE LengthRead(t, bytes)
           /\ UNCHANGED <<sessionVars, timerVars, taskVars, rsock,
                          sockVars, link, asked, pinged, answers>>

\* The rest is there.
RestArrives(t) ==
    LET n == Value(rem[t])
    IN /\ pc[t] = "rest" /\ n <= Len(inbox)
       /\ inbox' = SubSeq(inbox, n + 1, Len(inbox))
       /\ readbuf' = Put(1 + Digits(n), SubSeq(inbox, 1, n))
       /\ rc' = [rc EXCEPT ![t] = readbuf[0] \div 16]
       /\ receivedExpired' = FALSE

\* Less than the rest comes; it is taken all the same.
RestMissing(t) ==
    LET n == Value(rem[t])
    IN /\ pc[t] = "rest" /\ n > Len(inbox)
       /\ inbox' = <<>>
       /\ readbuf' = Put(1 + Digits(n), inbox)
       /\ rc' = [rc EXCEPT ![t] = 0]
       /\ UNCHANGED receivedExpired

\* The end of readPacket; the packet type is that of whatever readbuf[0] holds by now.
ReadRest(t) ==
    /\ RestArrives(t) \/ RestMissing(t)
    /\ Step(t, "act")
    /\ rem' = [rem EXCEPT ![t] = <<>>]
    /\ UNCHANGED <<sessionVars, taskVars, sentExpired, commandExpired, rsock,
                   sockVars, link, asked, pinged, answers>>

\* A PINGREQ is sent, or not.
SendPing(result) ==
    /\ result => CanSend
    /\ sentExpired' = (sentExpired /\ ~result)
    /\ pinged' = (pinged \/ (result /\ link = "up" /\ Accepted(sock)))

KeepaliveForgetsPing(outstanding, failed) ==
    \/ /\ ~(sentExpired \/ receivedExpired)
       /\ failed = FALSE /\ ping_outstanding' = outstanding
       /\ UNCHANGED <<sentExpired, pinged>>
    \/ /\ sentExpired \/ receivedExpired
       /\ \E sent \in BOOLEAN :
            /\ SendPing(sent)
            /\ ping_outstanding' = (outstanding \/ sent)
            /\ failed = ~sent

\* keepalive and, when it fails, the choice of cycle: on a fatal socket error
\* it queues a message nobody reads, otherwise keepaliveRetry pings again (the
\* retry count is never incremented).
Keepalive(outstanding, failed) ==
    \/ /\ ~(sentExpired \/ receivedExpired)
       /\ failed = FALSE /\ ping_outstanding' = outstanding
       /\ UNCHANGED <<sentExpired, pinged>>
    \/ /\ sentExpired \/ receivedExpired
       /\ ~outstanding
       /\ failed = FALSE
       /\ SendPing(TRUE) /\ ping_outstanding' = TRUE
    \/ /\ sentExpired \/ receivedExpired
       /\ failed = TRUE
       /\ \E again \in BOOLEAN :
            /\ SendPing(again)
            /\ ping_outstanding' = (outstanding \/ again)

\* The switch over the packet types, then keepalive.
Act(t) ==
    /\ pc[t] = "act" /\ Step(t, "exit")
    /\ \E failed \in BOOLEAN :
         /\ Keepalive(ping_outstanding /\ rc[t] # PINGRESP, failed)
         /\ rc' = IF failed THEN [rc EXCEPT ![t] = Failed] ELSE rc
    /\ UNCHANGED <<isconnected, receivedExpired, commandExpired, readbuf, rsock, rem, taskVars,
                   sockVars, link, inbox, asked, answers>>

\* exit: a failure closes the session, if there is one.  A background thread
\* begins the next cycle; what the task does is said below.
Exit(t) ==
    /\ pc[t] = "exit"
    /\ IF rc[t] < 0 /\ isconnected THEN MQTTCloseSession ELSE UNCHANGED sessionVars
    /\ rc' = [rc EXCEPT ![t] = 0]
    /\ UNCHANGED <<timerVars, netVars, readbuf, rsock, rem>>

Read(t) == CallRead(t) \/ ReadHeader(t) \/ ReadLength(t) \/ ReadRest(t) \/ Act(t)

BackgroundThread(t) == Read(t) \/ (Exit(t) /\ Step(t, "call") /\ UNCHANGED taskVars)

-----------------------------------------------------------------------------
(* The task: HT_PUBLISH_CHUNK and HT_FSM_MQTTReconnect.                    *)

Goto(label) == fsm' = label

\* An image is complete.
ImageComplete ==
    /\ fsm = "wait" /\ image < NumImages
    /\ Goto("ensure")
    /\ image' = image + 1
    /\ UNCHANGED <<sessionVars, timerVars, netVars, readVars, retry_count, published, written>>

EnsureConnectedOnceMore ==
    /\ fsm = "ensure"
    /\ Goto(IF ~isconnected /\ retry_count <= MaxRetries THEN "disconnect" ELSE "commence")
    /\ UNCHANGED <<sessionVars, timerVars, netVars, readVars,
                   image, retry_count, published, written>>

\* while (!mqttClient.isconnected && retry_count < 3)
EnsureConnected ==
    /\ fsm = "ensure"
    /\ Goto(IF ~isconnected /\ retry_count < MaxRetries THEN "disconnect" ELSE "commence")
    /\ UNCHANGED <<sessionVars, timerVars, netVars, readVars,
                   image, retry_count, published, written>>

\* Discard the image, or begin to upload it.
Commence ==
    /\ fsm = "commence"
    /\ Goto(IF isconnected THEN "upload" ELSE "wait")
    /\ retry_count' = 0
    /\ UNCHANGED <<sessionVars, timerVars, netVars, readVars, image, published, written>>

DisconnectForgotten ==
    /\ fsm = "disconnect" /\ Goto("init")
    /\ link' = "closed" /\ inbox' = <<>>
    /\ asked' = FALSE /\ pinged' = FALSE
    /\ UNCHANGED <<sessionVars, timerVars, readVars, sockVars, answers,
                   image, retry_count, published, written>>

\* mqttNetwork.disconnect closes my_socket.
Disconnect ==
    /\ fsm = "disconnect" /\ Goto("init")
    /\ open' = open \ {sock}
    /\ link' = "closed" /\ inbox' = <<>>
    /\ asked' = FALSE /\ pinged' = FALSE
    /\ UNCHANGED <<sessionVars, timerVars, readVars, sock, created, answers,
                   image, retry_count, published, written>>

\* NetworkInit: my_socket = -1.
NetworkInit ==
    /\ fsm = "init" /\ Goto("socket")
    /\ sock' = 0
    /\ UNCHANGED <<sessionVars, timerVars, readVars, created, open, link, inbox, asked, pinged,
                   answers, image, retry_count, published, written>>

\* NetworkSetConnTimeout creates a socket and may fail before or after that.
NetworkSetConnTimeout ==
    /\ fsm = "socket"
    /\ \/ Goto("attempted") /\ UNCHANGED netVars
       \/ /\ created < MaxSockets
          /\ Goto("connect") \/ Goto("attempted")
          /\ created' = created + 1 /\ sock' = created'
          /\ open' = open \union {sock'} /\ link' = "new"
          /\ UNCHANGED <<inbox, asked, pinged, answers>>
    /\ UNCHANGED <<sessionVars, timerVars, readVars, image, retry_count, published, written>>

\* TCP connect of my_socket; a failure leaves the socket open.
NetworkConnect ==
    /\ fsm = "connect"
    /\ \/ Goto("mqttconnect") /\ link' = "up"
       \/ Goto("attempted") /\ UNCHANGED link
    /\ UNCHANGED <<sessionVars, timerVars, readVars, sockVars, inbox, asked, pinged,
                   answers, image, retry_count, published, written>>

\* MQTTConnectWithResults: it refuses to connect twice; otherwise it sets the
\* timers and sends CONNECT.
SendConnect ==
    /\ fsm = "mqttconnect"
    /\ \/ /\ ~isconnected /\ CanSend
          /\ Goto("waitfor")
          /\ sentExpired' = FALSE /\ receivedExpired' = FALSE /\ commandExpired' = FALSE
          /\ asked' = (link = "up")
       \/ /\ Goto("refused")
          /\ receivedExpired' = (receivedExpired /\ isconnected)
          /\ UNCHANGED <<sentExpired, commandExpired, asked>>
    /\ UNCHANGED <<sessionVars, readVars, sockVars, link, inbox, pinged,
                   answers, image, retry_count, published, written>>

\* waitfor: begin another cycle, unless the command timer has run out.
WaitFor ==
    /\ fsm = "waitfor" /\ pc[FSM] = "idle"
    /\ IF commandExpired
       THEN Goto("refused") /\ UNCHANGED pc
       ELSE Step(FSM, "call") /\ UNCHANGED fsm
    /\ UNCHANGED <<sessionVars, timerVars, netVars, readbuf, rsock, rem, rc,
                   image, retry_count, published, written>>

WaitForAnything ==
    /\ Exit(FSM) /\ Step(FSM, "idle")
    /\ Goto(IF rc[FSM] < 0 THEN "refused" ELSE "connack")
    /\ UNCHANGED <<image, retry_count, published, written>>

\* ... until cycle returns CONNACK or a negative result.
WaitForExit ==
    /\ Exit(FSM) /\ Step(FSM, "idle")
    /\ Goto(IF rc[FSM] = CONNACK THEN "connack" ELSE IF rc[FSM] < 0 THEN "refused" ELSE "waitfor")
    /\ UNCHANGED <<image, retry_count, published, written>>

\* MQTTDeserialize_connack of readbuf: of a packet shorter than two bytes it returns
\* how many bytes the length takes, and 1 means success; the return code then is what
\* it was set to, 0.  With a length byte of 128 or more the code is where the model
\* keeps no byte: any outcome.
ConnackAccepts(accepts) ==
    /\ accepts => readbuf[0] \div 16 = CONNACK
    /\ readbuf[0] \div 16 = CONNACK /\ readbuf[1] < 128 => accepts = (readbuf[1] < 2 \/ readbuf[3] = 0)

\* The end of MQTTConnectWithResults.
ReadConnack ==
    /\ fsm = "connack"
    /\ \/ ConnackAccepts(TRUE) /\ Goto("reconnected")
          /\ isconnected' = TRUE /\ ping_outstanding' = FALSE
       \/ ConnackAccepts(FALSE) /\ Goto("refused") /\ UNCHANGED sessionVars
    /\ UNCHANGED <<timerVars, netVars, readVars, image, retry_count, published, written>>

\* HT_FSM_MQTTReconnect writes isconnected once more, as MQTTConnect returned.
SetConnected ==
    /\ \/ fsm = "reconnected" /\ isconnected' = TRUE
       \/ fsm = "refused" /\ isconnected' = FALSE
    /\ Goto("attempted") /\ commandExpired' = FALSE
    /\ UNCHANGED <<ping_outstanding, sentExpired, receivedExpired, netVars, readVars,
                   image, retry_count, published, written>>

AttemptedUncounted ==
    /\ fsm = "attempted" /\ Goto("ensure")
    /\ UNCHANGED <<sessionVars, timerVars, netVars, readVars,
                   image, retry_count, published, written>>

\* A failed attempt is counted.
Attempted ==
    /\ fsm = "attempted" /\ Goto("ensure")
    /\ retry_count' = IF isconnected THEN retry_count ELSE retry_count + 1
    /\ UNCHANGED <<sessionVars, timerVars, netVars, readVars, image, published, written>>

\* while (published < image_len), and the test of MQTTPublish, which returns
\* FAILURE and closes the session again if there is none.
Upload ==
    /\ fsm = "upload"
    /\ \/ /\ published < NumChunks /\ isconnected
          /\ Goto("write") /\ UNCHANGED <<sessionVars, published>>
       \/ /\ published < NumChunks /\ ~isconnected
          /\ UNCHANGED fsm /\ MQTTCloseSession
          /\ published' = published + 1
       \/ /\ published = NumChunks
          /\ Goto("published") /\ UNCHANGED <<sessionVars, published>>
    /\ UNCHANGED <<timerVars, netVars, readVars, image, retry_count, written>>

WriteKeepsSession ==
    /\ fsm = "write" /\ Goto("upload")
    /\ published' = published + 1
    /\ \/ CanSend /\ written' = written + 1 /\ sentExpired' = FALSE
       \/ UNCHANGED <<written, sentExpired>>
    /\ UNCHANGED <<sessionVars, receivedExpired, commandExpired, netVars, readVars, image,
                   retry_count>>

\* sendPacket of the chunk; its failure closes the session and is forgotten.
Write ==
    /\ fsm = "write" /\ Goto("upload")
    /\ published' = published + 1
    /\ \/ CanSend /\ written' = written + 1 /\ sentExpired' = FALSE /\ UNCHANGED sessionVars
       \/ MQTTCloseSession /\ UNCHANGED <<written, sentExpired>>
    /\ UNCHANGED <<receivedExpired, commandExpired, netVars, readVars, image, retry_count>>

\* "All chunks published!  Waiting for next image..."
AllPublished ==
    /\ fsm = "published" /\ Goto("wait")
    /\ published' = 0 /\ written' = 0
    /\ UNCHANGED <<sessionVars, timerVars, netVars, readVars, image, retry_count>>

Task ==
    \/ EnsureConnected \/ Commence
    \/ Disconnect \/ NetworkInit \/ NetworkSetConnTimeout \/ NetworkConnect
    \/ SendConnect \/ WaitFor
    \/ (Read(FSM) /\ UNCHANGED taskVars) \/ WaitForExit
    \/ ReadConnack \/ SetConnected \/ Attempted
    \/ Upload \/ Write \/ AllPublished

-----------------------------------------------------------------------------

Next == Environment \/ ImageComplete \/ (\E t \in Background : BackgroundThread(t)) \/ Task

\* The steps that set last_received again.
RestartReceived == SendConnect \/ \E t \in Thread : ReadRest(t) /\ RestArrives(t)

\* The scheduler runs each thread, and the calls of the network return.  Time passes:
\* the timer of a waitfor runs out if that lasts, and last_received does unless it is
\* set again.  Nothing is assumed of what the broker and the camera do.
Fairness ==
    /\ WF_vars(Task)
    /\ \A t \in Background : WF_vars(BackgroundThread(t))
    /\ WF_vars(CommandTimerExpires)
    /\ WF_vars(ReceivedExpires \/ RestartReceived)

Spec == Init /\ [][Next]_vars /\ Fairness

-----------------------------------------------------------------------------
(* Properties.                                                             *)

FsmStates == {"wait", "ensure", "commence", "disconnect", "init", "socket", "connect",
              "mqttconnect", "waitfor", "connack", "reconnected", "refused",
              "attempted", "upload", "write", "published"}

TypeOK ==
    /\ {isconnected, ping_outstanding} \subseteq BOOLEAN
    /\ {sentExpired, receivedExpired, commandExpired} \subseteq BOOLEAN
    /\ readbuf \in [ReadbufIndices -> 0 .. 255]
    /\ created \in 1 .. MaxSockets /\ sock \in 0 .. created /\ open \subseteq 1 .. created
    /\ link \in {"new", "up", "eof", "reset", "closed"} /\ inbox \in Seq(0 .. 255)
    /\ {asked, pinged} \subseteq BOOLEAN /\ answers \subseteq (1 .. created) \X {0, 5}
    /\ pc \in [Thread -> {"idle", "call", "header", "length", "rest", "act", "exit"}]
    /\ rsock \in [Thread -> 0 .. created]
    /\ rem \in [Thread -> Seq(0 .. 255)]
    /\ rc \in [Thread -> {TimedOut, Failed} \union 0 .. 15]
    /\ fsm \in FsmStates /\ image \in 0 .. NumImages /\ retry_count \in 0 .. MaxRetries
    /\ published \in 0 .. NumChunks /\ written \in 0 .. published

\* isconnected is only TRUE while my_socket is open and the broker has answered the
\* CONNECT on it, whatever bytes the threads take from each other: the stale bytes
\* of readbuf alone are never taken for an answer.
ConnectedMeansAnswered == isconnected => sock \in open /\ Answered(sock)

\* A chunk is only written to an open connection with such an answer, also when the
\* session is closed and opened again between the test of isconnected and the write.
ChunksOnlyAfterAnswer == [][written' > written => sock \in open /\ Answered(sock)]_vars

\* "wait for a Connack ... @return success code" (MQTTConnect): the session is only
\* believed in when the broker has accepted the CONNECT.
ConnectedMeansAccepted == isconnected => Accepted(sock)

\* "Close old socket safely to avoid descriptor leaks": however an attempt to
\* reconnect ends, no socket is open but my_socket.
NoSocketLeaks == open \subseteq {sock}

\* A session whose peer has closed the connection is closed in the end: reads
\* return 0, which cycle takes for a timeout, so the keep-alive must find out.
DeadSessionNoticed == (isconnected /\ link = "eof") ~> ~isconnected

\* The task comes back to the camera, or another reconnection succeeds: one that is
\* undone before the loop looks at isconnected is not counted, but every other attempt
\* is, and each ends.
TaskReturns == (fsm # "wait") ~> (fsm \in {"wait", "reconnected"})

\* What is written of an image is a beginning of it: HT_MQTT_Publish drops the
\* result of a failed chunk and the upload goes on, but no later chunk follows a
\* hole, for nobody reconnects before the upload has ended.
UploadIsPrefix == [][written' > written => written = published]_vars

\* A read that timed out on a silent connection is no reason to close the
\* session: "timed out reading packet" is a case of its own in cycle.
TimeoutKeepsSession ==
    [][\A t \in Thread :
         (pc[t] = "exit" /\ pc'[t] # "exit" /\ rc[t] = TimedOut) => isconnected' = isconnected]_vars
=============================================================================
