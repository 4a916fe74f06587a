-------------------------------- MODULE Boot --------------------------------
(***************************************************************************)
(* The start of the modem firmware: the network events of the protocol     *)
(* stack, the queue they go to, the task that waits for the SIM and then   *)
(* for the network and enters HT_Fsm for ever, the first connection, the   *)
(* threads it leaves behind, and the queue of reconnect messages those     *)
(* threads fill.                                                           *)
(*                                                                         *)
(* A queue is the number of its messages: every message says the same.  A  *)
(* queue that was not made takes none.  What the threads read and send is  *)
(* MqttSession's matter; here they only find that a keep-alive failed, and *)
(* the session is the flag isconnected.                                    *)
(*                                                                         *)
(* SendQueueMsgUnchecked, SendWhenSimReady, ReceiveLeavesLoop,             *)
(* ConnectResultIgnored, MakeDataQueueOnly, and SendReconnectForever are   *)
(* faulty variants of the definition after them: no behaviour uses them.   *)
(***************************************************************************)
EXTENDS Integers

CONSTANTS
    EventQueueSize,     \* APP_EVENT_QUEUE_SIZE
    ReconnectQueueSize  \* the 16 of mqttSendMsgHandle

ASSUME SizesAssumption == {EventQueueSize, ReconnectQueueSize} \subseteq Nat \ {0}

VARIABLES
    pc,             \* where HT_MQTTExampleTask is
    announced,      \* the stack has announced the SIM
    simReady,
    queue,          \* messages in psEventQueueHandle
    late,           \* a network came up after that queue was made
    threads,        \* the threads made: "led", "yield", "recv"
    at,             \* of "yield" and "recv": what they do
    reconnectQueue, \* mqttSendMsgHandle: "none" yet, "made", or creating it has "failed"
    reconnects,     \* its messages
    linked,         \* my_socket has been connected, whatever became of it
    isconnected,
    socketless,     \* HT_MQTT_Connect got no socket and returned 0
    halted          \* an assertion of FreeRTOS has stopped the modem

eventVars == <<announced, simReady, queue, late>>
threadVars == <<threads, at, reconnectQueue, reconnects, halted>>
sessionVars == <<linked, isconnected, socketless>>
vars == <<pc, eventVars, threadVars, sessionVars>>

Reader == {"yield", "recv"}

\* The statements of HT_MQTTExampleTask before the queue is there, and before
\* HT_Fsm begins.
BeforeQueue == {"register", "create"}
BeforeFsm == BeforeQueue \union {"sim", "wait"}

Init ==
    /\ pc = "register"
    /\ announced = FALSE /\ simReady = FALSE /\ queue = 0 /\ late = FALSE
    /\ threads = {} /\ at = [t \in Reader |-> "start"]
    /\ reconnectQueue = "none" /\ reconnects = 0
    /\ linked = FALSE /\ isconnected = FALSE /\ socketless = FALSE /\ halted = FALSE

-----------------------------------------------------------------------------
(* registerPSUrcCallback, called by the protocol stack.  What the stack     *)
(* announces before the callback is registered is missed.                   *)

\* NB_URC_ID_SIM_READY, once.
SimReady ==
    /\ ~halted /\ ~announced
    /\ announced' = TRUE
    /\ simReady' = (pc # "register")
    /\ UNCHANGED <<pc, queue, late, threadVars, sessionVars>>

SendQueueMsgUnchecked == queue' = IF queue < EventQueueSize THEN queue + 1 ELSE queue

SendWhenSimReady ==
    queue' = IF simReady /\ pc \notin BeforeQueue /\ queue < EventQueueSize
             THEN queue + 1 ELSE queue

\* sendQueueMsg: no message if there is no queue, or no room in it.
SendQueueMsg ==
    queue' = IF pc \notin BeforeQueue \union {"returned"} /\ queue < EventQueueSize
             THEN queue + 1 ELSE queue

\* NB_URC_ID_PS_NETINFO, activated: as often as the network comes up.  That it
\* went down is not told to anyone.
NetworkUp ==
    /\ ~halted /\ pc # "register"
    /\ SendQueueMsg
    /\ late' = (late \/ pc \notin BeforeQueue)
    /\ UNCHANGED <<pc, announced, simReady, threadVars, sessionVars>>

-----------------------------------------------------------------------------
(* HT_MQTTExampleTask.                                                     *)

Goto(from, to) == ~halted /\ pc = from /\ pc' = to

Register ==
    /\ Goto("register", "create")
    /\ UNCHANGED <<eventVars, threadVars, sessionVars>>

\* xQueueCreate can fail, and the task returns.
CreateQueue ==
    /\ Goto("create", "sim") \/ Goto("create", "returned")
    /\ UNCHANGED <<eventVars, threadVars, sessionVars>>

\* while (!simReady);
WaitForSim ==
    /\ simReady /\ Goto("sim", "wait")
    /\ UNCHANGED <<eventVars, threadVars, sessionVars>>

ReceiveLeavesLoop ==
    /\ queue > 0 /\ queue' = queue - 1
    /\ Goto("wait", "wait")
    /\ UNCHANGED <<announced, simReady, late, threadVars, sessionVars>>

\* The first message starts HT_Fsm.
Receive ==
    /\ queue > 0 /\ queue' = queue - 1
    /\ Goto("wait", "socket")
    /\ UNCHANGED <<announced, simReady, late, threadVars, sessionVars>>

\* NetworkSetConnTimeout: without a socket HT_MQTT_Connect skips the connection
\* and returns 0.
CreateSocket ==
    /\ \/ Goto("socket", "connect") /\ UNCHANGED socketless
       \/ Goto("socket", "led") /\ socketless' = TRUE
    /\ UNCHANGED <<eventVars, threadVars, linked, isconnected>>

ConnectResultIgnored ==
    /\ \/ Goto("connect", "recv") /\ linked' = TRUE /\ isconnected' = TRUE
       \/ Goto("connect", "led") /\ UNCHANGED <<linked, isconnected>>
    /\ UNCHANGED <<eventVars, threadVars, socketless>>

\* NetworkConnect and MQTTConnect.  When they fail HT_Fsm spins for ever.
Connect ==
    /\ \/ Goto("connect", "recv") /\ linked' = TRUE /\ isconnected' = TRUE
       \/ Goto("connect", "stuck") /\ UNCHANGED <<linked, isconnected>>
    /\ UNCHANGED <<eventVars, threadVars, socketless>>

Make(t) == threads' = threads \union {t}

\* MQTTStartRECVTask; also without this thread HT_Fsm spins for ever.
StartRecv ==
    /\ \/ Goto("recv", "led") /\ Make("recv")
       \/ Goto("recv", "stuck") /\ UNCHANGED threads
    /\ UNCHANGED <<eventVars, at, reconnectQueue, reconnects, halted, sessionVars>>

StartLed ==
    /\ Goto("led", "yield") /\ Make("led")
    /\ UNCHANGED <<eventVars, at, reconnectQueue, reconnects, halted, sessionVars>>

StartYield ==
    /\ Goto("yield", "startrx") /\ Make("yield")
    /\ UNCHANGED <<eventVars, at, reconnectQueue, reconnects, halted, sessionVars>>

\* HT_USART_StartRX: from now on the camera is heard.
StartRX ==
    /\ Goto("startrx", "listening")
    /\ UNCHANGED <<eventVars, threadVars, sessionVars>>

\* An image is complete and the session is down: HT_FSM_MQTTReconnect, which
\* starts no thread, connects its socket or not, and the session or not.
Reconnect ==
    /\ ~isconnected /\ Goto("listening", "listening")
    /\ linked' \in BOOLEAN /\ isconnected' \in {FALSE, linked'}
    /\ UNCHANGED <<eventVars, threadVars, socketless>>

Task ==
    \/ Register \/ CreateQueue \/ WaitForSim \/ Receive
    \/ CreateSocket \/ Connect \/ StartRecv \/ StartLed \/ StartYield \/ StartRX

-----------------------------------------------------------------------------
(* The reader threads.                                                      *)

Move(t, from, to) ==
    /\ ~halted /\ t \in threads /\ at[t] = from
    /\ at' = [at EXCEPT ![t] = to]

MakeDataQueueOnly(t) == UNCHANGED reconnectQueue

\* MQTTRun makes the queue of reconnect messages when it first runs.  xQueueCreate can
\* fail; nobody looks at its result or tries again.
MakeReconnectQueue(t) ==
    IF t = "recv" THEN reconnectQueue' \in {"made", "failed"} ELSE UNCHANGED reconnectQueue

Start(t) ==
    /\ Move(t, "start", "read")
    /\ MakeReconnectQueue(t)
    /\ UNCHANGED <<pc, eventVars, threads, reconnects, halted, sessionVars>>

\* MQTTRun makes mqttMutex1 too.  If that fails, an assertion does when it is locked.
LockFails ==
    /\ ~halted /\ "recv" \in threads /\ at["recv"] = "start"
    /\ MakeReconnectQueue("recv")
    /\ halted' = TRUE
    /\ UNCHANGED <<pc, eventVars, threads, at, reconnects, sessionVars>>

\* cycle has failed.  If it has read something, or that the peer has closed the
\* connection, it may be that the keep-alive failed with a fatal error of the
\* socket, and there is a message to send.  Either way the session is closed.
CycleFails(t) ==
    /\ \/ linked /\ Move(t, "read", "send")
       \/ Move(t, "read", "close")
    /\ UNCHANGED <<pc, eventVars, threads, reconnectQueue, reconnects, halted, sessionVars>>

SendReconnectForever(t) ==
    /\ Move(t, "send", "close")
    /\ reconnectQueue = "made" /\ reconnects < ReconnectQueueSize
    /\ reconnects' = reconnects + 1
    /\ UNCHANGED <<pc, eventVars, threads, reconnectQueue, halted, sessionVars>>

\* xQueueSend: into the queue, or not after a second in which it is full, for
\* nobody receives from it; and an assertion fails if it was not made.
SendReconnect(t) ==
    /\ Move(t, "send", "close")
    /\ halted' = (reconnectQueue # "made")
    /\ reconnects' = IF reconnectQueue = "made" /\ reconnects < ReconnectQueueSize
                     THEN reconnects + 1 ELSE reconnects
    /\ UNCHANGED <<pc, eventVars, threads, reconnectQueue, sessionVars>>

Close(t) ==
    /\ Move(t, "close", "read")
    /\ isconnected' = FALSE
    /\ UNCHANGED <<pc, eventVars, threads, reconnectQueue, reconnects, halted,
                   linked, socketless>>

Goes(t) == Start(t) \/ SendReconnect(t) \/ Close(t)

-----------------------------------------------------------------------------

Next ==
    \/ SimReady \/ NetworkUp \/ Task \/ Reconnect
    \/ \E t \in Reader : Goes(t) \/ CycleFails(t)
    \/ LockFails

\* The task and the yield thread have the same priority and share the processor;
\* the receive thread has a lower one, and nothing makes sure that it runs.  Calls
\* that wait for the network or for a queue end by their timeouts.  The SIM, the
\* network, and what goes wrong come when they like.
Fairness == WF_vars(Task) /\ WF_vars(Goes("yield"))

Spec == Init /\ [][Next]_vars /\ Fairness

-----------------------------------------------------------------------------
(* Properties.                                                             *)

TypeOK ==
    /\ pc \in BeforeFsm \union
              {"returned", "socket", "connect", "recv", "led", "yield", "startrx",
               "listening", "stuck"}
    /\ announced \in BOOLEAN /\ simReady \in BOOLEAN /\ late \in BOOLEAN
    /\ reconnectQueue \in {"none", "made", "failed"} /\ halted \in BOOLEAN
    /\ linked \in BOOLEAN /\ isconnected \in BOOLEAN /\ socketless \in BOOLEAN
    /\ simReady => announced
    /\ queue \in 0 .. EventQueueSize /\ (pc \in BeforeQueue => queue = 0)
    /\ threads \subseteq Reader \union {"led"}
    /\ at \in [Reader -> {"start", "read", "send", "close"}]
    /\ reconnects \in 0 .. ReconnectQueueSize
    /\ reconnects > 0 => reconnectQueue = "made"

\* Once there is a queue, the news that the network is up is not lost, however
\* long the SIM takes and however often the network comes up: only what came
\* before the queue can leave the task waiting.
StartNotMissed == late /\ pc \in {"sim", "wait"} => queue > 0

\* With the SIM ready and the network up the application starts, or stops at
\* the one place where it gives up: the first connection.
StartDecides == simReady /\ queue > 0 ~> pc \in {"listening", "stuck"} \/ halted

\* Who hears the camera has somebody to read the session: the yield thread
\* always, and the receive thread unless there was no socket at the start.
ListeningMeansServed ==
    pc = "listening" =>
        /\ "yield" \in threads
        /\ "recv" \in threads \/ socketless

\* Messages to a reconnect task that does not exist fill the queue, but the yield
\* thread goes on: it never stays in xQueueSend, unless the assertion stops it.
YieldGoesOn == at["yield"] = "send" ~> at["yield"] = "read" \/ halted

\* The modem is only halted while the receive thread has not come to its loop (not
\* made, not run, or without its mutex), or when that thread could not make the queue.
HaltsWithoutReceiver == halted => at["recv"] = "start" \/ reconnectQueue = "failed"
=============================================================================
