----------------------------- MODULE BootProofs -----------------------------
(***************************************************************************)
(* Theorems about Boot, for queues of any size.                            *)
(***************************************************************************)
EXTENDS Boot, TLAPS

(***************************************************************************)
(* None of the three invariants is inductive.  That news of the network    *)
(* is not missed needs that none was counted before the queue was made;    *)
(* that the camera is heard only with readers, which threads there are at  *)
(* each statement on the way; and that the modem is not halted once the    *)
(* receive thread is in its loop, that this thread has tried to make the   *)
(* queue.                                                                  *)
(***************************************************************************)
NewsInv ==
    /\ pc \in BeforeQueue => ~late
    /\ StartNotMissed

ReadersInv ==
    /\ pc \in {"led", "yield", "startrx", "listening"} => "recv" \in threads \/ socketless
    /\ pc \in {"startrx", "listening"} => "yield" \in threads

HaltInv ==
    /\ at["recv"] # "start" => reconnectQueue # "none"
    /\ at["recv"] = "start" /\ ~halted => reconnectQueue = "none"
    /\ HaltsWithoutReceiver

BootInv == TypeOK /\ NewsInv /\ ReadersInv /\ HaltInv

\* The sizes as numbers.
LEMMA Sizes ==
    /\ EventQueueSize \in Nat /\ EventQueueSize > 0
    /\ ReconnectQueueSize \in Nat /\ ReconnectQueueSize > 0
  BY SizesAssumption DEF SizesAssumption

\* The invariant holds when the modem is switched on.
LEMMA BootInit == Init => BootInv
  <1> SUFFICES ASSUME Init
               PROVE  BootInv
    OBVIOUS
  <1>1. TypeOK
    <2>1. queue \in 0 .. EventQueueSize /\ reconnects \in 0 .. ReconnectQueueSize
      BY Sizes DEF Init
    <2>2. at \in [Reader -> {"start", "read", "send", "close"}]
      BY DEF Init
    <2>3. pc \in BeforeFsm /\ threads \subseteq Reader \union {"led"}
      BY DEF Init, BeforeFsm, BeforeQueue
    <2>4. reconnects > 0 => reconnectQueue = "made"
      BY DEF Init
    <2> QED
      BY <2>1, <2>2, <2>3, <2>4 DEF Init, TypeOK
  <1>2. NewsInv /\ ReadersInv /\ HaltInv
    BY DEF Init, NewsInv, StartNotMissed, ReadersInv, HaltInv, HaltsWithoutReceiver,
       BeforeQueue, Reader
  <1> QED
    BY <1>1, <1>2 DEF BootInv

\* Events keep the types, and news is put into the queue once there is one.
LEMMA EventsKeep == BootInv /\ (SimReady \/ NetworkUp) => BootInv'
  <1> SUFFICES ASSUME BootInv, SimReady \/ NetworkUp
               PROVE  BootInv'
    OBVIOUS
  <1>1. TypeOK /\ TypeOK'
    <2>1. TypeOK
      BY DEF BootInv
    <2>2. CASE SimReady
      BY <2>1, <2>2 DEF TypeOK, SimReady, threadVars, sessionVars
    <2>3. CASE NetworkUp
      <3>1. queue' \in 0 .. EventQueueSize /\ (pc \in BeforeQueue => queue' = 0)
        BY <2>1, <2>3, Sizes DEF TypeOK, NetworkUp, SendQueueMsg
      <3>2. late' \in BOOLEAN
        BY <2>1, <2>3 DEF TypeOK, NetworkUp
      <3> QED
        BY <2>1, <2>3, <3>1, <3>2 DEF TypeOK, NetworkUp, threadVars, sessionVars
    <2> QED
      BY <2>1, <2>2, <2>3
  <1>2. NewsInv'
    BY <1>1, Sizes DEF BootInv, TypeOK, NewsInv, StartNotMissed, BeforeQueue, SimReady,
       NetworkUp, SendQueueMsg
  <1>3. ReadersInv' /\ HaltInv'
    BY DEF BootInv, ReadersInv, HaltInv, HaltsWithoutReceiver, SimReady, NetworkUp,
       threadVars, sessionVars
  <1> QED
    BY <1>1, <1>2, <1>3 DEF BootInv

\* The task keeps the types.
LEMMA TaskTypes == TypeOK /\ (Task \/ Reconnect) => TypeOK'
  <1> SUFFICES ASSUME TypeOK, Task \/ Reconnect
               PROVE  TypeOK'
    OBVIOUS
  <1> USE DEF TypeOK, BeforeFsm, BeforeQueue, Goto, eventVars, threadVars, sessionVars
  <1>1. CASE Register \/ CreateQueue \/ WaitForSim
    BY <1>1 DEF Register, CreateQueue, WaitForSim
  <1>2. CASE Receive
    BY <1>2, Sizes DEF Receive
  <1>3. CASE CreateSocket
    BY <1>3 DEF CreateSocket
  <1>4. CASE Connect
    BY <1>4 DEF Connect
  <1>5. CASE StartRecv \/ StartLed \/ StartYield
    <2>1. threads' \subseteq Reader \union {"led"}
      BY <1>5 DEF StartRecv, StartLed, StartYield, Make, Reader
    <2>2. CASE StartRecv
      BY <2>1, <2>2 DEF StartRecv
    <2>3. CASE StartLed
      BY <2>1, <2>3 DEF StartLed
    <2>4. CASE StartYield
      BY <2>1, <2>4 DEF StartYield
    <2> QED
      BY <1>5, <2>2, <2>3, <2>4
  <1>6. CASE StartRX
    BY <1>6 DEF StartRX
  <1>7. CASE Reconnect
    BY <1>7 DEF Reconnect
  <1> QED
    BY <1>1, <1>2, <1>3, <1>4, <1>5, <1>6, <1>7 DEF Task

\* Until HT_Fsm the task takes no message but the one it leaves the wait with.
LEMMA TaskNews == NewsInv /\ (Task \/ Reconnect) => NewsInv'
  <1> SUFFICES ASSUME NewsInv, Task \/ Reconnect
               PROVE  NewsInv'
    OBVIOUS
  <1> USE DEF NewsInv, StartNotMissed, BeforeQueue, Goto, eventVars
  <1>1. CASE Register \/ CreateQueue \/ WaitForSim
    BY <1>1 DEF Register, CreateQueue, WaitForSim
  <1>2. CASE Receive
    BY <1>2 DEF Receive
  <1>3. CASE CreateSocket \/ Connect \/ Reconnect
    BY <1>3 DEF CreateSocket, Connect, Reconnect
  <1>4. CASE StartRecv \/ StartLed \/ StartYield \/ StartRX
    BY <1>4 DEF StartRecv, StartLed, StartYield, StartRX
  <1> QED
    BY <1>1, <1>2, <1>3, <1>4 DEF Task

\* On each way to the camera the readers are made before.
LEMMA TaskReaders == ReadersInv /\ (Task \/ Reconnect) => ReadersInv'
  <1> SUFFICES ASSUME ReadersInv, Task \/ Reconnect
               PROVE  ReadersInv'
    OBVIOUS
  <1> USE DEF ReadersInv, Goto, threadVars, sessionVars
  <1>1. CASE Register \/ CreateQueue \/ WaitForSim \/ Receive
    BY <1>1 DEF Register, CreateQueue, WaitForSim, Receive
  <1>2. CASE CreateSocket \/ Connect \/ Reconnect
    BY <1>2 DEF CreateSocket, Connect, Reconnect
  <1>3. CASE StartRecv \/ StartLed \/ StartYield \/ StartRX
    BY <1>3 DEF StartRecv, StartLed, StartYield, StartRX, Make
  <1> QED
    BY <1>1, <1>2, <1>3 DEF Task

\* A step of the task keeps the invariant.
LEMMA TaskKeeps == BootInv /\ (Task \/ Reconnect) => BootInv'
  <1>1. Task \/ Reconnect => UNCHANGED <<at, reconnectQueue, halted>>
    BY DEF Task, Register, CreateQueue, WaitForSim, Receive, CreateSocket, Connect,
       StartRecv, StartLed, StartYield, StartRX, Reconnect, threadVars
  <1> QED
    BY <1>1, TaskTypes, TaskNews, TaskReaders
    DEF BootInv, HaltInv, HaltsWithoutReceiver

\* A failure of the receive thread to make its mutex halts the modem before the loop.
LEMMA LockKeeps == BootInv /\ LockFails => BootInv'
  <1> SUFFICES ASSUME BootInv, LockFails
               PROVE  BootInv'
    OBVIOUS
  <1>1. /\ reconnectQueue' \in {"made", "failed"} /\ halted' = TRUE /\ ~halted /\ at["recv"] = "start"
        /\ UNCHANGED <<pc, eventVars, threads, at, reconnects, sessionVars>>
    BY DEF LockFails, MakeReconnectQueue
  <1>2. reconnects = 0
    BY <1>1, Sizes DEF BootInv, TypeOK, HaltInv
  <1>3. TypeOK'
    BY <1>1, <1>2 DEF BootInv, TypeOK, eventVars, sessionVars
  <1>4. NewsInv' /\ ReadersInv' /\ HaltInv'
    BY <1>1 DEF BootInv, NewsInv, StartNotMissed, ReadersInv, HaltInv, HaltsWithoutReceiver,
       eventVars, sessionVars
  <1> QED
    BY <1>3, <1>4 DEF BootInv

\* The readers: xQueueSend halts the modem only without the queue, and the
\* receive thread has tried to make it before it comes to any send.
LEMMA ReadersKeep ==
    ASSUME NEW t \in Reader, BootInv, Goes(t) \/ CycleFails(t)
    PROVE  BootInv'
  <1>1. at \in [Reader -> {"start", "read", "send", "close"}] /\ ~halted
    BY DEF BootInv, TypeOK, Goes, Start, SendReconnect, Close, CycleFails, Move
  <1>2. /\ at' \in [Reader -> {"start", "read", "send", "close"}]
        /\ at'["recv"] # at["recv"] => t = "recv"
    BY <1>1 DEF Goes, Start, SendReconnect, Close, CycleFails, Move, Reader
  <1>3. UNCHANGED <<pc, eventVars, threads, linked, socketless>>
    BY DEF Goes, Start, SendReconnect, Close, CycleFails, sessionVars
  <1>4. TypeOK'
    <2> USE <1>2, <1>3 DEF BootInv, TypeOK, BeforeFsm, BeforeQueue, eventVars
    <2>1. CASE Start(t)
      <3>1. CASE t = "recv"
        <4>1. reconnectQueue = "none"
          BY <1>1, <2>1, <3>1 DEF HaltInv, Start, Move
        <4>2. reconnects = 0
          BY <4>1, Sizes
        <4> QED
          BY <2>1, <3>1, <4>2 DEF Start, MakeReconnectQueue, sessionVars
      <3>2. CASE t # "recv"
        BY <2>1, <3>2 DEF Start, MakeReconnectQueue, sessionVars
      <3> QED
        BY <3>1, <3>2
    <2>2. CASE SendReconnect(t)
      BY <2>2, Sizes DEF SendReconnect, sessionVars
    <2>3. CASE Close(t)
      <3>1. isconnected' \in BOOLEAN
        BY <2>3 DEF Close
      <3> QED
        BY <2>3, <3>1 DEF Close
    <2>4. CASE CycleFails(t)
      BY <2>4 DEF CycleFails, sessionVars
    <2> QED
      BY <2>1, <2>2, <2>3, <2>4 DEF Goes
  <1>5. NewsInv' /\ ReadersInv'
    BY <1>3 DEF BootInv, NewsInv, StartNotMissed, ReadersInv, eventVars
  <1>6. HaltInv'
    <2> USE <1>1, <1>2 DEF HaltsWithoutReceiver, Move
    <2>1. /\ at["recv"] # "start" => reconnectQueue # "none"
          /\ at["recv"] = "start" /\ ~halted => reconnectQueue = "none"
          /\ reconnectQueue \in {"none", "made", "failed"}
      BY DEF BootInv, HaltInv, TypeOK
    <2>2. CASE Start(t)
      BY <2>1, <2>2 DEF Start, MakeReconnectQueue, HaltInv
    <2>3. CASE SendReconnect(t)
      BY <2>1, <2>3 DEF SendReconnect, HaltInv
    <2>4. CASE Close(t) \/ CycleFails(t)
      BY <2>1, <2>4 DEF Close, CycleFails, HaltInv
    <2> QED
      BY <2>2, <2>3, <2>4 DEF Goes
  <1> QED
    BY <1>4, <1>5, <1>6 DEF BootInv

\* Every step keeps the invariant.
LEMMA BootStep == BootInv /\ [Next]_vars => BootInv'
  <1> SUFFICES ASSUME BootInv, [Next]_vars
               PROVE  BootInv'
    OBVIOUS
  <1>1. CASE UNCHANGED vars
    BY <1>1 DEF vars, eventVars, threadVars, sessionVars, BootInv, TypeOK, NewsInv,
       ReadersInv, HaltInv, StartNotMissed, HaltsWithoutReceiver
  <1>2. CASE Next
    BY <1>2, EventsKeep, TaskKeeps, ReadersKeep, LockKeeps DEF Next
  <1> QED
    BY <1>1, <1>2

\* BootInv holds in every reachable state.
LEMMA BootAlways == Spec => []BootInv
  BY BootInit, BootStep, PTL DEF Spec

-----------------------------------------------------------------------------

\* Types: queues stay within their sizes, and nothing is queued before there is
\* a queue.
THEOREM TypeCorrect == Spec => []TypeOK
  BY BootAlways, PTL DEF BootInv

\* Whatever the order of the SIM, the network and the creation of the queue: a
\* network that comes up after it is not missed.
THEOREM NoStartMissed == Spec => []StartNotMissed
  BY BootAlways, PTL DEF BootInv, NewsInv

\* The camera is not listened to before the session has its readers.
THEOREM CameraHasReaders == Spec => []ListeningMeansServed
  <1>1. BootInv => ListeningMeansServed
    BY DEF BootInv, ReadersInv, ListeningMeansServed
  <1> QED
    BY <1>1, BootAlways, PTL

\* The modem is halted only while the receive thread, which makes the queue and the
\* mutex, has not come to its loop, or when it could not make the queue.
THEOREM HaltNeedsMissingQueue == Spec => []HaltsWithoutReceiver
  BY BootAlways, PTL DEF BootInv, HaltInv
=============================================================================
