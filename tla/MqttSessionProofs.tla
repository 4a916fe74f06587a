-------------------------- MODULE MqttSessionProofs --------------------------
(***************************************************************************)
(* Theorems about MqttSession, for any number of background threads,       *)
(* images, chunks, sockets and attempts.                                   *)
(***************************************************************************)
EXTENDS MqttSession, SequenceTheorems, TLAPS

(***************************************************************************)
(* No socket leaks.  NoSocketLeaks is not inductive: NetworkInit forgets   *)
(* my_socket, and NetworkSetConnTimeout replaces it.  Both are harmless    *)
(* only because the task has closed the old socket by then.                *)
(***************************************************************************)
LeakInv ==
    /\ NoSocketLeaks
    /\ fsm \in {"init", "socket"} => open = {}

\* Where the task is when it leaves "wait", and the other statements that
\* neither make nor close a socket and do not lead to one that does.
TaskElsewhere ==
    \/ ImageComplete \/ EnsureConnected \/ Commence
    \/ NetworkConnect \/ SendConnect \/ WaitFor \/ WaitForExit
    \/ ReadConnack \/ SetConnected \/ Attempted
    \/ Upload \/ Write \/ AllPublished

\* Those statements leave the sockets alone and do not lead to NetworkInit.
LEMMA ElsewhereKeepsSockets ==
    TaskElsewhere => sock' = sock /\ open' = open /\ fsm' \notin {"init", "socket"}
  <1> SUFFICES ASSUME TaskElsewhere
               PROVE  sock' = sock /\ open' = open /\ fsm' \notin {"init", "socket"}
    OBVIOUS
  <1> USE DEF Goto, netVars, sockVars
  <1>1. CASE ImageComplete \/ EnsureConnected \/ Commence
    BY <1>1 DEF ImageComplete, EnsureConnected, Commence
  <1>2. CASE NetworkConnect \/ SendConnect
    BY <1>2 DEF NetworkConnect, SendConnect
  <1>3. CASE WaitFor
    BY <1>3 DEF WaitFor
  <1>4. CASE WaitForExit
    BY <1>4 DEF WaitForExit, Exit
  <1>5. CASE ReadConnack \/ SetConnected \/ Attempted
    BY <1>5 DEF ReadConnack, SetConnected, Attempted
  <1>6. CASE Upload \/ Write \/ AllPublished
    BY <1>6 DEF Upload, Write, AllPublished
  <1> QED
    BY <1>1, <1>2, <1>3, <1>4, <1>5, <1>6 DEF TaskElsewhere

\* Reading and acting on a packet, in any thread, leaves the sockets alone.
LEMMA ReadKeepsSockets ==
    ASSUME NEW t, Read(t)
    PROVE  sock' = sock /\ open' = open
  BY DEF Read, CallRead, ReadHeader, ReadLength, ReadRest, LengthRead, RestArrives, RestMissing, Act, netVars, sockVars

\* So do the broker, the network and the timers; and the task stays.
LEMMA EnvironmentKeepsSockets ==
    Environment => sock' = sock /\ open' = open /\ fsm' = fsm
  BY DEF Environment, BrokerAnswers, BrokerPongs, LinkFails, SentExpires, ReceivedExpires, CommandTimerExpires,
         netVars, sockVars, taskVars

\* Each step of the three threads and of their environment keeps LeakInv.
LEMMA LeakStep == LeakInv /\ [Next]_vars => LeakInv'
  <1> SUFFICES ASSUME LeakInv, [Next]_vars PROVE LeakInv'
    OBVIOUS
  <1> USE DEF LeakInv, NoSocketLeaks
  <1>1. CASE Environment
    BY <1>1, EnvironmentKeepsSockets
  <1>2. ASSUME NEW t \in Background, BackgroundThread(t) PROVE LeakInv'
    <2>1. CASE Read(t) /\ UNCHANGED fsm
      BY <2>1, ReadKeepsSockets
    <2>2. CASE Exit(t) /\ UNCHANGED taskVars
      BY <2>2 DEF Exit, netVars, sockVars, taskVars
    <2>3. Read(t) => UNCHANGED fsm
      BY DEF Read, CallRead, ReadHeader, ReadLength, ReadRest, LengthRead, RestArrives, RestMissing, Act, taskVars
    <2> QED
      BY <1>2, <2>1, <2>2, <2>3 DEF BackgroundThread
  <1>3. CASE Task \/ ImageComplete
    <2>1. CASE TaskElsewhere
      BY <2>1, ElsewhereKeepsSockets
    <2>2. CASE Read(FSM) /\ UNCHANGED taskVars
      BY <2>2, ReadKeepsSockets DEF taskVars
    <2>3. CASE Disconnect
      BY <2>3 DEF Disconnect, Goto
    <2>4. CASE NetworkInit
      BY <2>4 DEF NetworkInit, Goto
    <2>5. CASE NetworkSetConnTimeout
      BY <2>5 DEF NetworkSetConnTimeout, Goto, netVars, sockVars
    <2> QED
      BY <1>3, <2>1, <2>2, <2>3, <2>4, <2>5 DEF Task, TaskElsewhere
  <1>4. CASE UNCHANGED vars
    BY <1>4 DEF vars, netVars, sockVars, taskVars
  <1> QED
    BY <1>1, <1>2, <1>3, <1>4 DEF Next

\* However an attempt to reconnect ends, and whatever the threads and the
\* network do meanwhile, no socket is open but my_socket: each attempt of
\* HT_FSM_MQTTReconnect closes the socket the one before it left.
THEOREM SocketsDoNotLeak == Spec => []NoSocketLeaks
  <1>1. Init => LeakInv
    BY DEF Init, LeakInv, NoSocketLeaks
  <1>2. LeakInv => NoSocketLeaks
    BY DEF LeakInv
  <1> QED
    BY <1>1, <1>2, LeakStep, PTL DEF Spec

(***************************************************************************)
(* Types.                                                                  *)
(***************************************************************************)
Byte == 0 .. 255
Labels == {"idle", "call", "header", "length", "rest", "act", "exit"}

Results == {TimedOut, Failed} \union 0 .. 15

\* Where the task is during an attempt to reconnect.
Attempting == {"disconnect", "init", "socket", "connect", "mqttconnect", "waitfor",
               "connack", "reconnected", "refused", "attempted"}

FlagsType ==
    /\ isconnected \in BOOLEAN /\ ping_outstanding \in BOOLEAN
    /\ sentExpired \in BOOLEAN /\ receivedExpired \in BOOLEAN /\ commandExpired \in BOOLEAN

SockType ==
    /\ created \in 1 .. MaxSockets /\ sock \in 0 .. created /\ open \subseteq 1 .. created
    /\ link \in {"new", "up", "eof", "reset", "closed"}
    /\ answers \subseteq (1 .. created) \X {0, 5}

InboxType == inbox \in Seq(Byte) /\ asked \in BOOLEAN /\ pinged \in BOOLEAN

ReadType ==
    /\ readbuf \in [ReadbufIndices -> Byte]
    /\ pc \in [Thread -> Labels]
    /\ rsock \in [Thread -> 0 .. created] /\ rem \in [Thread -> Seq(Byte)]
    /\ rc \in [Thread -> Results]

TaskType ==
    /\ fsm \in FsmStates /\ image \in 0 .. NumImages /\ retry_count \in 0 .. MaxRetries
    /\ published \in 0 .. NumChunks /\ written \in 0 .. published

\* The types are not inductive: they need that a connection is one of a socket, that the
\* task begins an attempt, or a write, only while one is left, and that it only reads
\* while it waits for a CONNACK.
TypeInv ==
    /\ FlagsType /\ SockType /\ InboxType /\ ReadType /\ TaskType
    /\ (link # "closed" \/ fsm = "connect") => sock # 0
    /\ fsm \in {"init", "socket"} => link = "closed"
    /\ fsm \in Attempting => retry_count < MaxRetries
    /\ fsm = "write" => published < NumChunks
    /\ fsm # "waitfor" => pc[FSM] = "idle"

\* They are the types of MqttSession.
LEMMA TypeInvIsTypeOK == TypeInv => TypeOK
  BY DEF TypeInv, TypeOK, FlagsType, SockType, InboxType, ReadType, TaskType, Byte, Labels, Results

\* The constants, without the form of the assumption.
LEMMA Constants ==
    /\ NumImages \in Nat \ {0} /\ NumChunks \in Nat \ {0}
    /\ MaxSockets \in Nat \ {0} /\ MaxRetries \in Nat \ {0}
    /\ FSM \notin Background /\ FSM \in Thread
    /\ \A t \in Background : t \in Thread /\ t # FSM
  BY ConstantsAssumption DEF ConstantsAssumption, Thread

\* Nothing to read is a sequence of bytes.
LEMMA NoBytes == <<>> \in Seq(Byte)
  OBVIOUS

\* The types hold when the threads have been started.
LEMMA TypeInit == Init => TypeInv
  <1> SUFFICES ASSUME Init PROVE TypeInv
    OBVIOUS
  <1> USE Constants DEF Init
  <1>1. FlagsType /\ SockType /\ InboxType
    <2>1. FlagsType
      BY DEF FlagsType
    <2>2. InboxType
      BY NoBytes DEF InboxType
    <2>3. SockType
      BY DEF SockType
    <2> QED
      BY <2>1, <2>2, <2>3
  <1>2. ReadType
    <2>1. readbuf \in [ReadbufIndices -> Byte]
      BY DEF ReadbufIndices, Connack, Byte
    <2>2. rem \in [Thread -> Seq(Byte)]
      BY NoBytes
    <2>3. /\ pc \in [Thread -> Labels] /\ rsock \in [Thread -> 0 .. created]
          /\ rc \in [Thread -> Results]
      BY DEF Labels, Results
    <2> QED
      BY <2>1, <2>2, <2>3 DEF ReadType
  <1>3. TaskType
    BY DEF TaskType, FsmStates
  <1> QED
    BY <1>1, <1>2, <1>3 DEF TypeInv, Attempting

\* A packet of the broker leaves a sequence of bytes.
LEMMA PacketArrives ==
    ASSUME inbox \in Seq(Byte), NEW code \in {0, 5}
    PROVE  inbox \o Connack(code) \in Seq(Byte) /\ inbox \o Pingresp \in Seq(Byte)
  <1>1. Connack(code) \in Seq(Byte) /\ Pingresp \in Seq(Byte)
    BY DEF Connack, Pingresp, Byte
  <1> HIDE DEF Byte
  <1> QED
    BY <1>1

\* The broker, the network and time keep the types.
LEMMA EnvironmentType == TypeInv /\ Environment => TypeInv'
  <1> SUFFICES ASSUME TypeInv, Environment PROVE TypeInv'
    OBVIOUS
  <1> USE DEF sessionVars, timerVars, sockVars, readVars, taskVars, FlagsType, TaskType, ReadType
  <1>1. ASSUME NEW code \in {0, 5}, BrokerAnswers(code)
        PROVE  TypeInv'
    <2>1. InboxType'
      BY <1>1, PacketArrives DEF BrokerAnswers, Receive, TypeInv, InboxType
    <2>2. SockType'
      <3>1. sock \in 1 .. created
        BY <1>1 DEF BrokerAnswers, Receive, TypeInv, SockType
      <3>2. <<sock, code>> \in (1 .. created) \X {0, 5}
        BY <3>1
      <3> QED
        BY <1>1, <3>2 DEF BrokerAnswers, Receive, TypeInv, SockType
    <2> QED
      BY <1>1, <2>1, <2>2 DEF BrokerAnswers, Receive, TypeInv
  <1>2. CASE BrokerPongs
    <2>1. InboxType'
      BY <1>2, PacketArrives DEF BrokerPongs, Receive, TypeInv, InboxType
    <2> QED
      BY <1>2, <2>1 DEF BrokerPongs, Receive, TypeInv, SockType
  <1>3. CASE LinkFails
    <2>1. InboxType'
      BY <1>3, NoBytes DEF LinkFails, TypeInv, InboxType
    <2> QED
      BY <1>3, <2>1 DEF LinkFails, TypeInv, SockType
  <1>4. CASE SentExpires \/ ReceivedExpires \/ CommandTimerExpires
    <2>1. FlagsType' /\ UNCHANGED <<netVars, readVars, taskVars>>
      BY <1>4 DEF SentExpires, ReceivedExpires, CommandTimerExpires, TypeInv
    <2> QED
      BY <2>1 DEF TypeInv, SockType, InboxType, netVars
  <1> QED
    BY <1>1, <1>2, <1>3, <1>4 DEF Environment

\* The weights of the bytes of a length are positive.
LEMMA Weights ==
    /\ Weight[1] = 1 /\ Weight[2] = 128 /\ Weight[3] = 16384 /\ Weight[4] = 2097152
    /\ \A i \in 1 .. 4 : Weight[i] \in Nat \ {0}
  BY DEF Weight

\* A length is a natural number.
LEMMA LengthIsNatural ==
    ASSUME NEW s \in Seq(Byte)
    PROVE  Value(s) \in Nat
  <1> DEFINE part(i) == IF i <= Len(s) THEN (s[i] % 128) * Weight[i] ELSE 0
  <1>1. ASSUME NEW i \in 1 .. 4
        PROVE  part(i) \in Nat
    <2>1. CASE i <= Len(s)
      <3>1. s[i] \in Byte
        <4> HIDE DEF Byte
        <4> QED
          BY <2>1
      <3>2. \A b \in 0 .. 255 : b % 128 \in Nat
        OBVIOUS
      <3>3. s[i] % 128 \in Nat
        BY <3>1, <3>2 DEF Byte
      <3>4. Weight[i] \in Nat
        BY Weights
      <3> HIDE DEF Byte
      <3>5. \A m, n \in Nat : m * n \in Nat
        OBVIOUS
      <3> QED
        BY <2>1, <3>3, <3>4, <3>5
    <2> QED
      BY <2>1
  <1> HIDE DEF part
  <1>2. part(1) + part(2) + part(3) + part(4) \in Nat
    BY <1>1
  <1> QED
    BY <1>2 DEF part, Value

\* It is written in at most four bytes.
LEMMA EncodeGivesBytes ==
    ASSUME NEW n \in Nat
    PROVE  Encode(n) \in Seq(Byte) /\ Digits(n) \in 1 .. 4
  <1>1. Digits(n) \in 1 .. 4
    BY DEF Digits
  <1>2. ASSUME NEW i \in 1 .. Digits(n)
        PROVE  ((n \div Weight[i]) % 128) + (IF i < Digits(n) THEN 128 ELSE 0) \in Byte
    <2>1. Weight[i] \in Nat \ {0}
      BY <1>1, Weights
    <2>2. \A w \in Nat \ {0} : n \div w \in Nat
      OBVIOUS
    <2>3. n \div Weight[i] \in Nat
      BY <2>1, <2>2
    <2>4. \A m \in Nat : m % 128 \in 0 .. 127
      OBVIOUS
    <2>5. (n \div Weight[i]) % 128 \in 0 .. 127
      BY <2>3, <2>4
    <2>6. \A m \in 0 .. 127 : m \in 0 .. 255 /\ m + 128 \in 0 .. 255 /\ m + 0 \in 0 .. 255
      OBVIOUS
    <2> QED
      BY <2>5, <2>6 DEF Byte
  <1>3. [i \in 1 .. Digits(n) |->
            ((n \div Weight[i]) % 128) + (IF i < Digits(n) THEN 128 ELSE 0)]
        \in [1 .. Digits(n) -> Byte]
    BY <1>2
  <1> HIDE DEF Byte
  <1>4. Encode(n) \in [1 .. Digits(n) -> Byte]
    BY <1>3 DEF Encode
  <1>5. Encode(n) \in Seq(Byte)
    BY <1>1, <1>4
  <1> QED
    BY <1>1, <1>5

\* Bytes put into readbuf leave bytes.
LEMMA PutKeepsBytes ==
    ASSUME readbuf \in [ReadbufIndices -> Byte], NEW k \in Nat, NEW bytes \in Seq(Byte)
    PROVE  Put(k, bytes) \in [ReadbufIndices -> Byte]
  <1> HIDE DEF Byte
  <1> QED
    BY DEF Put

\* Reading from a non-empty sequence of bytes.
LEMMA TakeByte ==
    ASSUME inbox \in Seq(Byte), inbox # <<>>
    PROVE  Head(inbox) \in Byte /\ Tail(inbox) \in Seq(Byte)
  BY HeadTailProperties

\* Reading n bytes of those that wait.
LEMMA TakeRest ==
    ASSUME inbox \in Seq(Byte), NEW n \in Nat, n <= Len(inbox)
    PROVE  /\ SubSeq(inbox, 1, n) \in Seq(Byte)
           /\ SubSeq(inbox, n + 1, Len(inbox)) \in Seq(Byte)
  <1> HIDE DEF Byte
  <1>1. Len(inbox) \in Nat /\ \A i \in 1 .. Len(inbox) : inbox[i] \in Byte
    OBVIOUS
  <1>2. SubSeq(inbox, 1, n) \in Seq(Byte)
    BY <1>1, SubSeqProperties
  <1>3. SubSeq(inbox, n + 1, Len(inbox)) \in Seq(Byte)
    BY <1>1, SubSeqProperties
  <1> QED
    BY <1>2, <1>3

\* A header tells a packet type, and so does the code when it reads nothing.
LEMMA PacketType ==
    /\ \A b \in Byte : b \div 16 \in Results
    /\ 0 \in Results /\ TimedOut \in Results /\ Failed \in Results
  BY DEF Byte, Results

\* A thread that reads is not idle, and it moves on alone.
LEMMA ReadMoves ==
    ASSUME NEW t, Read(t)
    PROVE  pc[t] # "idle" /\ (pc' = pc \/ \E label : pc' = [pc EXCEPT ![t] = label])
  <1> USE DEF Step
  <1>1. CASE CallRead(t) \/ ReadHeader(t) \/ Act(t)
    BY <1>1 DEF CallRead, ReadHeader, Act
  <1>2. CASE ReadLength(t)
    BY <1>2 DEF ReadLength, LengthRead
  <1>3. CASE ReadRest(t)
    BY <1>3 DEF ReadRest, RestArrives, RestMissing
  <1> QED
    BY <1>1, <1>2, <1>3 DEF Read

\* A byte of the length, or the end of the length, keeps the types.
LEMMA LengthKeepsType ==
    ASSUME TypeInv, NEW t \in Thread, ReadLength(t), fsm' = fsm,
           fsm' # "waitfor" => pc'[FSM] = "idle"
    PROVE  TypeInv'
  <1>1. /\ inbox \in Seq(Byte) /\ readbuf \in [ReadbufIndices -> Byte]
        /\ pc \in [Thread -> Labels] /\ rem \in [Thread -> Seq(Byte)]
        /\ rc \in [Thread -> Results]
    BY DEF TypeInv, ReadType, InboxType
  <1> PICK more \in BOOLEAN :
        LET bytes == IF more THEN Append(rem[t], Head(inbox)) ELSE rem[t]
        IN /\ more => inbox # <<>>
           /\ inbox' = IF more THEN Tail(inbox) ELSE inbox
           /\ IF more /\ Head(inbox) >= 128 /\ Len(bytes) < 4
              THEN rem' = [rem EXCEPT ![t] = bytes] /\ UNCHANGED <<pc, rc, readbuf>>
              ELSE LengthRead(t, bytes)
    BY DEF ReadLength
  <1> DEFINE bytes == IF more THEN Append(rem[t], Head(inbox)) ELSE rem[t]
  <1>2. inbox' \in Seq(Byte) /\ bytes \in Seq(Byte)
    BY <1>1, TakeByte
  <1>3. \/ rem' = [rem EXCEPT ![t] = bytes] /\ UNCHANGED <<pc, rc, readbuf>>
        \/ LengthRead(t, bytes)
    OBVIOUS
  <1> HIDE DEF bytes
  <1>4. ReadType'
    <2>1. rsock' = rsock /\ created' = created
      BY DEF ReadLength, sockVars
    <2>2. CASE rem' = [rem EXCEPT ![t] = bytes] /\ UNCHANGED <<pc, rc, readbuf>>
      BY <1>1, <1>2, <2>1, <2>2 DEF TypeInv, ReadType
    <2>3. CASE LengthRead(t, bytes)
      <3>1. Value(bytes) \in Nat
        BY <1>2, LengthIsNatural
      <3>2. Encode(Value(bytes)) \in Seq(Byte)
        BY <3>1, EncodeGivesBytes
      <3>3. readbuf' \in [ReadbufIndices -> Byte]
        BY <1>1, <2>3, <3>2, PutKeepsBytes DEF LengthRead
      <3>4. \E label \in {"rest", "exit"} : pc' = [pc EXCEPT ![t] = label]
        BY <2>3 DEF LengthRead, Step
      <3>5. pc' \in [Thread -> Labels]
        BY <1>1, <3>4 DEF Labels
      <3>6. rem' = [rem EXCEPT ![t] = bytes] \/ rem' = [rem EXCEPT ![t] = <<>>]
        BY <2>3 DEF LengthRead
      <3>7. rem' \in [Thread -> Seq(Byte)]
        BY <1>1, <1>2, <3>6, NoBytes
      <3>8. rc' = rc \/ rc' = [rc EXCEPT ![t] = Failed]
        BY <2>3 DEF LengthRead
      <3>9. rc' \in [Thread -> Results]
        BY <1>1, <3>8, PacketType
      <3> QED
        BY <2>1, <3>3, <3>5, <3>7, <3>9 DEF TypeInv, ReadType
    <2> QED
      BY <1>3, <2>2, <2>3
  <1> QED
    BY <1>2, <1>4 DEF ReadLength, TypeInv, InboxType, FlagsType, SockType, TaskType,
         sessionVars, timerVars, sockVars, taskVars

\* So does the rest of the packet, or what there is of it.
LEMMA RestKeepsType ==
    ASSUME TypeInv, NEW t \in Thread, ReadRest(t), fsm' = fsm,
           fsm' # "waitfor" => pc'[FSM] = "idle"
    PROVE  TypeInv'
  <1> DEFINE n == Value(rem[t])
  <1>1. /\ inbox \in Seq(Byte) /\ readbuf \in [ReadbufIndices -> Byte]
        /\ pc \in [Thread -> Labels] /\ rem \in [Thread -> Seq(Byte)]
        /\ rc \in [Thread -> Results]
    BY DEF TypeInv, ReadType, InboxType
  <1>2. n \in Nat /\ Digits(n) \in 1 .. 4
    BY <1>1, LengthIsNatural, EncodeGivesBytes
  <1>3. 1 + Digits(n) \in Nat
    BY <1>2
  <1>4. rem' = [rem EXCEPT ![t] = <<>>] /\ pc' = [pc EXCEPT ![t] = "act"]
    BY DEF ReadRest, Step
  <1>5. rem' \in [Thread -> Seq(Byte)] /\ pc' \in [Thread -> Labels]
    BY <1>1, <1>4, NoBytes DEF Labels
  <1>6. /\ inbox' \in Seq(Byte) /\ readbuf' \in [ReadbufIndices -> Byte]
        /\ receivedExpired' \in BOOLEAN /\ rc' \in [Thread -> Results]
    <2>1. CASE RestArrives(t)
      <3>1. /\ n <= Len(inbox) /\ inbox' = SubSeq(inbox, n + 1, Len(inbox))
            /\ readbuf' = Put(1 + Digits(n), SubSeq(inbox, 1, n))
            /\ rc' = [rc EXCEPT ![t] = readbuf[0] \div 16] /\ receivedExpired' = FALSE
        BY <2>1 DEF RestArrives
      <3>2. SubSeq(inbox, 1, n) \in Seq(Byte) /\ inbox' \in Seq(Byte)
        BY <1>1, <1>2, <3>1, TakeRest
      <3>3. readbuf[0] \div 16 \in Results
        BY <1>1, PacketType DEF ReadbufIndices
      <3>4. readbuf' \in [ReadbufIndices -> Byte]
        BY <1>1, <1>3, <3>1, <3>2, PutKeepsBytes
      <3> QED
        BY <1>1, <3>1, <3>2, <3>3, <3>4
    <2>2. CASE RestMissing(t)
      <3>1. /\ inbox' = <<>> /\ readbuf' = Put(1 + Digits(n), inbox)
            /\ rc' = [rc EXCEPT ![t] = 0] /\ receivedExpired' = receivedExpired
        BY <2>2 DEF RestMissing
      <3>2. readbuf' \in [ReadbufIndices -> Byte]
        BY <1>1, <1>3, <3>1, PutKeepsBytes
      <3>3. receivedExpired \in BOOLEAN
        BY DEF TypeInv, FlagsType
      <3> QED
        BY <1>1, <3>1, <3>2, <3>3, NoBytes, PacketType
    <2> QED
      BY <2>1, <2>2 DEF ReadRest
  <1> QED
    BY <1>5, <1>6 DEF ReadRest, TypeInv, InboxType, ReadType, FlagsType, SockType, TaskType,
         sessionVars, sockVars, taskVars

\* Reading and acting on a packet, in any thread, keeps the types.
LEMMA ReadKeepsType ==
    ASSUME TypeInv, NEW t \in Thread, Read(t), UNCHANGED taskVars
    PROVE  TypeInv'
  <1> USE DEF sessionVars, timerVars, netVars, sockVars, taskVars, TaskType, FlagsType, SockType
  <1>1. /\ inbox \in Seq(Byte) /\ readbuf \in [ReadbufIndices -> Byte]
        /\ pc \in [Thread -> Labels]
        /\ rsock \in [Thread -> 0 .. created] /\ rem \in [Thread -> Seq(Byte)]
        /\ rc \in [Thread -> Results]
        /\ sock \in 0 .. created /\ created \in 1 .. MaxSockets
    BY DEF TypeInv, ReadType, InboxType
  <1>2. (fsm' # "waitfor" => pc'[FSM] = "idle") /\ fsm' = fsm
    <2>1. pc[t] # "idle" /\ (pc' = pc \/ \E label : pc' = [pc EXCEPT ![t] = label])
      BY ReadMoves
    <2> QED
      BY <1>1, <2>1, Constants DEF TypeInv
  <1>3. CASE CallRead(t)
    <2>1. ReadType'
      BY <1>1, <1>3 DEF CallRead, Step, ReadType, Labels
    <2> QED
      BY <1>2, <1>3, <2>1 DEF CallRead, TypeInv, InboxType
  <1>4. CASE ReadHeader(t)
    <2>1. inbox' \in Seq(Byte) /\ readbuf' \in [ReadbufIndices -> Byte]
      BY <1>1, <1>4, TakeByte DEF ReadHeader
    <2>2. pc' \in [Thread -> Labels]
      BY <1>1, <1>4 DEF ReadHeader, Step, Labels
    <2>3. rc' \in [Thread -> Results]
      BY <1>1, <1>4, PacketType DEF ReadHeader
    <2>4. rsock' \in [Thread -> 0 .. created]
      BY <1>1, <1>4, Constants DEF ReadHeader
    <2>5. /\ UNCHANGED <<sessionVars, timerVars, taskVars, sockVars>>
          /\ UNCHANGED <<link, asked, pinged, answers, rem>>
      BY <1>4 DEF ReadHeader
    <2> HIDE DEF sessionVars, timerVars, netVars, sockVars, taskVars, TaskType, FlagsType, SockType
    <2>6. FlagsType' /\ SockType' /\ TaskType'
      BY <2>5 DEF TypeInv, FlagsType, SockType, TaskType,
           sessionVars, timerVars, sockVars, taskVars
    <2>7. InboxType'
      BY <2>1, <2>5 DEF TypeInv, InboxType
    <2>8. ReadType'
      BY <1>1, <2>1, <2>2, <2>3, <2>4, <2>5 DEF ReadType, sockVars
    <2> QED
      BY <1>2, <2>5, <2>6, <2>7, <2>8 DEF TypeInv, sockVars, taskVars
  <1>5. CASE ReadLength(t)
    BY <1>2, <1>5, LengthKeepsType
  <1>6. CASE ReadRest(t)
    BY <1>2, <1>6, RestKeepsType
  <1>7. CASE Act(t)
    <2>1. PICK failed \in BOOLEAN :
            /\ Keepalive(ping_outstanding /\ rc[t] # PINGRESP, failed)
            /\ rc' = IF failed THEN [rc EXCEPT ![t] = Failed] ELSE rc
      BY <1>7 DEF Act
    <2>2. /\ ping_outstanding' \in BOOLEAN /\ sentExpired' \in BOOLEAN /\ pinged' \in BOOLEAN
      BY <2>1 DEF Keepalive, SendPing, TypeInv, InboxType
    <2>3. rc' \in [Thread -> Results]
      BY <1>1, <2>1, PacketType
    <2>4. pc' \in [Thread -> Labels]
      BY <1>1, <1>7 DEF Act, Step, Labels
    <2> QED
      BY <1>1, <1>2, <1>7, <2>2, <2>3, <2>4 DEF Act, TypeInv, InboxType, ReadType
  <1> QED
    BY <1>3, <1>4, <1>5, <1>6, <1>7 DEF Read

\* The end of cycle keeps the types of what it leaves to the next one.
LEMMA ExitKeepsType ==
    ASSUME TypeInv, NEW t \in Thread, NEW label \in Labels, Exit(t), Step(t, label)
    PROVE  /\ FlagsType' /\ SockType' /\ InboxType' /\ ReadType'
           /\ sock' = sock /\ link' = link
  <1>1. isconnected' \in BOOLEAN /\ ping_outstanding' \in BOOLEAN
    BY DEF Exit, MQTTCloseSession, sessionVars, TypeInv, FlagsType
  <1>2. pc' \in [Thread -> Labels] /\ rc' \in [Thread -> Results]
    BY PacketType DEF Exit, Step, TypeInv, ReadType
  <1> QED
    BY <1>1, <1>2 DEF Exit, TypeInv, timerVars, netVars, sockVars,
         FlagsType, SockType, InboxType, ReadType

\* The end of a cycle that waits for the CONNACK is in an attempt to reconnect.
LEMMA WaitForExitType ==
    ASSUME TypeInv, WaitForExit
    PROVE  TypeInv'
  <1>1. FSM \in Thread /\ "idle" \in Labels /\ Exit(FSM) /\ Step(FSM, "idle")
    BY Constants DEF WaitForExit, Labels
  <1>2. /\ FlagsType' /\ SockType' /\ InboxType' /\ ReadType'
        /\ sock' = sock /\ link' = link
    BY <1>1, ExitKeepsType
  <1>3. /\ fsm' \in {"connack", "refused", "waitfor"} /\ image' = image
        /\ retry_count' = retry_count /\ published' = published /\ written' = written
    BY DEF WaitForExit, Goto
  <1>4. TaskType'
    BY <1>3 DEF TypeInv, TaskType, FsmStates
  <1>5. fsm = "waitfor" /\ pc'[FSM] = "idle"
    BY <1>1 DEF Exit, Step, TypeInv, ReadType
  <1> QED
    BY <1>2, <1>3, <1>4, <1>5 DEF TypeInv, Attempting

\* The statements of the task before it has a socket keep the types.
LEMMA TaskTypeBegin ==
    ASSUME TypeInv,
           \/ ImageComplete \/ EnsureConnected \/ Commence \/ Disconnect \/ NetworkInit
           \/ NetworkSetConnTimeout
    PROVE  TypeInv'
  <1> USE Constants DEF Goto, sessionVars, timerVars, readVars, taskVars, Attempting,
        FlagsType, TaskType, FsmStates
  <1>1. CASE ImageComplete
    BY <1>1 DEF ImageComplete, TypeInv, netVars, sockVars, SockType, InboxType, ReadType
  <1>2. CASE EnsureConnected
    BY <1>2 DEF EnsureConnected, TypeInv, netVars, sockVars, SockType, InboxType, ReadType
  <1>3. CASE Commence
    <2>1. fsm' \in {"upload", "wait"}
      BY <1>3 DEF Commence
    <2> QED
      BY <1>3, <2>1 DEF Commence, TypeInv, netVars, sockVars, SockType, InboxType, ReadType
  <1>4. CASE Disconnect
    BY <1>4, NoBytes DEF Disconnect, TypeInv, SockType, InboxType, ReadType
  <1>5. CASE NetworkInit
    BY <1>5 DEF NetworkInit, TypeInv, SockType, InboxType, ReadType
  <1>6. CASE NetworkSetConnTimeout
    <2>1. CASE Goto("attempted") /\ UNCHANGED netVars
      BY <1>6, <2>1 DEF NetworkSetConnTimeout, TypeInv, netVars, sockVars,
           SockType, InboxType, ReadType
    <2>2. CASE /\ created < MaxSockets
               /\ Goto("connect") \/ Goto("attempted")
               /\ created' = created + 1 /\ sock' = created'
               /\ open' = open \union {sock'} /\ link' = "new"
               /\ UNCHANGED <<inbox, asked, pinged, answers>>
      <3>1. SockType'
        <4>1. 1 .. created \subseteq 1 .. created' /\ created' \in 1 .. created'
              /\ created' \in 1 .. MaxSockets
          BY <2>2 DEF TypeInv, SockType
        <4>2. answers \subseteq (1 .. created') \X {0, 5}
          BY <4>1 DEF TypeInv, SockType
        <4> QED
          BY <2>2, <4>1, <4>2 DEF TypeInv, SockType
      <3>2. ReadType'
        <4>1. 0 .. created \subseteq 0 .. created'
          BY <2>2 DEF TypeInv, SockType
        <4> QED
          BY <1>6, <4>1 DEF NetworkSetConnTimeout, TypeInv, ReadType
      <3>3. sock' # 0
        BY <2>2 DEF TypeInv, SockType
      <3> QED
        BY <1>6, <2>2, <3>1, <3>2, <3>3 DEF NetworkSetConnTimeout, TypeInv, InboxType
    <2> QED
      BY <1>6, <2>1, <2>2 DEF NetworkSetConnTimeout
  <1> QED
    BY <1>1, <1>2, <1>3, <1>4, <1>5, <1>6

\* So do those that connect ...
LEMMA TaskTypeConnect ==
    ASSUME TypeInv,
           \/ NetworkConnect \/ SendConnect \/ WaitFor \/ ReadConnack \/ SetConnected
           \/ Attempted
    PROVE  TypeInv'
  <1> USE Constants DEF Goto, timerVars, readVars, sockVars, Attempting, TaskType, FsmStates
  <1>1. CASE NetworkConnect
    BY <1>1 DEF NetworkConnect, sessionVars, TypeInv, FlagsType, SockType, InboxType, ReadType
  <1>2. CASE SendConnect
    <2>1. sentExpired' \in BOOLEAN /\ receivedExpired' \in BOOLEAN /\ asked' \in BOOLEAN
      BY <1>2 DEF SendConnect, TypeInv, FlagsType, InboxType
    <2> QED
      BY <1>2, <2>1 DEF SendConnect, sessionVars, TypeInv, FlagsType, SockType, InboxType, ReadType
  <1>3. CASE WaitFor
    <2>1. pc' \in [Thread -> Labels]
      BY <1>3 DEF WaitFor, Step, TypeInv, ReadType, Labels
    <2> QED
      BY <1>3, <2>1 DEF WaitFor, sessionVars, netVars, TypeInv, FlagsType, SockType, InboxType, ReadType
  <1>4. CASE ReadConnack
    <2>1. isconnected' \in BOOLEAN /\ ping_outstanding' \in BOOLEAN
          /\ fsm' \in {"reconnected", "refused"}
      BY <1>4 DEF ReadConnack, sessionVars, TypeInv, FlagsType
    <2> QED
      BY <1>4, <2>1 DEF ReadConnack, netVars, TypeInv, FlagsType, SockType, InboxType, ReadType
  <1>5. CASE SetConnected
    <2>1. isconnected' \in BOOLEAN
      BY <1>5 DEF SetConnected
    <2> QED
      BY <1>5, <2>1 DEF SetConnected, netVars, TypeInv, FlagsType, SockType, InboxType, ReadType
  <1>6. CASE Attempted
    BY <1>6 DEF Attempted, sessionVars, netVars, TypeInv, FlagsType, SockType, InboxType, ReadType
  <1> QED
    BY <1>1, <1>2, <1>3, <1>4, <1>5, <1>6

\* ... and those that upload.
LEMMA TaskTypeUpload ==
    ASSUME TypeInv, Upload \/ Write \/ AllPublished
    PROVE  TypeInv'
  <1> USE Constants DEF Goto, timerVars, netVars, sockVars, readVars, Attempting, TaskType,
        FsmStates, SockType, InboxType, ReadType
  <1>1. CASE Upload
    <2>1. isconnected' \in BOOLEAN /\ ping_outstanding' \in BOOLEAN
      BY <1>1 DEF Upload, MQTTCloseSession, sessionVars, TypeInv, FlagsType
    <2> QED
      BY <1>1, <2>1 DEF Upload, TypeInv, FlagsType
  <1>2. CASE Write
    <2>1. isconnected' \in BOOLEAN /\ ping_outstanding' \in BOOLEAN /\ sentExpired' \in BOOLEAN
      BY <1>2 DEF Write, MQTTCloseSession, sessionVars, TypeInv, FlagsType
    <2> QED
      BY <1>2, <2>1 DEF Write, TypeInv, FlagsType
  <1>3. CASE AllPublished
    BY <1>3 DEF AllPublished, sessionVars, TypeInv, FlagsType
  <1> QED
    BY <1>1, <1>2, <1>3

\* Reading leaves the task where it is.
LEMMA ReadKeepsTask ==
    ASSUME NEW t, Read(t)
    PROVE  UNCHANGED taskVars
  BY DEF Read, CallRead, ReadHeader, ReadLength, ReadRest, LengthRead, RestArrives, RestMissing, Act

\* Every step keeps the types.
LEMMA TypeStep == TypeInv /\ [Next]_vars => TypeInv'
  <1> SUFFICES ASSUME TypeInv, [Next]_vars PROVE TypeInv'
    OBVIOUS
  <1>1. CASE Environment
    BY <1>1, EnvironmentType
  <1>2. ASSUME NEW t \in Background, BackgroundThread(t) PROVE TypeInv'
    <2>1. CASE Read(t)
      BY <2>1, ReadKeepsTask, ReadKeepsType, Constants
    <2>2. CASE Exit(t) /\ Step(t, "call") /\ UNCHANGED taskVars
      <3>1. TaskType' /\ (fsm' \in Attempting => retry_count' < MaxRetries)
        BY <2>2 DEF TypeInv, TaskType, taskVars
      <3>2. "call" \in Labels /\ t \in Thread /\ t # FSM
        BY Constants DEF Labels
      <3>3. /\ FlagsType' /\ SockType' /\ InboxType' /\ ReadType'
            /\ sock' = sock /\ link' = link
        BY <2>2, <3>2, ExitKeepsType
      <3>4. pc'[FSM] = pc[FSM]
        BY <2>2, <3>2, Constants DEF Step, TypeInv, ReadType
      <3> QED
        BY <2>2, <3>1, <3>3, <3>4 DEF TypeInv, taskVars
    <2> QED
      BY <1>2, <2>1, <2>2 DEF BackgroundThread
  <1>3. CASE Task \/ ImageComplete
    <2>1. CASE \/ ImageComplete \/ EnsureConnected \/ Commence \/ Disconnect
               \/ NetworkInit \/ NetworkSetConnTimeout
      BY <2>1, TaskTypeBegin
    <2>2. CASE \/ NetworkConnect \/ SendConnect \/ WaitFor \/ ReadConnack
               \/ SetConnected \/ Attempted
      BY <2>2, TaskTypeConnect
    <2>3. CASE Upload \/ Write \/ AllPublished
      BY <2>3, TaskTypeUpload
    <2>4. CASE Read(FSM) /\ UNCHANGED taskVars
      BY <2>4, ReadKeepsType, Constants
    <2>5. CASE WaitForExit
      BY <2>5, WaitForExitType
    <2> QED
      BY <1>3, <2>1, <2>2, <2>3, <2>4, <2>5 DEF Task
  <1>4. CASE UNCHANGED vars
    BY <1>4 DEF vars, sessionVars, timerVars, netVars, sockVars, readVars, taskVars, TypeInv,
         FlagsType, SockType, InboxType, ReadType, TaskType
  <1> QED
    BY <1>1, <1>2, <1>3, <1>4 DEF Next

\* The variables keep their types; so the attempts to reconnect before an image stay
\* within their bound, and at most the chunks of an image are written.
THEOREM TypeCorrect == Spec => []TypeOK
  <1> QED
    BY TypeInit, TypeStep, TypeInvIsTypeOK, PTL DEF Spec

(***************************************************************************)
(* What is written of an image is a beginning of it.  UploadIsPrefix needs *)
(* that a session closed during an upload stays closed until its end: the  *)
(* task itself is the only one to open it again.                           *)
(***************************************************************************)
PrefixInv ==
    /\ fsm \notin {"upload", "write", "published"} => published = 0 /\ written = 0
    /\ fsm = "write" => written = published
    /\ fsm = "upload" /\ isconnected => written = published

\* No statement of a cycle in any thread opens a session.
LEMMA CycleOpensNoSession ==
    ASSUME NEW t, Read(t) \/ Exit(t)
    PROVE  (isconnected' => isconnected) /\ UNCHANGED <<sockVars, link>>
  <1>1. CASE Read(t)
    BY <1>1 DEF Read, CallRead, ReadHeader, ReadLength, ReadRest, LengthRead, RestArrives, RestMissing, Act, sessionVars,
         netVars, sockVars
  <1>2. CASE Exit(t)
    BY <1>2 DEF Exit, MQTTCloseSession, sessionVars, netVars, sockVars
  <1> QED
    BY <1>1, <1>2

\* The statements of an attempt to reconnect write nothing and do not lead to the upload.
LEMMA AttemptKeepsPrefix ==
    ASSUME TypeInv, PrefixInv,
           \/ ImageComplete \/ EnsureConnected \/ Disconnect \/ NetworkInit
           \/ NetworkSetConnTimeout \/ NetworkConnect \/ SendConnect \/ WaitFor
           \/ WaitForExit \/ ReadConnack \/ SetConnected \/ Attempted
    PROVE  PrefixInv' /\ written' = written
  <1> USE DEF PrefixInv, Goto
  <1>1. CASE ImageComplete
    BY <1>1 DEF ImageComplete
  <1>2. CASE EnsureConnected
    BY <1>2 DEF EnsureConnected
  <1>3. CASE Disconnect \/ NetworkInit
    BY <1>3 DEF Disconnect, NetworkInit
  <1>4. CASE NetworkSetConnTimeout \/ NetworkConnect
    BY <1>4 DEF NetworkSetConnTimeout, NetworkConnect
  <1>5. CASE SendConnect
    BY <1>5 DEF SendConnect
  <1>6. CASE WaitFor
    BY <1>6 DEF WaitFor
  <1>7. CASE WaitForExit
    <2>1. fsm = "waitfor"
      BY <1>7 DEF WaitForExit, Exit, TypeInv
    <2> QED
      BY <1>7, <2>1 DEF WaitForExit
  <1>8. CASE ReadConnack
    BY <1>8 DEF ReadConnack
  <1>9. CASE SetConnected \/ Attempted
    BY <1>9 DEF SetConnected, Attempted
  <1> QED
    BY <1>1, <1>2, <1>3, <1>4, <1>5, <1>6, <1>7, <1>8, <1>9

\* Nor does the rest of a read, in any thread, or the environment.
LEMMA OthersKeepPrefix ==
    ASSUME PrefixInv, isconnected' => isconnected, UNCHANGED taskVars
    PROVE  PrefixInv' /\ written' = written
  BY DEF PrefixInv, taskVars

\* Every step keeps PrefixInv, and only extends a beginning of the image.
LEMMA PrefixStep ==
    ASSUME TypeInv, PrefixInv, [Next]_vars
    PROVE  PrefixInv' /\ (written' > written => written = published)
  <1>1. written \in Nat
    BY DEF TypeInv, TaskType
  <1>2. ASSUME PrefixInv', written' = written
        PROVE  PrefixInv' /\ (written' > written => written = published)
    BY <1>1, <1>2
  <1>3. CASE Environment
    <2>1. (isconnected' => isconnected) /\ UNCHANGED taskVars
      BY <1>3 DEF Environment, BrokerAnswers, BrokerPongs, LinkFails, SentExpires, ReceivedExpires, CommandTimerExpires, sessionVars
    <2> QED
      BY <1>2, <2>1, OthersKeepPrefix
  <1>4. ASSUME NEW t \in Background, BackgroundThread(t)
        PROVE  PrefixInv' /\ written' = written
    <2>1. UNCHANGED taskVars /\ (Read(t) \/ Exit(t))
      BY <1>4, ReadKeepsTask DEF BackgroundThread
    <2> QED
      BY <2>1, CycleOpensNoSession, OthersKeepPrefix
  <1>5. CASE Task \/ ImageComplete
    <2>1. CASE \/ ImageComplete \/ EnsureConnected \/ Disconnect \/ NetworkInit
               \/ NetworkSetConnTimeout \/ NetworkConnect \/ SendConnect \/ WaitFor
               \/ WaitForExit \/ ReadConnack \/ SetConnected \/ Attempted
      BY <1>2, <2>1, AttemptKeepsPrefix
    <2>2. CASE Read(FSM) /\ UNCHANGED taskVars
      BY <1>2, <2>2, CycleOpensNoSession, OthersKeepPrefix
    <2>3. CASE Commence
      BY <1>2, <2>3 DEF Commence, Goto, PrefixInv
    <2>4. CASE Upload
      BY <1>2, <2>4 DEF Upload, Goto, MQTTCloseSession, sessionVars, PrefixInv
    <2>5. CASE Write
      BY <2>5 DEF Write, Goto, MQTTCloseSession, PrefixInv
    <2>6. CASE AllPublished
      BY <1>1, <2>6 DEF AllPublished, Goto, PrefixInv
    <2> QED
      BY <1>5, <2>1, <2>2, <2>3, <2>4, <2>5, <2>6 DEF Task
  <1>6. CASE UNCHANGED vars
    BY <1>2, <1>6, OthersKeepPrefix DEF vars, sessionVars
  <1> QED
    BY <1>2, <1>3, <1>4, <1>5, <1>6 DEF Next

\* HT_MQTT_Publish drops the result of a failed chunk and the upload goes on; yet no
\* chunk follows a hole in any image, however often the threads find the session dead.
THEOREM NoHolesInUploads == Spec => UploadIsPrefix
  <1> DEFINE Inv == TypeInv /\ PrefixInv
  <1>1. Init => Inv
    BY TypeInit DEF Init, PrefixInv
  <1>2. Inv /\ [Next]_vars => Inv'
    BY TypeStep, PrefixStep
  <1>3. Inv /\ [Next]_vars => [written' > written => written = published]_vars
    BY PrefixStep
  <1> QED
    BY <1>1, <1>2, <1>3, PTL DEF Spec, UploadIsPrefix

(***************************************************************************)
(* An open session has been answered.  The threads take each other's       *)
(* bytes, so what the task reads as an answer may be mixed from several    *)
(* packets; but a byte comes in only when the broker has sent one on this  *)
(* socket, and it sends nothing before its answer to the CONNECT.  Hence   *)
(* every stage of the task between the first byte it takes and the flag    *)
(* isconnected implies that answer, and nobody but the task changes the    *)
(* socket.                                                                 *)
(***************************************************************************)
\* Where the task is between the test that finds no session and the one it makes.
Reconnecting == {"disconnect", "init", "socket", "connect", "mqttconnect", "waitfor",
                 "connack", "refused"}

SessionAnswered ==
    /\ isconnected => sock \in open /\ Answered(sock)
    /\ fsm \in Reconnecting => ~isconnected
    /\ fsm \in {"connect", "mqttconnect", "waitfor"} => sock \in open
    /\ fsm \in {"connack", "reconnected", "write"} => sock \in open /\ Answered(sock)

BytesAnswered ==
    /\ inbox # <<>> \/ pinged => Answered(sock)
    /\ link \in {"closed", "new"} => inbox = <<>> /\ ~pinged

CycleAnswered ==
    /\ pc[FSM] \in {"length", "rest"} => Answered(sock)
    /\ pc[FSM] \in {"act", "exit"} /\ rc[FSM] = CONNACK => Answered(sock)

AnswerInv == TypeInv /\ SessionAnswered /\ BytesAnswered /\ CycleAnswered

\* What the threads and the environment leave to the answers: a socket and its
\* answers stay, and no session is opened.
Onlookers ==
    /\ UNCHANGED <<fsm, sock, open>> /\ answers \subseteq answers'
    /\ isconnected' => isconnected

\* An answer is not forgotten.
LEMMA AnswersStay ==
    ASSUME Onlookers
    PROVE  Answered(sock) => Answered(sock)'
  BY DEF Onlookers, Answered

\* Under such a step the session stays answered.
LEMMA SessionStays ==
    ASSUME SessionAnswered, Onlookers
    PROVE  SessionAnswered'
  <1>1. Answered(sock) => Answered(sock)'
    BY AnswersStay
  <1> QED
    BY <1>1 DEF SessionAnswered, Onlookers, Reconnecting

\* Taking bytes leaves at most what was there.
LEMMA NothingAppears ==
    ASSUME TypeInv, NEW t \in Thread, Read(t)
    PROVE  inbox' # <<>> => inbox # <<>>
  <1> SUFFICES ASSUME inbox = <<>> PROVE inbox' = <<>>
    OBVIOUS
  <1>1. CASE CallRead(t)
    BY <1>1 DEF CallRead, netVars
  <1>2. CASE ReadHeader(t)
    BY <1>2 DEF ReadHeader
  <1>3. CASE ReadLength(t)
    BY <1>3 DEF ReadLength
  <1>4. CASE ReadRest(t)
    <2>1. Value(rem[t]) \in Nat
      BY LengthIsNatural DEF TypeInv, ReadType
    <2>2. inbox' = SubSeq(<<>>, 1, 0) \/ inbox' = <<>>
      BY <1>4, <2>1 DEF ReadRest, RestArrives, RestMissing
    <2> QED
      BY <2>2
  <1>5. CASE Act(t)
    BY <1>5 DEF Act
  <1> QED
    BY <1>1, <1>2, <1>3, <1>4, <1>5 DEF Read

\* Reading and acting on a packet, in any thread, is such a step, and the bytes that
\* are left are still of an answered socket.
LEMMA ReadKeepsBytes ==
    ASSUME AnswerInv, NEW t \in Thread, Read(t)
    PROVE  Onlookers /\ BytesAnswered'
  <1>1. /\ UNCHANGED <<fsm, sock, open, link, answers, isconnected>>
        /\ pinged' => pinged \/ (link = "up" /\ Accepted(sock))
    <2> USE DEF sessionVars, netVars, sockVars, taskVars
    <2>1. CASE CallRead(t) \/ ReadHeader(t)
      BY <2>1 DEF CallRead, ReadHeader
    <2>2. CASE ReadLength(t) \/ ReadRest(t)
      BY <2>2 DEF ReadLength, LengthRead, ReadRest, RestArrives, RestMissing
    <2>3. CASE Act(t)
      <3>1. PICK outstanding, failed \in BOOLEAN : Keepalive(outstanding, failed)
        BY <2>3 DEF Act
      <3>2. pinged' => pinged \/ (link = "up" /\ Accepted(sock))
        BY <3>1 DEF Keepalive, SendPing
      <3> QED
        BY <2>3, <3>2 DEF Act
    <2> QED
      BY <2>1, <2>2, <2>3 DEF Read
  <1>2. inbox' # <<>> => inbox # <<>>
    BY NothingAppears DEF AnswerInv
  <1>3. Accepted(sock) => Answered(sock)
    BY DEF Accepted, Answered
  <1>4. Onlookers
    BY <1>1 DEF Onlookers
  <1>5. Answered(sock) => Answered(sock)'
    BY <1>4, AnswersStay
  <1> QED
    BY <1>1, <1>2, <1>3, <1>4, <1>5 DEF AnswerInv, BytesAnswered

\* While a background thread is at it, the task stands still in its cycle.
LEMMA CycleStays ==
    ASSUME CycleAnswered, Onlookers, pc'[FSM] = pc[FSM], rc'[FSM] = rc[FSM]
    PROVE  CycleAnswered'
  <1>1. Answered(sock) => Answered(sock)'
    BY AnswersStay
  <1> QED
    BY <1>1 DEF CycleAnswered

\* The task reads CONNACK, in this cycle, only after a byte of an answered socket.
LEMMA TaskReadsAnswer ==
    ASSUME AnswerInv, Read(FSM)
    PROVE  CycleAnswered'
  <1>1. /\ FSM \in Thread /\ pc \in [Thread -> Labels] /\ rc \in [Thread -> Results]
        /\ inbox # <<>> => Answered(sock)
    BY Constants DEF AnswerInv, TypeInv, ReadType, BytesAnswered
  <1>2. Answered(sock) => Answered(sock)'
    BY <1>1, ReadKeepsBytes, AnswersStay
  <1> USE DEF Step, CycleAnswered, CONNACK, TimedOut, Failed
  <1>3. CASE CallRead(FSM)
    BY <1>1, <1>3 DEF CallRead
  <1>4. CASE ReadHeader(FSM)
    BY <1>1, <1>2, <1>4 DEF ReadHeader
  <1>5. CASE ReadLength(FSM)
    BY <1>1, <1>2, <1>5 DEF ReadLength, LengthRead, AnswerInv
  <1>6. CASE ReadRest(FSM)
    BY <1>1, <1>2, <1>6 DEF ReadRest, RestArrives, RestMissing, AnswerInv
  <1>7. CASE Act(FSM)
    BY <1>1, <1>2, <1>7 DEF Act, AnswerInv
  <1> QED
    BY <1>3, <1>4, <1>5, <1>6, <1>7 DEF Read

\* The broker sends its answer first, and the network only takes away.
LEMMA EnvironmentKeepsAnswers ==
    ASSUME AnswerInv, Environment
    PROVE  SessionAnswered' /\ BytesAnswered' /\ CycleAnswered'
  <1> USE DEF sessionVars, timerVars, readVars, taskVars, sockVars, netVars
  <1>1. Onlookers /\ pc' = pc /\ rc' = rc
    BY DEF Environment, BrokerAnswers, BrokerPongs, LinkFails, SentExpires, ReceivedExpires, CommandTimerExpires, Onlookers
  <1>2. SessionAnswered' /\ CycleAnswered'
    BY <1>1, SessionStays, CycleStays DEF AnswerInv
  <1>3. BytesAnswered'
    <2>1. ASSUME NEW code \in {0, 5}, BrokerAnswers(code)
          PROVE  BytesAnswered'
      BY <2>1 DEF BrokerAnswers, Receive, BytesAnswered, AnswerInv, Answered
    <2>2. CASE BrokerPongs
      BY <1>1, <2>2, AnswersStay DEF BrokerPongs, Receive, BytesAnswered, AnswerInv
    <2>3. CASE LinkFails
      BY <1>1, <2>3, AnswersStay DEF LinkFails, BytesAnswered, AnswerInv
    <2>4. CASE SentExpires \/ ReceivedExpires \/ CommandTimerExpires
      BY <1>1, <2>4, AnswersStay DEF SentExpires, ReceivedExpires, CommandTimerExpires, BytesAnswered, AnswerInv
    <2> QED
      BY <2>1, <2>2, <2>3, <2>4 DEF Environment
  <1> QED
    BY <1>2, <1>3

\* The end of a cycle, in any thread, opens nothing and leaves the bytes.
LEMMA ExitKeepsAnswers ==
    ASSUME AnswerInv, NEW t \in Thread, Exit(t)
    PROVE  (isconnected' => isconnected) /\ UNCHANGED netVars /\ BytesAnswered'
  BY DEF Exit, MQTTCloseSession, sessionVars, timerVars, netVars, sockVars,
         AnswerInv, BytesAnswered, Answered

\* The task goes on to the CONNACK only from a cycle that was answered.
LEMMA WaitForExitKeepsAnswers ==
    ASSUME AnswerInv, WaitForExit
    PROVE  SessionAnswered' /\ BytesAnswered'
  <1>1. FSM \in Thread /\ Exit(FSM)
    BY Constants DEF WaitForExit
  <1>2. (isconnected' => isconnected) /\ UNCHANGED netVars /\ BytesAnswered'
    BY <1>1, ExitKeepsAnswers
  <1>3. fsm = "waitfor" /\ pc[FSM] = "exit"
    BY <1>1 DEF Exit, AnswerInv, TypeInv
  <1>4. fsm' = "connack" => Answered(sock)
    BY <1>3 DEF WaitForExit, Goto, AnswerInv, CycleAnswered
  <1>5. fsm' \in {"connack", "refused", "waitfor"}
    BY DEF WaitForExit, Goto
  <1> QED
    BY <1>2, <1>3, <1>4, <1>5 DEF AnswerInv, SessionAnswered, Reconnecting, Answered,
         netVars, sockVars

\* The statements of the task before it connects: it begins an attempt only with the
\* session closed, and the new socket has no bytes and no answer yet.
LEMMA BeginKeepsAnswers ==
    ASSUME AnswerInv,
           \/ ImageComplete \/ EnsureConnected \/ Commence \/ Disconnect \/ NetworkInit
           \/ NetworkSetConnTimeout
    PROVE  SessionAnswered' /\ BytesAnswered'
  <1> USE DEF Goto, sessionVars, netVars, sockVars, AnswerInv, SessionAnswered, BytesAnswered,
        Answered, Reconnecting
  <1>1. CASE ImageComplete \/ EnsureConnected
    BY <1>1 DEF ImageComplete, EnsureConnected
  <1>2. CASE Commence
    BY <1>2 DEF Commence
  <1>3. CASE Disconnect
    BY <1>3 DEF Disconnect
  <1>4. CASE NetworkInit
    BY <1>4 DEF NetworkInit, TypeInv
  <1>5. CASE NetworkSetConnTimeout
    BY <1>5 DEF NetworkSetConnTimeout, TypeInv
  <1> QED
    BY <1>1, <1>2, <1>3, <1>4, <1>5

\* The statements of the task that connect: only the CONNACK opens the session.
LEMMA ConnectKeepsAnswers ==
    ASSUME AnswerInv,
           \/ NetworkConnect \/ SendConnect \/ WaitFor \/ ReadConnack \/ SetConnected
           \/ Attempted
    PROVE  SessionAnswered' /\ BytesAnswered'
  <1> USE DEF Goto, sessionVars, netVars, sockVars, AnswerInv, SessionAnswered, BytesAnswered,
        Answered, Reconnecting
  <1>1. CASE NetworkConnect \/ SendConnect
    BY <1>1 DEF NetworkConnect, SendConnect
  <1>2. CASE WaitFor
    BY <1>2 DEF WaitFor
  <1>3. CASE ReadConnack
    <2>1. CASE fsm' = "reconnected"
      BY <1>3, <2>1 DEF ReadConnack
    <2>2. CASE fsm' = "refused" /\ UNCHANGED sessionVars
      BY <1>3, <2>2 DEF ReadConnack
    <2> QED
      BY <1>3, <2>1, <2>2 DEF ReadConnack
  <1>4. CASE SetConnected \/ Attempted
    BY <1>4 DEF SetConnected, Attempted
  <1> QED
    BY <1>1, <1>2, <1>3, <1>4

\* The statements of the task that upload only test, use or close the session.
LEMMA UploadKeepsAnswers ==
    ASSUME AnswerInv, Upload \/ Write \/ AllPublished
    PROVE  SessionAnswered' /\ BytesAnswered'
  <1> USE DEF Goto, sessionVars, netVars, sockVars, AnswerInv, SessionAnswered, BytesAnswered,
        Answered, Reconnecting
  <1>1. CASE Upload
    BY <1>1 DEF Upload, MQTTCloseSession
  <1>2. CASE Write
    BY <1>2 DEF Write, MQTTCloseSession
  <1>3. CASE AllPublished
    BY <1>3 DEF AllPublished
  <1> QED
    BY <1>1, <1>2, <1>3

\* Outside a cycle the task has read nothing.
LEMMA IdleReadsNothing ==
    ASSUME pc[FSM] \in {"idle", "call"}
    PROVE  CycleAnswered
  BY DEF CycleAnswered

\* Every step keeps AnswerInv.
LEMMA AnswerStep == AnswerInv /\ [Next]_vars => AnswerInv'
  <1> SUFFICES ASSUME AnswerInv, [Next]_vars PROVE AnswerInv'
    OBVIOUS
  <1>1. TypeInv'
    BY TypeStep DEF AnswerInv
  <1>2. SUFFICES SessionAnswered' /\ BytesAnswered' /\ CycleAnswered'
    BY <1>1 DEF AnswerInv
  <1>3. pc \in [Thread -> Labels] /\ rc \in [Thread -> Results]
    BY DEF AnswerInv, TypeInv, ReadType
  <1>4. CASE Environment
    BY <1>4, EnvironmentKeepsAnswers
  <1>5. ASSUME NEW t \in Background, BackgroundThread(t)
        PROVE  SessionAnswered' /\ BytesAnswered' /\ CycleAnswered'
    <2>1. t \in Thread /\ t # FSM
      BY Constants
    <2>2. CASE Read(t)
      <3>1. Onlookers /\ BytesAnswered'
        BY <2>1, <2>2, ReadKeepsBytes
      <3>2. pc'[FSM] = pc[FSM] /\ rc'[FSM] = rc[FSM]
        BY <1>3, <2>1, <2>2, Constants
        DEF Read, CallRead, ReadHeader, ReadLength, ReadRest, LengthRead, RestArrives, RestMissing, Act, Step
      <3> QED
        BY <3>1, <3>2, SessionStays, CycleStays DEF AnswerInv
    <2>3. CASE Exit(t) /\ Step(t, "call") /\ UNCHANGED taskVars
      <3>1. Onlookers /\ BytesAnswered'
        BY <2>1, <2>3, ExitKeepsAnswers DEF Onlookers, netVars, sockVars, taskVars
      <3>2. pc'[FSM] = pc[FSM] /\ rc'[FSM] = rc[FSM]
        BY <1>3, <2>1, <2>3, Constants DEF Exit, Step
      <3> QED
        BY <3>1, <3>2, SessionStays, CycleStays DEF AnswerInv
    <2> QED
      BY <1>5, <2>2, <2>3 DEF BackgroundThread
  <1>6. CASE Task \/ ImageComplete
    <2>1. fsm' # "waitfor" => CycleAnswered'
      BY <1>1, IdleReadsNothing DEF TypeInv, CycleAnswered
    <2>2. CASE \/ ImageComplete \/ EnsureConnected \/ Commence \/ Disconnect
               \/ NetworkInit \/ NetworkSetConnTimeout
      <3>1. fsm' # "waitfor"
        BY <2>2 DEF ImageComplete, EnsureConnected, Commence, Disconnect, NetworkInit,
             NetworkSetConnTimeout, Goto
      <3> QED
        BY <2>1, <2>2, <3>1, BeginKeepsAnswers
    <2>3. CASE \/ NetworkConnect \/ SendConnect \/ WaitFor \/ ReadConnack
               \/ SetConnected \/ Attempted
      <3>1. CycleAnswered'
        <4>1. CASE SendConnect
          <5>1. pc'[FSM] = "idle"
            BY <4>1 DEF SendConnect, readVars, AnswerInv, TypeInv
          <5> QED
            BY <5>1 DEF CycleAnswered
        <4>2. CASE WaitFor
          <5>1. pc'[FSM] \in {"idle", "call"}
            BY <1>3, <4>2, Constants DEF WaitFor, Step
          <5> QED
            BY <5>1 DEF CycleAnswered
        <4>3. CASE NetworkConnect \/ ReadConnack \/ SetConnected \/ Attempted
          BY <2>1, <4>3 DEF NetworkConnect, ReadConnack, SetConnected, Attempted, Goto
        <4> QED
          BY <2>3, <4>1, <4>2, <4>3
      <3> QED
        BY <2>3, <3>1, ConnectKeepsAnswers
    <2>4. CASE Upload \/ Write \/ AllPublished
      <3>1. fsm' # "waitfor"
        BY <2>4 DEF Upload, Write, AllPublished, Goto
      <3> QED
        BY <2>1, <2>4, <3>1, UploadKeepsAnswers
    <2>5. CASE Read(FSM) /\ UNCHANGED taskVars
      BY <2>5, ReadKeepsBytes, SessionStays, TaskReadsAnswer, Constants DEF AnswerInv
    <2>6. CASE WaitForExit
      <3>1. pc'[FSM] = "idle"
        BY <1>3, <2>6, Constants DEF WaitForExit, Step
      <3> QED
        BY <2>6, <3>1, WaitForExitKeepsAnswers DEF CycleAnswered
    <2> QED
      BY <1>6, <2>2, <2>3, <2>4, <2>5, <2>6 DEF Task
  <1>7. CASE UNCHANGED vars
    BY <1>7 DEF vars, sessionVars, netVars, sockVars, readVars, taskVars, AnswerInv,
         SessionAnswered, BytesAnswered, CycleAnswered, Answered
  <1> QED
    BY <1>4, <1>5, <1>6, <1>7 DEF Next

\* The invariant holds when the threads have been started.
LEMMA AnswerInit == Init => AnswerInv
  <1> SUFFICES ASSUME Init PROVE AnswerInv
    OBVIOUS
  <1>1. Answered(sock)
    BY DEF Init, Answered
  <1>2. pc[FSM] = "idle"
    BY Constants DEF Init
  <1> QED
    BY <1>1, <1>2, TypeInit DEF Init, AnswerInv, SessionAnswered, BytesAnswered, CycleAnswered,
         Reconnecting

\* A chunk is only written where the broker has answered.
LEMMA WritesAnswered ==
    ASSUME AnswerInv, [Next]_vars
    PROVE  written' > written => sock \in open /\ Answered(sock)
  <1>1. fsm = "write" => sock \in open /\ Answered(sock)
    BY DEF AnswerInv, SessionAnswered
  <1>2. written \in Nat
    BY DEF AnswerInv, TypeInv, TaskType
  <1>3. CASE written' = written
    BY <1>2, <1>3
  <1>4. CASE Write
    BY <1>1, <1>4 DEF Write
  <1>5. CASE AllPublished
    BY <1>2, <1>5 DEF AllPublished
  <1>6. Environment => written' = written
    BY DEF Environment, BrokerAnswers, BrokerPongs, LinkFails, SentExpires, ReceivedExpires, CommandTimerExpires, taskVars
  <1>7. ASSUME NEW t \in Background, BackgroundThread(t)
        PROVE  written' = written
    BY <1>7, ReadKeepsTask DEF BackgroundThread, taskVars
  <1>8. Task \/ ImageComplete => written' = written \/ Write \/ AllPublished
    BY DEF Task, ImageComplete, EnsureConnected, Commence, Disconnect, NetworkInit,
         NetworkSetConnTimeout, NetworkConnect, SendConnect, WaitFor, WaitForExit,
         ReadConnack, SetConnected, Attempted, Upload, taskVars
  <1>9. UNCHANGED vars => written' = written
    BY DEF vars, taskVars
  <1> QED
    BY <1>3, <1>4, <1>5, <1>6, <1>7, <1>8, <1>9 DEF Next

\* Whatever bytes the threads take from each other, the session is only believed in
\* while my_socket is open and the broker has answered the CONNECT on it.
THEOREM SessionsAreAnswered == Spec => []ConnectedMeansAnswered
  <1>1. AnswerInv => ConnectedMeansAnswered
    BY DEF AnswerInv, SessionAnswered, ConnectedMeansAnswered
  <1> QED
    BY <1>1, AnswerInit, AnswerStep, PTL DEF Spec

\* Every chunk goes to an open socket on which the broker has answered, also when the
\* session is closed between the test of isconnected and the write.
THEOREM ChunksGoToAnsweredSockets == Spec => ChunksOnlyAfterAnswer
  <1>1. AnswerInv /\ [Next]_vars => [written' > written => sock \in open /\ Answered(sock)]_vars
    BY WritesAnswered
  <1> QED
    BY <1>1, AnswerInit, AnswerStep, PTL DEF Spec, ChunksOnlyAfterAnswer
=============================================================================
