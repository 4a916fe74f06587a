--------------------------- MODULE ImageReceiver ---------------------------
(***************************************************************************)
(* Software/scripts/mqtt_receiver.py: the process that collects the chunks *)
(* the modem publishes under nb-iot-espcam/chunck/<index>, decides when an *)
(* image is complete, joins it and stores it twice, in MongoDB and as a    *)
(* file named after the current second.                                    *)
(*                                                                         *)
(* The modem and the broker are the environment: the chunks of a frame     *)
(* arrive in the order of their index, at most once (QoS 0), and any of    *)
(* them may be lost.  A chunk's payload is the number of its frame, and    *)
(* whether it is shorter than the 512 digits of a full chunk: only the     *)
(* last chunk of a frame can be, and only if the length of the image is no *)
(* multiple of 256 bytes.                                                  *)
(*                                                                         *)
(* JoinUnsorted, JoinAndKeep, IgnoreRepeated and MoreToSendAtEnd are       *)
(* faulty variants of the definition after them: no behaviour uses them.   *)
(***************************************************************************)
EXTENDS Integers, Sequences, FiniteSets

CONSTANTS
    NumFrames,    \* bound: frames the modem publishes
    TotalChunks,  \* TOTAL_CHUNKS
    Scenarios     \* the shapes of frames there are (how many chunks, is the last
                  \* one short), and bounds: chunks lost, restarts of the receiver

ASSUME ConstantsAssumption ==
    /\ {NumFrames, TotalChunks} \subseteq Nat \ {0}
    /\ \A s \in Scenarios :
         /\ s.shapes \subseteq [n : Nat \ {0}, short : BOOLEAN] /\ s.shapes # {}
         /\ {s.maxLost, s.maxRestarts} \subseteq Nat

VARIABLES
    scenario,             \* which one it is, from the beginning
    frame, shape, next,   \* the frame on its way, and the index of its next chunk
    whole,                \* none of its chunks was lost so far
    lost, restarts,
    chunks,               \* the dictionary: index -> [frame, short]
    images,               \* what tentar_montar_imagem joined: <<frame, index>>, ...
    inMongo, onDisk,      \* the images (by number) that are stored
    named,                \* the image in the file of the last name taken, if any
    delivered             \* the frames all of whose chunks were received

publisherVars == <<scenario, frame, shape, next, whole, lost>>
storeVars == <<inMongo, onDisk, named>>
vars == <<publisherVars, restarts, chunks, images, storeVars, delivered>>

EXPECTED_INDICES == 0 .. TotalChunks - 1

Empty == <<>>

\* The chunks of frame f, in order, when it has n of them.
FrameChunks(f, n) == [i \in 1 .. n |-> <<f, i - 1>>]

Payload == [frame |-> frame, short |-> shape.short /\ next = shape.n - 1]

Init ==
    /\ scenario \in Scenarios
    /\ frame = 1 /\ shape \in scenario.shapes /\ next = 0 /\ whole = TRUE
    /\ lost = 0 /\ restarts = 0
    /\ chunks = Empty /\ images = <<>>
    /\ inMongo = {} /\ onDisk = {} /\ named = {}
    /\ delivered = {}

-----------------------------------------------------------------------------
(* Joining and storing.                                                    *)

\* The k-th of the indices in S by size.
Nth(S, k) == CHOOSE i \in S : Cardinality({j \in S : j < i}) = k - 1

JoinUnsorted(received) ==
    LET indices == DOMAIN received
        last == Cardinality(indices) + 1
    IN [k \in 1 .. Cardinality(indices) |->
            <<received[Nth(indices, last - k)].frame, Nth(indices, last - k)>>]

\* The payloads by increasing index, gaps and all.
Join(received) ==
    LET indices == DOMAIN received
    IN [k \in 1 .. Cardinality(indices) |->
            <<received[Nth(indices, k)].frame, Nth(indices, k)>>]

\* processar_imagem for the k-th image: it takes the name of the file from the
\* clock, a new one or that of the image before, then inserts the image in
\* MongoDB, then writes the file.  Every exception of the two is swallowed.  A
\* write replaces the file of that name, and one that fails may have emptied it.
ProcessarImagem(k) ==
    \E sameName \in {{}, named} :
        /\ inMongo' \in {inMongo, inMongo \union {k}}
        /\ \/ onDisk' = (onDisk \ sameName) \union {k} /\ named' = {k}
           \/ onDisk' \in {onDisk, onDisk \ sameName} /\ named' = sameName \intersect onDisk'

JoinAndKeep(received) ==
    /\ images' = Append(images, Join(received))
    /\ chunks' = received

\* tentar_montar_imagem: join, and clear the dictionary.  In between it calls
\* processar_imagem, whose outcome nothing depends on: Deliver has it.
TentarMontarImagem(received) ==
    /\ images' = Append(images, Join(received))
    /\ chunks' = Empty

-----------------------------------------------------------------------------
(* Messages.                                                               *)

\* All expected indices are there, whichever frame they come from.
AllPresent(received) == EXPECTED_INDICES \subseteq DOMAIN received

\* The fallback: a short chunk ends the image if nothing before it is missing.
LastChunk(received, idx, payload) ==
    payload.short /\ 0 .. idx \subseteq DOMAIN received

IgnoreRepeated(idx, payload) ==
    [i \in DOMAIN chunks \union {idx} |->
        IF i \in DOMAIN chunks THEN chunks[i] ELSE payload]

\* The dictionary with the new chunk, which replaces the one of the same index, if
\* there is one.
Received(idx, payload) ==
    [i \in DOMAIN chunks \union {idx} |-> IF i = idx THEN payload ELSE chunks[i]]

\* on_message.
OnMessage(idx, payload) ==
    LET received == Received(idx, payload)
    IN IF AllPresent(received) \/ LastChunk(received, idx, payload)
       THEN TentarMontarImagem(received)
       ELSE chunks' = received /\ UNCHANGED images

MoreToSendAtEnd == next <= shape.n

\* published < image_len
MoreToSend == next < shape.n

\* The next chunk is published and arrives.  An image it completes is stored.
Deliver ==
    /\ MoreToSend
    /\ OnMessage(next, Payload)
    /\ IF images' = images THEN UNCHANGED storeVars ELSE ProcessarImagem(Len(images'))
    /\ next' = next + 1
    /\ delivered' = IF whole /\ next = shape.n - 1
                    THEN delivered \union {[frame |-> frame, n |-> shape.n]}
                    ELSE delivered
    /\ UNCHANGED <<scenario, frame, shape, whole, lost, restarts>>

\* The publication fails, or the chunk is lost on the way.
Lose ==
    /\ MoreToSend /\ lost < scenario.maxLost
    /\ next' = next + 1 /\ lost' = lost + 1 /\ whole' = FALSE
    /\ UNCHANGED <<scenario, frame, shape, restarts, chunks, images, storeVars, delivered>>

\* The modem begins the next frame at index 0.
NextFrame ==
    /\ ~MoreToSend /\ frame < NumFrames
    /\ frame' = frame + 1 /\ shape' \in scenario.shapes /\ next' = 0 /\ whole' = TRUE
    /\ UNCHANGED <<scenario, lost, restarts, chunks, images, storeVars, delivered>>

\* The receiver is started again: the dictionary is empty, and what it had of
\* the frame on its way is gone.  What is stored stays.
Restart ==
    /\ restarts < scenario.maxRestarts
    /\ restarts' = restarts + 1
    /\ chunks' = Empty
    /\ whole' = (whole /\ next = 0)
    /\ UNCHANGED <<scenario, frame, shape, next, lost, images, storeVars, delivered>>

Next == Deliver \/ Lose \/ NextFrame \/ Restart

Spec == Init /\ [][Next]_vars

-----------------------------------------------------------------------------
(* Properties.                                                             *)

TypeOK ==
    /\ scenario \in Scenarios
    /\ frame \in 1 .. NumFrames /\ shape \in scenario.shapes /\ next \in 0 .. shape.n
    /\ whole \in BOOLEAN /\ lost \in 0 .. scenario.maxLost
    /\ restarts \in 0 .. scenario.maxRestarts
    /\ \A i \in DOMAIN chunks : i \in Nat /\ chunks[i] \in [frame : Nat, short : BOOLEAN]
    /\ images \in Seq(Seq(Nat \X Nat))
    /\ inMongo \union onDisk \subseteq 1 .. Len(images) /\ named \subseteq onDisk
    /\ delivered \subseteq [frame : 1 .. NumFrames, n : Nat]

\* No chunk is in two images, or twice in one: tentar_montar_imagem empties the
\* dictionary it joined, on both of its paths.
NoReuse ==
    \A k, m \in 1 .. Len(images) :
        \A i \in 1 .. Len(images[k]), j \in 1 .. Len(images[m]) :
            images[k][i] = images[m][j] => k = m /\ i = j

\* Every frame has the same shape, ends in a short chunk and has fewer chunks
\* than the receiver expects.
AlikeAndShort ==
    /\ \A s, t \in scenario.shapes : s = t
    /\ \A s \in scenario.shapes : s.short /\ s.n < TotalChunks

\* With frames of one length that end in a short chunk and have fewer chunks
\* than the receiver expects, a frame that arrives complete is joined as it
\* was sent, whatever losses and restarts came before: the chunks left over
\* from damaged frames are all replaced before the short chunk comes.
DeliveredFramesIntact ==
    AlikeAndShort => \A d \in delivered :
        \E k \in 1 .. Len(images) : images[k] = FrameChunks(d.frame, d.n)

\* When nothing is lost the image begins with the newest frame, and what
\* follows is never newer: left-over chunks can only stand at the end.
HeadIsNewest ==
    (lost = 0 /\ restarts = 0) => \A k \in 1 .. Len(images) :
        \A i, j \in 1 .. Len(images[k]) :
            i < j => images[k][i][1] >= images[k][j][1]

\* "Main condition: all 75 chunks (0-74) present": with frames of one shape,
\* full to the last chunk, what is joined is one frame, all of it.
JoinedFramesComplete ==
    \A k \in 1 .. Len(images) :
        \E f \in 1 .. NumFrames : images[k] = FrameChunks(f, shape.n)
=============================================================================
