----------------------------- MODULE UartDriver -----------------------------
(***************************************************************************)
(* The way of single characters from the wire to image_buffer: the receive *)
(* FIFO of UART0, the interrupt handler of the HAL (USART_IRQHandler, not  *)
(* the DMA branch), temp_rx_buf, HT_USART_Callback, and append_hex_chars.  *)
(*                                                                         *)
(* UartRx takes from here that an interrupt delivers the characters in     *)
(* order, once, and that the bytes of a line do not depend on how it falls *)
(* into interrupts; it says itself what the two ping-pong buffers do when  *)
(* the task is late.  Here the task drains a buffer before the next line,  *)
(* so the buffer that is not active is free whenever a line ends.          *)
(*                                                                         *)
(* Characters are numbered as the camera sends them, and 0 is the byte 0.  *)
(* A line is two digits for each byte, CR and LF.  A byte of the image is  *)
(* the pair of characters it was made of.                                  *)
(*                                                                         *)
(* An interrupt that comes late finds the FIFO overflown: the character    *)
(* that does not fit is lost.  The FIFO holds 32 and asks for an interrupt *)
(* at 30.                                                                  *)
(*                                                                         *)
(* TempKeepsCharacters, CallbackKeepsIndex, CallbackUnchecked and          *)
(* EndsLineFirst are faulty variants of the definition after them: no      *)
(* behaviour uses them.                                                    *)
(***************************************************************************)
EXTENDS Integers, Sequences, FiniteSets

CONSTANTS
    LineBytes,    \* kChunkSize
    FrameLines,   \* numPacotes
    NumFrames,    \* bound: frames the camera takes
    FifoCap,      \* the 32 characters of the FIFO
    TempCap,      \* sizeof temp_rx_buf, 64
    ChunkCap,     \* USART_CHUNK_BUFFER_SIZE
    MaxLost       \* bound: characters lost once the modem listens

ASSUME DriverAssumption ==
    /\ {LineBytes, FrameLines, NumFrames, FifoCap} \subseteq Nat \ {0}
    /\ {TempCap, ChunkCap, MaxLost} \subseteq Nat
    /\ FifoCap <= TempCap
    /\ FifoCap < 2 * LineBytes + 2   \* else a line could end before the task is there
    /\ 2 * LineBytes + 2 < ChunkCap

VARIABLES
    sent,      \* characters sent, the number of the last one
    fifo,      \* the characters in the FIFO
    lost,      \* the characters that found it full
    start,     \* where the first HT_USART_StartRX is
    size,      \* usart_rx_buffer_size
    temp,      \* temp_rx_buf
    chunk,     \* the active buffer below its index
    ready,     \* the buffers that wait for the task: none or one
    image,     \* image_buffer
    images     \* the images published, and after which frame

wireVars == <<sent, fifo, lost>>
handlerVars == <<size, temp, chunk, ready>>
imageVars == <<image, images>>
vars == <<wireVars, start, handlerVars, imageVars>>

LineLen == 2 * LineBytes + 2
FrameLen == LineLen * FrameLines
Place(c) == ((c - 1) % LineLen) + 1

IsDigit(c) == c # 0 /\ Place(c) <= 2 * LineBytes
IsNewline(c) == c # 0 /\ Place(c) = LineLen

Zeros == [i \in 1 .. TempCap |-> 0]

\* HT_USART_InitApp has reset the UART; the interrupts are not enabled yet.
Init ==
    /\ sent = 0 /\ fifo = <<>> /\ lost = {}
    /\ start = "enable" /\ size = 0 /\ temp = Zeros
    /\ chunk = <<>> /\ ready = <<>>
    /\ image = <<>> /\ images = <<>>

-----------------------------------------------------------------------------
(* The camera and the FIFO.                                                *)

\* After a line the camera pauses for 300 ms, and after a frame the operator
\* waits until the modem is idle, or has not started.
CameraSends ==
    /\ sent < NumFrames * FrameLen
    /\ (start # "enable" /\ sent % LineLen = 0) => fifo = <<>> /\ ready = <<>>
    /\ (start # "enable" /\ sent % FrameLen = 0) => image = <<>>

Arrive ==
    /\ CameraSends
    /\ sent' = sent + 1
    /\ \/ Len(fifo) < FifoCap /\ fifo' = Append(fifo, sent') /\ UNCHANGED lost
       \/ /\ Len(fifo) = FifoCap
          /\ start # "enable" => Cardinality(lost) < MaxLost
          /\ lost' = lost \union {sent'} /\ UNCHANGED fifo
    /\ UNCHANGED <<start, handlerVars, imageVars>>

-----------------------------------------------------------------------------
(* The interrupt handler.                                                  *)

\* HAL_USART_Receive_IRQn moves n characters to the beginning of temp_rx_buf.
Received(n) == [i \in 1 .. TempCap |-> IF i <= n THEN fifo[i] ELSE temp[i]]

\* The callback is not told how many: it looks for the last byte that is not 0.
Content(buffer) ==
    LET used == {i \in 1 .. TempCap : buffer[i] # 0}
    IN IF used = {} THEN <<>>
       ELSE SubSeq(buffer, 1, CHOOSE i \in used : \A k \in used : k <= i)

EndsLineFirst(s) == s # <<>> /\ IsNewline(s[1])

EndsLine(s) == \E i \in 1 .. Len(s) : IsNewline(s[i])

\* The active buffer with the characters s, if they fit.
Longer(s) == IF Len(chunk) + Len(s) < ChunkCap THEN chunk \o s ELSE chunk

TempKeepsCharacters(s) ==
    /\ temp' = Received(IF Len(fifo) < size THEN Len(fifo) ELSE size)
    /\ IF EndsLine(s)
       THEN ready' = Append(ready, Longer(s)) /\ chunk' = <<>>
       ELSE UNCHANGED ready /\ chunk' = Longer(s)

CallbackKeepsIndex(s) ==
    /\ temp' = Zeros
    /\ chunk' = Longer(s)
    /\ IF EndsLine(s) THEN ready' = Append(ready, Longer(s)) ELSE UNCHANGED ready

CallbackUnchecked(s) ==
    /\ temp' = Zeros
    /\ IF EndsLine(s)
       THEN ready' = Append(ready, chunk \o s) /\ chunk' = <<>>
       ELSE UNCHANGED ready /\ chunk' = chunk \o s

\* HT_USART_Callback with the characters s: they are copied, and a newline
\* among them hands the buffer to the task and switches to the other one.
Callback(s) ==
    /\ temp' = Zeros
    /\ IF EndsLine(s)
       THEN ready' = Append(ready, Longer(s)) /\ chunk' = <<>>
       ELSE UNCHANGED ready /\ chunk' = Longer(s)

\* USART_IRQHandler: at the trigger level, after a pause of the line, or late.
\* Before the first HAL_USART_Receive_IT it has nowhere to put a character,
\* and the callback makes up for that.
Interrupt ==
    /\ start # "enable" /\ fifo # <<>>
    /\ LET n == IF Len(fifo) < size THEN Len(fifo) ELSE size
       IN fifo' = SubSeq(fifo, n + 1, Len(fifo)) /\ Callback(Content(Received(n)))
    /\ size' = TempCap
    /\ UNCHANGED <<sent, lost, start, imageVars>>

-----------------------------------------------------------------------------
(* The task.                                                               *)

\* The first HT_USART_StartRX: interrupts are enabled before the HAL is given
\* a buffer.
EnableInterrupt ==
    /\ start = "enable" /\ start' = "arm"
    /\ UNCHANGED <<wireVars, handlerVars, imageVars>>

ReceiveIT ==
    /\ start = "arm" /\ start' = "run"
    /\ size' = TempCap
    /\ UNCHANGED <<wireVars, temp, chunk, ready, imageVars>>

\* append_hex_chars takes one character: a digit waits as high_nibble for the next
\* (0 if none does), and any other character is passed over.
TakeChar(got, c) ==
    IF ~ IsDigit(c) THEN got
    ELSE IF got.high = 0 THEN [got EXCEPT !.high = c]
    ELSE [high |-> 0, dst |-> Append(got.dst, <<got.high, c>>)]

\* ... and all of them; an odd digit is forgotten at the end.
HexChars(s) ==
    LET read[i \in 0 .. Len(s)] ==
          IF i = 0 THEN [high |-> 0, dst |-> <<>>] ELSE TakeChar(read[i - 1], s[i])
    IN read[Len(s)].dst

\* The task finds the buffer READY.
Drain ==
    /\ start = "run" /\ ready # <<>>
    /\ image' = image \o HexChars(ready[1])
    /\ ready' = Tail(ready)
    /\ UNCHANGED <<wireVars, start, size, temp, chunk, images>>

\* Four seconds of silence: the image is published and HT_USART_StartRX empties
\* the buffers, also of a line that never ended.  Without a byte in
\* image_buffer there is no timeout, and such a line stays.
Publish ==
    /\ start = "run" /\ sent % FrameLen = 0 /\ fifo = <<>> /\ ready = <<>>
    /\ image # <<>>
    /\ images' = Append(images, [frame |-> sent \div FrameLen, bytes |-> image])
    /\ image' = <<>> /\ chunk' = <<>> /\ temp' = Zeros /\ size' = TempCap
    /\ UNCHANGED <<wireVars, start, ready>>

Task == EnableInterrupt \/ ReceiveIT \/ Drain \/ Publish

-----------------------------------------------------------------------------

Next == Arrive \/ Interrupt \/ Task

\* The FIFO asks for its interrupt until it is empty, and the task runs.
Fairness == WF_vars(Interrupt) /\ WF_vars(Task)

Spec == Init /\ [][Next]_vars /\ Fairness

-----------------------------------------------------------------------------
(* Properties.                                                             *)

TypeOK ==
    /\ sent \in 0 .. NumFrames * FrameLen
    /\ fifo \in Seq(1 .. sent) /\ Len(fifo) <= FifoCap /\ lost \subseteq 1 .. sent
    /\ start \in {"enable", "arm", "run"} /\ size \in {0, TempCap}
    /\ temp \in [1 .. TempCap -> 0 .. sent]
    /\ chunk \in Seq(1 .. sent) /\ Len(chunk) < ChunkCap
    /\ Len(ready) <= 1 /\ image \in Seq((1 .. sent) \X (1 .. sent))
    /\ \A k \in 1 .. Len(images) : images[k].frame \in 1 .. NumFrames

\* The digits in the image, in the order they were decoded.
Digits(bytes) ==
    [i \in 1 .. 2 * Len(bytes) |-> bytes[(i + 1) \div 2][IF i % 2 = 1 THEN 1 ELSE 2]]

Increasing(s) == \A i \in 1 .. Len(s) - 1 : s[i] < s[i + 1]

\* However late the interrupts are, no character is decoded twice or before an
\* earlier one, although temp_rx_buf does not say how much of it is new.
DigitsOnceInOrder ==
    /\ Increasing(Digits(image))
    /\ \A k \in 1 .. Len(images) : Increasing(Digits(images[k].bytes))

CharsOf(line) == (line - 1) * LineLen + 1 .. line * LineLen
BytesOf(line) ==
    [k \in 1 .. LineBytes |->
        LET c == (line - 1) * LineLen + 2 * k IN <<c - 1, c>>]

\* Nothing was in the active buffer when the line began: the newline before it
\* came in, or HT_USART_StartRX has emptied the buffer since.
BeganClean(line) ==
    \/ line = 1
    \/ (line - 1) * LineLen \notin lost
    \/ /\ line % FrameLines = 1 % FrameLines
       /\ \E k \in 1 .. Len(images) : images[k].frame = (line - 1) \div FrameLines

\* Damage does not spread: a line all of whose characters came in is in the
\* published image, byte for byte, if its buffer began clean, whatever was lost
\* before it and after it.
CleanLinesExact ==
    \A k \in 1 .. Len(images) :
        \A line \in (images[k].frame - 1) * FrameLines + 1 .. images[k].frame * FrameLines :
            (BeganClean(line) /\ CharsOf(line) \cap lost = {}) =>
                \E i \in 0 .. Len(images[k].bytes) - LineBytes :
                    SubSeq(images[k].bytes, i + 1, i + LineBytes) = BytesOf(line)

\* A frame that was sent without a loss is published, even if its first
\* interrupt came before the HAL had a buffer.
CleanFramePublished ==
    \A f \in 1 .. NumFrames :
        (sent = f * FrameLen /\ lost = {})
            ~> (\E k \in 1 .. Len(images) : images[k].frame = f)
=============================================================================
