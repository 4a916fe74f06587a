-------------------------- MODULE UartDriverProofs --------------------------
(***************************************************************************)
(* Theorems about UartDriver: types, that no character is decoded twice or *)
(* before an earlier one, and that a line all of which came in is in the   *)
(* published image, for any length of lines and frames, any capacities and *)
(* any number of lost characters.                                          *)
(***************************************************************************)
EXTENDS UartDriver, SequenceTheorems, WellFoundedInduction, TLAPS

(***************************************************************************)
(* Induction.  The theorems of the library take a predicate; the provers   *)
(* need a set.                                                             *)
(***************************************************************************)

\* A set of numbers has a least one.
LEMMA Least ==
    ASSUME NEW T, T \subseteq Nat, T # {}
    PROVE  \E x \in T : \A y \in T : x <= y
  <1> DEFINE R == OpToRel(<, Nat)
  <1>1. IsWellFoundedOn(R, Nat)
    BY NatLessThanWellFounded
  <1>2. \A x, y \in Nat : y < x => <<y, x>> \in R
    BY DEF OpToRel
  <1> HIDE DEF R
  <1>3. PICK x \in T : \A y \in T : ~ (<<y, x>> \in R)
    BY <1>1, WFMin
  <1>4. \A y \in T : ~ (y < x)
    BY <1>2, <1>3
  <1>5. \A y \in T : x <= y
    BY <1>3, <1>4
  <1> QED
    BY <1>3, <1>5

\* What holds of 0, and of each number after one of which it holds, holds of all.
LEMMA Counting ==
    ASSUME NEW n \in Nat, NEW G, 0 \in G, \A i \in 0 .. n - 1 : i \in G => i + 1 \in G
    PROVE  \A i \in 0 .. n : i \in G
  <1> DEFINE T == {i \in 0 .. n : i \notin G}
  <1>1. SUFFICES ASSUME T # {} PROVE FALSE
    OBVIOUS
  <1>2. T \subseteq Nat
    OBVIOUS
  <1> HIDE DEF T
  <1>3. PICK x \in T : \A y \in T : x <= y
    BY <1>1, <1>2, Least
  <1>4. x \in 0 .. n /\ x \notin G
    BY <1>3 DEF T
  <1>5. x \in 1 .. n /\ x - 1 \in 0 .. n - 1 /\ x - 1 \in 0 .. n
    BY <1>4
  <1>6. x - 1 \in G
    <2>1. SUFFICES ASSUME x - 1 \notin G PROVE FALSE
      OBVIOUS
    <2>2. x - 1 \in T
      BY <1>5, <2>1 DEF T
    <2>3. x <= x - 1
      BY <1>3, <2>2
    <2> QED
      BY <1>5, <2>3
  <1>7. x - 1 + 1 \in G
    BY <1>5, <1>6
  <1> QED
    BY <1>4, <1>5, <1>7

-----------------------------------------------------------------------------
(* append_hex_chars.                                                       *)

\* Reading the first n characters of s, one after the other.
Read(s, n, f) ==
    [i \in 0 .. n |-> IF i = 0 THEN [high |-> 0, dst |-> <<>>] ELSE TakeChar(f[i - 1], s[i])]

\* There is a function that does so.
LEMMA ReadExists ==
    ASSUME NEW s, NEW n \in Nat
    PROVE  \E f : f = Read(s, n, f)
  <1> DEFINE G == {m \in 0 .. n : \E f : f = Read(s, m, f)}
  <1>1. 0 \in G
    <2> DEFINE f == [i \in 0 .. 0 |-> [high |-> 0, dst |-> <<>>]]
    <2>1. f = Read(s, 0, f)
      BY DEF Read
    <2> QED
      BY <2>1
  <1>2. ASSUME NEW m \in 0 .. n - 1, m \in G PROVE m + 1 \in G
    <2>1. PICK f : f = Read(s, m, f)
      BY <1>2
    <2> DEFINE g == [i \in 0 .. m + 1 |-> IF i <= m THEN f[i] ELSE TakeChar(f[m], s[m + 1])]
    <2>2. ASSUME NEW i \in 0 .. m + 1
          PROVE  g[i] = IF i = 0 THEN [high |-> 0, dst |-> <<>>] ELSE TakeChar(g[i - 1], s[i])
      <3>1. CASE i = 0
        BY <2>1, <3>1 DEF Read
      <3>2. CASE i \in 1 .. m
        <4>1. i - 1 \in 0 .. m /\ i - 1 \in 0 .. m + 1 /\ i \in 0 .. m
          BY <3>2
        <4>2. g[i] = f[i] /\ g[i - 1] = f[i - 1]
          BY <3>2, <4>1
        <4>3. f[i] = TakeChar(f[i - 1], s[i])
          BY <2>1, <3>2, <4>1 DEF Read
        <4> QED
          BY <3>2, <4>2, <4>3
      <3>3. CASE i = m + 1
        <4>1. i - 1 = m /\ i # 0 /\ ~ (i <= m) /\ m \in 0 .. m + 1 /\ m <= m
          BY <3>3
        <4> QED
          BY <3>3, <4>1
      <3> QED
        BY <3>1, <3>2, <3>3
    <2>3. g = Read(s, m + 1, g)
      BY <2>2 DEF Read
    <2> HIDE DEF g
    <2> QED
      BY <2>3
  <1> HIDE DEF G
  <1>3. n \in G
    BY <1>1, <1>2, Counting
  <1> QED
    BY <1>3 DEF G

\* HexChars is what is read at the end.
LEMMA HexCharsReads ==
    ASSUME NEW s, Len(s) \in Nat
    PROVE  \E f : /\ f[0] = [high |-> 0, dst |-> <<>>]
                  /\ \A i \in 1 .. Len(s) : f[i] = TakeChar(f[i - 1], s[i])
                  /\ HexChars(s) = f[Len(s)].dst
  <1> DEFINE read == CHOOSE f : f = Read(s, Len(s), f)
  <1>1. HexChars(s) = read[Len(s)].dst
    BY DEF HexChars, Read
  <1>2. read = Read(s, Len(s), read)
    BY ReadExists
  <1> HIDE DEF read
  <1>3. read[0] = [high |-> 0, dst |-> <<>>]
    BY <1>2 DEF Read
  <1>4. ASSUME NEW i \in 1 .. Len(s) PROVE read[i] = TakeChar(read[i - 1], s[i])
    <2>1. i \in 0 .. Len(s) /\ i # 0
      OBVIOUS
    <2> QED
      BY <1>2, <2>1 DEF Read
  <1> QED
    BY <1>1, <1>3, <1>4

\* In increasing order; all of s before all of t; the same of decoded bytes,
\* which are pairs of characters.
Sorted(s) == \A i, j \in 1 .. Len(s) : i < j => s[i] < s[j]
Before(s, t) == \A i \in 1 .. Len(s), j \in 1 .. Len(t) : s[i] < t[j]
PairsSorted(b) ==
    /\ \A i \in 1 .. Len(b) : b[i][1] < b[i][2]
    /\ \A i, j \in 1 .. Len(b) : i < j => b[i][2] < b[j][1]
PairsBefore(b, t) == \A i \in 1 .. Len(b), j \in 1 .. Len(t) : b[i][2] < t[j]

Bytes(n) == Seq((1 .. n) \X (1 .. n))

\* What append_hex_chars has made of some of the characters S, up to number n.
Decoded(got, S, n) ==
    /\ got \in [high : 0 .. n, dst : Bytes(n)]
    /\ PairsSorted(got.dst)
    /\ got.high # 0 => got.high \in S /\ \A k \in 1 .. Len(got.dst) : got.dst[k][2] < got.high
    /\ \A k \in 1 .. Len(got.dst) : got.dst[k][1] \in S /\ got.dst[k][2] \in S

\* One more character, later than the others.
LEMMA TakeCharInOrder ==
    ASSUME NEW n \in Nat, NEW S \in SUBSET (1 .. n), NEW c \in 1 .. n, NEW got,
           Decoded(got, S, n), \A x \in S : x < c
    PROVE  Decoded(TakeChar(got, c), S \union {c}, n)
  <1>1. /\ got \in [high : 0 .. n, dst : Bytes(n)] /\ PairsSorted(got.dst)
        /\ got.high # 0 => got.high \in S /\ \A k \in 1 .. Len(got.dst) : got.dst[k][2] < got.high
        /\ \A k \in 1 .. Len(got.dst) : got.dst[k][1] \in S /\ got.dst[k][2] \in S
    BY DEF Decoded
  <1>2. CASE ~ IsDigit(c)
    <2>1. TakeChar(got, c) = got
      BY <1>2 DEF TakeChar
    <2> QED
      BY <1>1, <2>1 DEF Decoded
  <1>3. CASE IsDigit(c) /\ got.high = 0
    <2> DEFINE new == TakeChar(got, c)
    <2>1. new = [got EXCEPT !.high = c]
      BY <1>3 DEF TakeChar
    <2>2. new \in [high : 0 .. n, dst : Bytes(n)] /\ new.high = c /\ new.dst = got.dst
      BY <1>1, <2>1
    <2>3. \A k \in 1 .. Len(got.dst) : got.dst[k][2] < c
      BY <1>1
    <2> HIDE DEF new
    <2>4. Decoded(new, S \union {c}, n)
      BY <1>1, <2>2, <2>3 DEF Decoded
    <2> QED
      BY <2>4 DEF new
  <1>4. CASE IsDigit(c) /\ got.high # 0
    <2> DEFINE new == TakeChar(got, c)
               d == got.dst
               e == Append(d, <<got.high, c>>)
    <2>1. new = [high |-> 0, dst |-> e]
      BY <1>4 DEF TakeChar
    <2>2. d \in Bytes(n) /\ got.high \in 1 .. n /\ got.high \in S /\ got.high < c
      BY <1>1, <1>4
    <2>3. <<got.high, c>> \in (1 .. n) \X (1 .. n)
      BY <2>2
    <2>4. /\ e \in Bytes(n) /\ Len(d) \in Nat /\ Len(e) = Len(d) + 1
          /\ \A k \in 1 .. Len(d) : e[k] = d[k]
          /\ e[Len(d) + 1] = <<got.high, c>>
      BY <2>2, <2>3 DEF Bytes
    <2>5. /\ \A k \in 1 .. Len(d) : d[k][1] \in S /\ d[k][2] \in S /\ d[k][1] < d[k][2] /\ d[k][2] < got.high
          /\ \A i, j \in 1 .. Len(d) : i < j => d[i][2] < d[j][1]
      BY <1>1, <1>4 DEF PairsSorted
    <2> HIDE DEF d, e, new
    <2>6. \A k \in 1 .. Len(e) : k \in 1 .. Len(d) \/ k = Len(d) + 1
      BY <2>4
    <2>7. \A k \in 1 .. Len(e) :
             e[k][1] \in S \union {c} /\ e[k][2] \in S \union {c} /\ e[k][1] < e[k][2]
      BY <2>2, <2>4, <2>5, <2>6
    <2>8. ASSUME NEW i \in 1 .. Len(e), NEW j \in 1 .. Len(e), i < j PROVE e[i][2] < e[j][1]
      <3>1. i \in 1 .. Len(d)
        BY <2>4, <2>8
      <3> QED
        BY <2>4, <2>5, <2>6, <2>8, <3>1
    <2>9. Decoded(new, S \union {c}, n)
      BY <2>1, <2>4, <2>7, <2>8 DEF Decoded, PairsSorted
    <2> QED
      BY <2>9 DEF new
  <1> QED
    BY <1>2, <1>3, <1>4

\* Characters in order are decoded to digits in order, each at most once.
LEMMA HexCharsInOrder ==
    ASSUME NEW n \in Nat, NEW s \in Seq(1 .. n), Sorted(s)
    PROVE  /\ HexChars(s) \in Bytes(n)
           /\ PairsSorted(HexChars(s))
           /\ \A k \in 1 .. Len(HexChars(s)) :
                 \E i, j \in 1 .. Len(s) : HexChars(s)[k][1] = s[i] /\ HexChars(s)[k][2] = s[j]
  <1>1. Len(s) \in Nat /\ \A i \in 1 .. Len(s) : s[i] \in 1 .. n
    OBVIOUS
  <1>2. PICK f : /\ f[0] = [high |-> 0, dst |-> <<>>]
                 /\ \A i \in 1 .. Len(s) : f[i] = TakeChar(f[i - 1], s[i])
                 /\ HexChars(s) = f[Len(s)].dst
    BY <1>1, HexCharsReads
  <1> DEFINE First(m) == {s[j] : j \in 1 .. m}
             G == {m \in 0 .. Len(s) : Decoded(f[m], First(m), n)}
  <1>3. 0 \in G
    <2>1. f[0].high = 0 /\ f[0].dst = <<>> /\ f[0] \in [high : 0 .. n, dst : Bytes(n)]
      BY <1>2 DEF Bytes
    <2>2. PairsSorted(<<>>) /\ Len(<<>>) = 0
      BY DEF PairsSorted
    <2> HIDE DEF First
    <2>3. Decoded(f[0], First(0), n)
      BY <2>1, <2>2 DEF Decoded
    <2> QED
      BY <1>1, <2>3
  <1>4. ASSUME NEW m \in 0 .. Len(s) - 1, m \in G PROVE m + 1 \in G
    <2>1. m + 1 \in 1 .. Len(s) /\ m + 1 \in 0 .. Len(s) /\ m + 1 - 1 = m
      BY <1>1, <1>4
    <2>2. f[m + 1] = TakeChar(f[m], s[m + 1])
      BY <1>2, <2>1
    <2>3. First(m) \in SUBSET (1 .. n) /\ \A x \in First(m) : x < s[m + 1]
      <3>1. ASSUME NEW j \in 1 .. m PROVE s[j] \in 1 .. n /\ s[j] < s[m + 1]
        <4>1. j \in 1 .. Len(s) /\ j < m + 1
          BY <1>1, <2>1
        <4> QED
          BY <1>1, <2>1, <4>1 DEF Sorted
      <3> QED
        BY <3>1
    <2>4. First(m + 1) = First(m) \union {s[m + 1]}
      <3>1. 1 .. m + 1 = (1 .. m) \union {m + 1}
        BY <2>1
      <3> QED
        BY <3>1
    <2>5. Decoded(f[m], First(m), n) /\ s[m + 1] \in 1 .. n
      BY <1>1, <1>4, <2>1
    <2> HIDE DEF First
    <2>6. Decoded(TakeChar(f[m], s[m + 1]), First(m) \union {s[m + 1]}, n)
      BY <2>3, <2>5, TakeCharInOrder
    <2>7. Decoded(f[m + 1], First(m + 1), n)
      BY <2>2, <2>4, <2>6
    <2> QED
      BY <2>1, <2>7
  <1> HIDE DEF G
  <1>5. Len(s) \in G
    <2>1. \A m \in 0 .. Len(s) : m \in G
      BY <1>1, <1>3, <1>4, Counting
    <2> QED
      BY <1>1, <2>1
  <1>6. Decoded(f[Len(s)], First(Len(s)), n)
    BY <1>5 DEF G
  <1> HIDE DEF First
  <1>7. /\ HexChars(s) \in Bytes(n) /\ PairsSorted(HexChars(s))
        /\ \A k \in 1 .. Len(HexChars(s)) :
              HexChars(s)[k][1] \in First(Len(s)) /\ HexChars(s)[k][2] \in First(Len(s))
    BY <1>2, <1>6 DEF Decoded
  <1>8. \A x \in First(Len(s)) : \E j \in 1 .. Len(s) : x = s[j]
    BY DEF First
  <1> QED
    BY <1>7, <1>8

-----------------------------------------------------------------------------
(* The invariant.                                                          *)

\* TypeOK is not inductive: that an interrupt finds temp_rx_buf empty, and so moves
\* the FIFO and nothing else, and that no line ends while one waits, have reasons in
\* PhaseInv.  DigitsOnceInOrder is about the image alone, and what is decoded next
\* comes from the buffer and the FIFO: OrderInv follows a character all the way.
TypeInv ==
    /\ sent \in 0 .. NumFrames * FrameLen
    /\ fifo \in Seq(1 .. sent) /\ Len(fifo) <= FifoCap /\ lost \subseteq 1 .. sent
    /\ start \in {"enable", "arm", "run"} /\ size \in {0, TempCap}
    /\ temp = Zeros
    /\ chunk \in Seq(1 .. sent) /\ Len(chunk) < ChunkCap
    /\ ready \in Seq(Seq(1 .. sent)) /\ Len(ready) <= 1
    /\ image \in Bytes(sent)
    /\ images \in Seq([frame : 1 .. NumFrames, bytes : Bytes(sent)])

\* Where the characters are.  Before the interrupt is enabled the FIFO keeps the
\* first ones; a newline in the FIFO, or a buffer that waits for the task, means
\* that the camera has ended a line, and it goes on when both are taken.
PhaseInv ==
    /\ start = "enable" =>
          /\ size = 0 /\ ready = <<>> /\ chunk = <<>> /\ image = <<>>
          /\ Len(fifo) < FifoCap => sent = Len(fifo)
          /\ \A i \in 1 .. Len(fifo) : fifo[i] = i
    /\ start = "run" => size = TempCap
    /\ (start # "enable" /\ (EndsLine(fifo) \/ ready # <<>>)) => sent % LineLen = 0
    /\ ready # <<>> => fifo = <<>> /\ chunk = <<>>
    /\ image # <<>> => start = "run"

\* Image, buffer and FIFO: each in order, and one after the other.
OrderInv ==
    /\ Sorted(fifo) /\ Sorted(chunk) /\ Before(chunk, fifo)
    /\ \A k \in 1 .. Len(ready) : Sorted(ready[k]) /\ PairsBefore(image, ready[k])
    /\ PairsSorted(image) /\ PairsBefore(image, chunk) /\ PairsBefore(image, fifo)
    /\ \A k \in 1 .. Len(images) : PairsSorted(images[k].bytes)

DriverInv == TypeInv /\ PhaseInv /\ OrderInv

\* The empty sequence is in order, and before and after anything.
LEMMA EmptyInOrder ==
    /\ Sorted(<<>>) /\ PairsSorted(<<>>) /\ ~ EndsLine(<<>>)
    /\ \A s : Before(<<>>, s) /\ Before(s, <<>>) /\ PairsBefore(<<>>, s) /\ PairsBefore(s, <<>>)
  <1>1. 1 .. Len(<<>>) = {}
    OBVIOUS
  <1> QED
    BY <1>1 DEF Sorted, PairsSorted, EndsLine, Before, PairsBefore

\* What is assumed of the sizes.
LEMMA Sizes ==
    /\ LineLen \in Nat /\ LineLen > 2 /\ FrameLen \in Nat /\ FrameLen > 0
    /\ NumFrames \in Nat /\ NumFrames * FrameLen \in Nat
    /\ FifoCap \in Nat /\ FifoCap > 0 /\ FifoCap < LineLen
    /\ TempCap \in Nat /\ FifoCap <= TempCap /\ ChunkCap \in Nat /\ 0 < ChunkCap
  <1>1. /\ LineLen \in Nat /\ LineLen > 2 /\ FifoCap \in Nat /\ FifoCap > 0 /\ FifoCap < LineLen
        /\ TempCap \in Nat /\ FifoCap <= TempCap /\ ChunkCap \in Nat /\ 0 < ChunkCap
    BY DriverAssumption DEF LineLen
  <1>2. FrameLines \in Nat \ {0} /\ NumFrames \in Nat \ {0}
    BY DriverAssumption
  <1> QED
    BY <1>1, <1>2 DEF FrameLen

\* No line ends with one of its first characters ...
LEMMA Early ==
    ASSUME NEW c \in Nat, c < LineLen
    PROVE  ~ IsNewline(c)
  <1>1. CASE c = 0
    BY <1>1 DEF IsNewline
  <1>2. CASE c # 0
    <2>1. (c - 1) % LineLen = c - 1
      BY <1>2, Sizes
    <2> QED
      BY <2>1, <1>2, Sizes DEF IsNewline, Place
  <1> QED
    BY <1>1, <1>2

\* ... and none in the middle.
LEMMA NewlineEnds ==
    ASSUME NEW c \in Nat, IsNewline(c + 1)
    PROVE  (c + 1) % LineLen = 0 /\ c % LineLen # 0
  <1>1. c % LineLen = LineLen - 1
    BY Sizes DEF IsNewline, Place
  <1> DEFINE L == LineLen
  <1>2. L \in Nat /\ L > 2
    BY Sizes
  <1>3. L \in Nat /\ L > 2 /\ c % L = L - 1
    BY <1>1, <1>2
  <1> HIDE DEF L
  <1>4. c \div L \in Nat /\ c = L * (c \div L) + (c % L)
    BY <1>3
  <1>5. PICK p \in Nat : c + 1 = L * p
    <2>1. c + 1 = L * (c \div L) + L
      BY <1>3, <1>4
    <2>2. c + 1 = L * ((c \div L) + 1)
      BY <1>3, <1>4, <2>1
    <2> QED
      BY <1>4, <2>2
  <1>6. /\ (c + 1) \div L \in Nat /\ (c + 1) % L \in 0 .. L - 1
        /\ c + 1 = L * ((c + 1) \div L) + ((c + 1) % L)
    BY <1>3
  <1>7. PICK d \in Nat, r \in 0 .. L - 1 : c + 1 = L * d + r /\ r = (c + 1) % L
    BY <1>6
  <1>8. L * (p - d) = r
    BY <1>2, <1>5, <1>7
  <1>9. p - d <= 0
    <2>1. SUFFICES ASSUME p - d >= 1 PROVE FALSE
      OBVIOUS
    <2>2. L * (p - d) >= L
      BY <1>3, <2>1
    <2> QED
      BY <1>3, <1>8, <2>2
  <1>10. p - d >= 0
    <2>1. SUFFICES ASSUME p - d <= -1 PROVE FALSE
      OBVIOUS
    <2>2. L * (p - d) <= - L
      BY <1>3, <2>1
    <2> QED
      BY <1>3, <1>8, <2>2
  <1> QED
    BY <1>2, <1>7, <1>8, <1>9, <1>10 DEF L

\* The number of a frame that has ended.
LEMMA Number ==
    ASSUME NEW N \in Nat, NEW F \in Nat, F > 0, NEW a \in 1 .. N * F, a % F = 0
    PROVE  a \div F \in 1 .. N
  <1>1. a \div F \in Nat /\ a = F * (a \div F)
    OBVIOUS
  <1> DEFINE q == a \div F
  <1> HIDE DEF q
  <1>2. q \in Nat /\ a = F * q
    BY <1>1 DEF q
  <1>3. q # 0
    BY <1>2
  <1>4. q <= N
    <2>1. SUFFICES ASSUME q >= N + 1 PROVE FALSE
      BY <1>2
    <2>2. F * q >= F * (N + 1)
      BY <2>1, <1>2
    <2> QED
      BY <2>2, <1>2
  <1> QED
    BY <1>2, <1>3, <1>4 DEF q

\* Sequences over a larger set.
LEMMA WiderSeq ==
    ASSUME NEW S, NEW T, S \subseteq T
    PROVE  Seq(S) \subseteq Seq(T)
  OBVIOUS

\* More characters have been sent.
LEMMA Wider ==
    ASSUME NEW m \in Nat, NEW n \in Nat, m <= n
    PROVE  Seq(1 .. m) \subseteq Seq(1 .. n) /\ Bytes(m) \subseteq Bytes(n)
  <1>1. 1 .. m \subseteq 1 .. n /\ (1 .. m) \X (1 .. m) \subseteq (1 .. n) \X (1 .. n)
    OBVIOUS
  <1> QED
    BY <1>1 DEF Bytes

\* The callback finds exactly the characters that were in the FIFO ...
LEMMA ContentIsFifo ==
    ASSUME NEW n \in Nat, fifo \in Seq(1 .. n), fifo # <<>>, Len(fifo) <= TempCap, temp = Zeros
    PROVE  Content(Received(Len(fifo))) = fifo
  <1> DEFINE b == Received(Len(fifo))
             used == {i \in 1 .. TempCap : b[i] # 0}
  <1>1. Len(fifo) \in 1 .. TempCap /\ \A i \in 1 .. Len(fifo) : fifo[i] \in 1 .. n /\ fifo[i] # 0
    BY Sizes
  <1>2. \A i \in 1 .. TempCap : b[i] = IF i <= Len(fifo) THEN fifo[i] ELSE 0
    BY DEF Received, Zeros
  <1> HIDE DEF b
  <1>3. used = 1 .. Len(fifo)
    <2>1. ASSUME NEW i PROVE i \in used <=> i \in 1 .. Len(fifo)
      <3>1. CASE i \in 1 .. Len(fifo)
        BY <1>1, <1>2, <3>1, Sizes
      <3>2. CASE i \notin 1 .. Len(fifo)
        BY <1>1, <1>2, <3>2, Sizes
      <3> QED
        BY <3>1, <3>2
    <2> QED
      BY <2>1
  <1>4. \A i \in 1 .. Len(fifo) : b[i] = fifo[i]
    BY <1>1, <1>2, Sizes
  <1>5. Content(b) = SubSeq(b, 1, CHOOSE i \in used : \A k \in used : k <= i)
    <2>1. 1 \in used
      BY <1>1, <1>3
    <2> QED
      BY <2>1 DEF Content
  <1>6. (CHOOSE i \in used : \A k \in used : k <= i) = Len(fifo)
    BY <1>1, <1>3
  <1> HIDE DEF used
  <1>7. SubSeq(b, 1, Len(fifo)) = fifo
    BY <1>1, <1>4
  <1> QED
    BY <1>5, <1>6, <1>7 DEF b

\* ... and nothing if the HAL had no buffer.
LEMMA ContentOfZeros ==
    ASSUME temp = Zeros
    PROVE  Content(Received(0)) = <<>>
  <1>1. \A i \in 1 .. TempCap : Received(0)[i] = 0
    BY DEF Received, Zeros
  <1> QED
    BY <1>1 DEF Content

\* So an interrupt moves all of the FIFO, or nothing.
LEMMA InterruptMoves ==
    ASSUME TypeInv, Interrupt
    PROVE  /\ start # "enable" /\ fifo # <<>> /\ temp' = Zeros /\ size' = TempCap
           /\ UNCHANGED <<sent, lost, start, image, images>>
           /\ \/ UNCHANGED <<fifo, chunk, ready>>
              \/ /\ EndsLine(fifo) /\ fifo' = <<>>
                 /\ ready' = Append(ready, Longer(fifo)) /\ chunk' = <<>>
              \/ /\ ~ EndsLine(fifo) /\ fifo' = <<>>
                 /\ ready' = ready /\ chunk' = Longer(fifo)
  <1>1. /\ start # "enable" /\ fifo # <<>> /\ temp' = Zeros /\ size' = TempCap
        /\ UNCHANGED <<sent, lost, start, image, images>>
    BY DEF Interrupt, Callback, imageVars
  <1>2. CASE size = 0
    <2>1. ~ (Len(fifo) < size) /\ Len(fifo) \in Nat /\ chunk \in Seq(1 .. sent)
      BY <1>2 DEF TypeInv
    <2>2. fifo' = SubSeq(fifo, 1, Len(fifo)) /\ Callback(Content(Received(0)))
      BY <1>2, <2>1 DEF Interrupt
    <2>3. Content(Received(0)) = <<>>
      BY ContentOfZeros DEF TypeInv
    <2>4. Callback(<<>>)
      BY <2>2, <2>3
    <2>5. UNCHANGED <<chunk, ready>>
      BY <2>1, <2>4, EmptyInOrder DEF Callback, Longer
    <2>6. fifo' = fifo
      BY <2>2 DEF TypeInv
    <2> QED
      BY <1>1, <2>5, <2>6
  <1>3. CASE size # 0
    <2>1. /\ Len(fifo) \in Nat /\ Len(fifo) <= TempCap /\ size = TempCap
          /\ fifo \in Seq(1 .. sent) /\ sent \in Nat
      BY <1>3, Sizes DEF TypeInv
    <2>2. (IF Len(fifo) < size THEN Len(fifo) ELSE size) = Len(fifo)
      BY <2>1, Sizes
    <2>3. fifo' = SubSeq(fifo, Len(fifo) + 1, Len(fifo)) /\ Callback(Content(Received(Len(fifo))))
      BY <2>2 DEF Interrupt
    <2>4. Content(Received(Len(fifo))) = fifo
      BY <1>1, <2>1, ContentIsFifo DEF TypeInv
    <2>5. Callback(fifo)
      BY <2>3, <2>4
    <2>6. fifo' = <<>>
      BY <2>1, <2>3
    <2> QED
      BY <1>1, <2>5, <2>6 DEF Callback
  <1> QED
    BY <1>2, <1>3

\* The active buffer stays below its capacity and in order.
LEMMA LongerInOrder ==
    ASSUME TypeInv, OrderInv
    PROVE  /\ Longer(fifo) \in Seq(1 .. sent) /\ Len(Longer(fifo)) < ChunkCap
           /\ Sorted(Longer(fifo)) /\ PairsBefore(image, Longer(fifo))
  <1>1. CASE Len(chunk) + Len(fifo) < ChunkCap
    <2> DEFINE c == chunk \o fifo
    <2>1. /\ chunk \in Seq(1 .. sent) /\ fifo \in Seq(1 .. sent)
          /\ Len(chunk) \in Nat /\ Len(fifo) \in Nat
      BY DEF TypeInv
    <2>2. /\ c \in Seq(1 .. sent) /\ Len(c) = Len(chunk) + Len(fifo)
          /\ \A i \in 1 .. Len(c) : c[i] = IF i <= Len(chunk) THEN chunk[i] ELSE fifo[i - Len(chunk)]
      BY <2>1
    <2> HIDE DEF c
    <2>3. \A i \in 1 .. Len(c) : i \in 1 .. Len(chunk) \/ (~ (i <= Len(chunk)) /\ i - Len(chunk) \in 1 .. Len(fifo))
      BY <2>1, <2>2
    <2>4. ASSUME NEW i \in 1 .. Len(c), NEW j \in 1 .. Len(c), i < j PROVE c[i] < c[j]
      <3>1. CASE j \in 1 .. Len(chunk)
        <4>1. i \in 1 .. Len(chunk)
          BY <2>1, <2>4, <3>1
        <4> QED
          BY <2>2, <2>4, <3>1, <4>1 DEF OrderInv, Sorted
      <3>2. CASE i \in 1 .. Len(chunk) /\ j - Len(chunk) \in 1 .. Len(fifo) /\ ~ (j <= Len(chunk))
        BY <2>2, <3>2 DEF OrderInv, Before
      <3>3. CASE ~ (i <= Len(chunk)) /\ i - Len(chunk) \in 1 .. Len(fifo)
                 /\ ~ (j <= Len(chunk)) /\ j - Len(chunk) \in 1 .. Len(fifo)
        <4>1. i - Len(chunk) < j - Len(chunk)
          BY <2>1, <2>4
        <4> QED
          BY <2>2, <3>3, <4>1 DEF OrderInv, Sorted
      <3> QED
        BY <2>1, <2>3, <2>4, <3>1, <3>2, <3>3
    <2>5. ASSUME NEW k \in 1 .. Len(image), NEW j \in 1 .. Len(c) PROVE image[k][2] < c[j]
      <3>1. CASE j \in 1 .. Len(chunk)
        <4>1. image[k][2] < chunk[j] /\ c[j] = chunk[j]
          BY <2>1, <2>2, <3>1 DEF OrderInv, PairsBefore
        <4> QED
          BY <4>1
      <3>2. CASE ~ (j <= Len(chunk)) /\ j - Len(chunk) \in 1 .. Len(fifo)
        <4>1. image[k][2] < fifo[j - Len(chunk)] /\ c[j] = fifo[j - Len(chunk)]
          BY <2>2, <3>2 DEF OrderInv, PairsBefore
        <4> QED
          BY <4>1
      <3> QED
        BY <2>3, <3>1, <3>2
    <2>6. Longer(fifo) = c
      BY <1>1 DEF Longer, c
    <2> QED
      BY <1>1, <2>2, <2>4, <2>5, <2>6 DEF Sorted, PairsBefore
  <1>2. CASE ~ (Len(chunk) + Len(fifo) < ChunkCap)
    BY <1>2 DEF Longer, TypeInv, OrderInv
  <1> QED
    BY <1>1, <1>2

\* The invariant holds at the beginning ...
LEMMA InitInv == Init => DriverInv
  <1> SUFFICES ASSUME Init PROVE DriverInv
    OBVIOUS
  <1>1. /\ sent = 0 /\ fifo = <<>> /\ lost = {} /\ start = "enable" /\ size = 0 /\ temp = Zeros
        /\ chunk = <<>> /\ ready = <<>> /\ image = <<>> /\ images = <<>>
    BY DEF Init
  <1>2. TypeInv
    BY <1>1, Sizes DEF TypeInv, Bytes
  <1>3. PhaseInv
    BY <1>1, EmptyInOrder DEF PhaseInv
  <1>4. OrderInv
    BY <1>1, EmptyInOrder DEF OrderInv
  <1> QED
    BY <1>2, <1>3, <1>4 DEF DriverInv

-----------------------------------------------------------------------------
(* The steps.                                                              *)

\* A character arrives: it is newer than all others, and a line only begins when the
\* one before it has been taken.
LEMMA ArriveStep ==
    ASSUME DriverInv, Arrive
    PROVE  DriverInv'
  <1>1. /\ sent' = sent + 1 /\ sent \in Nat /\ sent < NumFrames * FrameLen
        /\ UNCHANGED <<start, size, temp, chunk, ready, image, images>>
        /\ (start # "enable" /\ sent % LineLen = 0) => fifo = <<>> /\ ready = <<>>
    BY Sizes DEF DriverInv, TypeInv, Arrive, CameraSends, handlerVars, imageVars
  <1>2. /\ Seq(1 .. sent) \subseteq Seq(1 .. sent') /\ Bytes(sent) \subseteq Bytes(sent')
        /\ 1 .. sent \subseteq 1 .. sent' /\ sent' \in 0 .. NumFrames * FrameLen
    <2>1. sent' \in Nat /\ sent <= sent' /\ sent' \in 0 .. NumFrames * FrameLen /\ 1 .. sent \subseteq 1 .. sent'
      BY <1>1, Sizes
    <2> QED
      BY <1>1, <2>1, Wider
  <1>3. /\ fifo \in Seq(1 .. sent) /\ Len(fifo) \in Nat /\ Len(fifo) <= FifoCap /\ lost \subseteq 1 .. sent
        /\ chunk \in Seq(1 .. sent) /\ image \in Bytes(sent)
    BY DEF DriverInv, TypeInv
  <1>4. /\ ready' \in Seq(Seq(1 .. sent')) /\ Len(ready') <= 1
        /\ chunk' \in Seq(1 .. sent') /\ image' \in Bytes(sent')
        /\ images' \in Seq([frame : 1 .. NumFrames, bytes : Bytes(sent')])
    <2>1. Seq(Seq(1 .. sent)) \subseteq Seq(Seq(1 .. sent'))
      BY <1>2
    <2>2. Seq([frame : 1 .. NumFrames, bytes : Bytes(sent)]) \subseteq Seq([frame : 1 .. NumFrames, bytes : Bytes(sent')])
      <3>1. [frame : 1 .. NumFrames, bytes : Bytes(sent)] \subseteq [frame : 1 .. NumFrames, bytes : Bytes(sent')]
        BY <1>2
      <3> QED
        BY <3>1, WiderSeq
    <2> QED
      BY <1>1, <1>2, <2>1, <2>2 DEF DriverInv, TypeInv
  <1>5. /\ start' \in {"enable", "arm", "run"} /\ size' \in {0, TempCap} /\ temp' = Zeros /\ Zeros' = Zeros
        /\ Len(chunk') < ChunkCap
    BY <1>1 DEF DriverInv, TypeInv, Zeros
  <1>6. CASE Len(fifo) < FifoCap /\ fifo' = Append(fifo, sent') /\ UNCHANGED lost
    <2>1. /\ fifo' \in Seq(1 .. sent') /\ Len(fifo') = Len(fifo) + 1
          /\ \A i \in 1 .. Len(fifo) : fifo'[i] = fifo[i] /\ fifo[i] \in 1 .. sent
          /\ fifo'[Len(fifo) + 1] = sent'
          /\ \A i \in 1 .. Len(fifo') : i \in 1 .. Len(fifo) \/ i = Len(fifo) + 1
      <3>1. fifo \in Seq(1 .. sent') /\ sent' \in 1 .. sent'
        BY <1>1, <1>2, <1>3
      <3>2. /\ fifo' \in Seq(1 .. sent') /\ Len(fifo') = Len(fifo) + 1
            /\ \A i \in 1 .. Len(fifo) : fifo'[i] = fifo[i]
            /\ fifo'[Len(fifo) + 1] = sent'
        BY <1>6, <3>1, AppendProperties
      <3>3. \A i \in 1 .. Len(fifo) : fifo[i] \in 1 .. sent
        BY <1>3, ElementOfSeq
      <3>4. \A i \in 1 .. Len(fifo') : i \in 1 .. Len(fifo) \/ i = Len(fifo) + 1
        BY <1>3, <3>2
      <3> QED
        BY <3>2, <3>3, <3>4
    <2>2. TypeInv'
      <3>1. Len(fifo') <= FifoCap
        BY <1>3, <1>6, <2>1, Sizes
      <3>2. lost' \subseteq 1 .. sent'
        BY <1>2, <1>3, <1>6
      <3> QED
        BY <1>2, <1>4, <1>5, <2>1, <3>1, <3>2 DEF TypeInv
    <2>3. PhaseInv'
      <3>1. start' = "enable" =>
              /\ size' = 0 /\ ready' = <<>> /\ chunk' = <<>> /\ image' = <<>>
              /\ Len(fifo') < FifoCap => sent' = Len(fifo')
              /\ \A i \in 1 .. Len(fifo') : fifo'[i] = i
        <4> SUFFICES ASSUME start = "enable"
                     PROVE  /\ size = 0 /\ ready = <<>> /\ chunk = <<>> /\ image = <<>>
                            /\ sent' = Len(fifo')
                            /\ \A i \in 1 .. Len(fifo') : fifo'[i] = i
          BY <1>1
        <4>1. /\ size = 0 /\ ready = <<>> /\ chunk = <<>> /\ image = <<>> /\ sent = Len(fifo)
              /\ \A i \in 1 .. Len(fifo) : fifo[i] = i
          BY <1>6 DEF DriverInv, PhaseInv
        <4> QED
          BY <1>1, <2>1, <4>1
      <3>2. ASSUME start' # "enable", EndsLine(fifo') \/ ready' # <<>> PROVE sent' % LineLen = 0
        <4>1. sent % LineLen # 0
          <5> SUFFICES ASSUME sent % LineLen = 0 PROVE FALSE
            OBVIOUS
          <5>1. fifo = <<>> /\ ready = <<>>
            BY <1>1, <3>2
          <5>2. PICK i \in 1 .. Len(fifo') : IsNewline(fifo'[i])
            BY <1>1, <3>2, <5>1 DEF EndsLine
          <5>3. IsNewline(sent')
            BY <2>1, <5>1, <5>2
          <5> QED
            BY <1>1, <5>3, NewlineEnds
        <4>2. ~ EndsLine(fifo) /\ ready = <<>>
          BY <1>1, <3>2, <4>1 DEF DriverInv, PhaseInv
        <4>3. PICK i \in 1 .. Len(fifo') : IsNewline(fifo'[i])
          BY <1>1, <3>2, <4>2 DEF EndsLine
        <4>4. IsNewline(sent')
          BY <2>1, <4>2, <4>3 DEF EndsLine
        <4> QED
          BY <1>1, <4>4, NewlineEnds
      <3>3. ready' = <<>>
        <4> SUFFICES ASSUME ready # <<>> PROVE FALSE
          BY <1>1
        <4> QED
          BY <1>1 DEF DriverInv, PhaseInv
      <3>4. (start' = "run" => size' = TempCap) /\ (image' # <<>> => start' = "run")
        BY <1>1 DEF DriverInv, PhaseInv
      <3> QED
        BY <3>1, <3>2, <3>3, <3>4 DEF PhaseInv
    <2>4. OrderInv'
      <3>1. Sorted(fifo')
        <4>1. ASSUME NEW i \in 1 .. Len(fifo'), NEW j \in 1 .. Len(fifo'), i < j
              PROVE  fifo'[i] < fifo'[j]
          <5>1. i \in 1 .. Len(fifo) /\ fifo'[i] = fifo[i] /\ fifo[i] \in 1 .. sent
            BY <1>3, <2>1, <4>1
          <5>2. CASE j \in 1 .. Len(fifo)
            BY <2>1, <4>1, <5>1, <5>2 DEF DriverInv, OrderInv, Sorted
          <5>3. CASE j = Len(fifo) + 1
            BY <1>1, <2>1, <5>1, <5>3
          <5> QED
            BY <2>1, <5>2, <5>3
        <4> QED
          BY <4>1 DEF Sorted
      <3>2. Before(chunk', fifo')
        <4>1. ASSUME NEW i \in 1 .. Len(chunk), NEW j \in 1 .. Len(fifo')
              PROVE  chunk[i] < fifo'[j]
          <5>1. chunk[i] \in 1 .. sent
            BY <1>3, ElementOfSeq
          <5>2. CASE j \in 1 .. Len(fifo)
            BY <2>1, <5>2 DEF DriverInv, OrderInv, Before
          <5>3. CASE j = Len(fifo) + 1
            BY <1>1, <2>1, <5>1, <5>3
          <5> QED
            BY <2>1, <5>2, <5>3
        <4> QED
          BY <1>1, <4>1 DEF Before
      <3>3. PairsBefore(image', fifo')
        <4>1. ASSUME NEW k \in 1 .. Len(image), NEW j \in 1 .. Len(fifo')
              PROVE  image[k][2] < fifo'[j]
          <5>1. image[k][2] \in 1 .. sent
            BY <1>3 DEF Bytes
          <5>2. CASE j \in 1 .. Len(fifo)
            BY <2>1, <5>2 DEF DriverInv, OrderInv, PairsBefore
          <5>3. CASE j = Len(fifo) + 1
            BY <1>1, <2>1, <5>1, <5>3
          <5> QED
            BY <2>1, <5>2, <5>3
        <4> QED
          BY <1>1, <4>1 DEF PairsBefore
      <3> QED
        BY <1>1, <3>1, <3>2, <3>3 DEF DriverInv, OrderInv, Sorted, PairsSorted, PairsBefore
    <2> QED
      BY <2>2, <2>3, <2>4 DEF DriverInv
  <1>7. CASE Len(fifo) = FifoCap /\ lost' = lost \union {sent'} /\ UNCHANGED fifo
    <2>1. fifo # <<>>
      BY <1>7, Sizes
    <2>2. TypeInv'
      <3>1. lost' \subseteq 1 .. sent'
        BY <1>1, <1>2, <1>3, <1>7
      <3> QED
        BY <1>2, <1>3, <1>4, <1>5, <1>7, <3>1 DEF TypeInv
    <2>3. PhaseInv'
      <3>1. start # "enable" => ~ EndsLine(fifo) /\ ready = <<>>
        BY <1>1, <2>1 DEF DriverInv, PhaseInv
      <3> QED
        BY <1>1, <1>7, <3>1, Sizes DEF DriverInv, PhaseInv, EndsLine
    <2>4. OrderInv'
      BY <1>1, <1>7 DEF DriverInv, OrderInv, Sorted, Before, PairsSorted, PairsBefore
    <2> QED
      BY <2>2, <2>3, <2>4 DEF DriverInv
  <1> QED
    BY <1>6, <1>7 DEF Arrive

\* An interrupt: the line in the buffer is ended, or goes on.
LEMMA InterruptStep ==
    ASSUME DriverInv, Interrupt
    PROVE  DriverInv'
  <1>1. /\ start # "enable" /\ fifo # <<>> /\ temp' = Zeros /\ Zeros' = Zeros /\ size' = TempCap
        /\ UNCHANGED <<sent, lost, start, image, images>>
        /\ \/ UNCHANGED <<fifo, chunk, ready>>
           \/ /\ EndsLine(fifo) /\ fifo' = <<>>
              /\ ready' = Append(ready, Longer(fifo)) /\ chunk' = <<>>
           \/ /\ ~ EndsLine(fifo) /\ fifo' = <<>>
              /\ ready' = ready /\ chunk' = Longer(fifo)
    BY InterruptMoves DEF DriverInv, Zeros
  <1>2. ready = <<>>
    BY <1>1 DEF DriverInv, PhaseInv
  <1>3. /\ Longer(fifo) \in Seq(1 .. sent) /\ Len(Longer(fifo)) < ChunkCap
        /\ Sorted(Longer(fifo)) /\ PairsBefore(image, Longer(fifo))
    BY LongerInOrder DEF DriverInv
  <1>4. CASE UNCHANGED <<fifo, chunk, ready>>
    <2>1. TypeInv'
      BY <1>1, <1>4 DEF DriverInv, TypeInv
    <2>2. PhaseInv'
      BY <1>1, <1>4 DEF DriverInv, PhaseInv, EndsLine
    <2>3. OrderInv'
      BY <1>1, <1>4 DEF DriverInv, OrderInv, Sorted, Before, PairsSorted, PairsBefore
    <2> QED
      BY <2>1, <2>2, <2>3 DEF DriverInv
  <1>5. CASE EndsLine(fifo) /\ fifo' = <<>> /\ ready' = Append(ready, Longer(fifo)) /\ chunk' = <<>>
    <2>1. /\ ready' \in Seq(Seq(1 .. sent)) /\ Len(ready') = 1 /\ ready'[1] = Longer(fifo)
      <3>1. ready' = <<Longer(fifo)>>
        BY <1>2, <1>5
      <3> QED
        BY <1>3, <3>1
    <2>2. TypeInv'
      BY <1>1, <1>5, <2>1, Sizes DEF DriverInv, TypeInv
    <2>3. PhaseInv'
      <3>1. sent % LineLen = 0
        BY <1>1, <1>5 DEF DriverInv, PhaseInv
      <3> QED
        BY <1>1, <1>5, <3>1 DEF DriverInv, PhaseInv
    <2>4. OrderInv'
      <3>1. \A k \in 1 .. Len(ready') : Sorted(ready'[k]) /\ PairsBefore(image, ready'[k])
        BY <1>3, <2>1
      <3>2. Sorted(fifo') /\ Sorted(chunk') /\ Before(chunk', fifo') /\ PairsBefore(image, chunk') /\ PairsBefore(image, fifo')
        BY <1>5, EmptyInOrder
      <3>3. image' = image /\ images' = images
        BY <1>1
      <3> QED
        BY <3>1, <3>2, <3>3 DEF DriverInv, OrderInv
    <2> QED
      BY <2>2, <2>3, <2>4 DEF DriverInv
  <1>6. CASE ~ EndsLine(fifo) /\ fifo' = <<>> /\ ready' = ready /\ chunk' = Longer(fifo)
    <2>1. TypeInv'
      BY <1>1, <1>3, <1>6, Sizes DEF DriverInv, TypeInv
    <2>2. PhaseInv'
      <3>1. ~ EndsLine(fifo') /\ ready' = <<>>
        BY <1>2, <1>6, EmptyInOrder
      <3> QED
        BY <1>1, <3>1 DEF DriverInv, PhaseInv
    <2>3. OrderInv'
      <3>1. Sorted(fifo') /\ Before(chunk', fifo') /\ PairsBefore(image, fifo')
        BY <1>6, EmptyInOrder
      <3>2. Sorted(chunk') /\ PairsBefore(image, chunk')
        BY <1>3, <1>6
      <3>3. image' = image /\ images' = images /\ ready' = <<>>
        BY <1>1, <1>2, <1>6
      <3> QED
        BY <3>1, <3>2, <3>3 DEF DriverInv, OrderInv
    <2> QED
      BY <2>1, <2>2, <2>3 DEF DriverInv
  <1> QED
    BY <1>1, <1>4, <1>5, <1>6

\* The first call of HT_USART_StartRX: no line can have ended before it.
LEMMA StartStep ==
    ASSUME DriverInv, EnableInterrupt \/ ReceiveIT
    PROVE  DriverInv'
  <1>1. /\ UNCHANGED <<sent, fifo, lost, temp, chunk, ready, image, images>> /\ Zeros' = Zeros
        /\ \/ start = "enable" /\ start' = "arm" /\ size' = size
           \/ start = "arm" /\ start' = "run" /\ size' = TempCap
    BY DEF EnableInterrupt, ReceiveIT, wireVars, handlerVars, imageVars, Zeros
  <1>2. TypeInv'
    BY <1>1 DEF DriverInv, TypeInv
  <1>3. OrderInv'
    BY <1>1 DEF DriverInv, OrderInv, Sorted, Before, PairsSorted, PairsBefore
  <1>4. PhaseInv'
    <2>1. CASE start = "enable" /\ start' = "arm"
      <3>1. ready = <<>> /\ image = <<>> /\ \A i \in 1 .. Len(fifo) : fifo[i] = i
        BY <2>1 DEF DriverInv, PhaseInv
      <3>2. ~ EndsLine(fifo)
        <4>1. ASSUME NEW i \in 1 .. Len(fifo) PROVE ~ IsNewline(fifo[i])
          <5>1. i \in Nat /\ i < LineLen
            BY Sizes DEF DriverInv, TypeInv
          <5> QED
            BY <3>1, <5>1, Early
        <4> QED
          BY <4>1 DEF EndsLine
      <3> QED
        BY <1>1, <2>1, <3>1, <3>2 DEF PhaseInv, EndsLine
    <2>2. CASE start = "arm" /\ start' = "run" /\ size' = TempCap
      BY <1>1, <2>2 DEF DriverInv, PhaseInv, EndsLine
    <2> QED
      BY <1>1, <2>1, <2>2
  <1> QED
    BY <1>2, <1>3, <1>4 DEF DriverInv

\* The task decodes the line: it is newer than what the image holds.
LEMMA DrainStep ==
    ASSUME DriverInv, Drain
    PROVE  DriverInv'
  <1> DEFINE line == ready[1]
             new == HexChars(line)
             longer == image \o new
  <1>1. /\ start = "run" /\ ready # <<>> /\ image' = longer /\ ready' = Tail(ready) /\ Zeros' = Zeros
        /\ UNCHANGED <<sent, fifo, lost, start, size, temp, chunk, images>>
    BY DEF Drain, wireVars, Zeros
  <1>2. Len(ready) = 1 /\ line \in Seq(1 .. sent) /\ sent \in Nat /\ image \in Bytes(sent)
    <2>1. ready \in Seq(Seq(1 .. sent)) /\ Len(ready) <= 1 /\ sent \in Nat /\ image \in Bytes(sent)
      BY Sizes DEF DriverInv, TypeInv
    <2>2. Len(ready) \in Nat \ {0} /\ Len(ready) <= 1
      BY <1>1, <2>1, EmptySeq
    <2>3. Len(ready) = 1 /\ 1 \in 1 .. Len(ready)
      <3>1. \A n \in Nat \ {0} : n <= 1 => n = 1
        OBVIOUS
      <3>2. Len(ready) = 1
        BY <2>2, <3>1
      <3> QED
        BY <3>2
    <2>4. line \in Seq(1 .. sent)
      BY <2>1, <2>3, ElementOfSeq
    <2> QED
      BY <2>1, <2>3, <2>4
  <1>3. fifo = <<>> /\ chunk = <<>> /\ sent % LineLen = 0
    BY <1>1 DEF DriverInv, PhaseInv
  <1>4. Sorted(line) /\ PairsBefore(image, line) /\ PairsSorted(image)
    BY <1>2 DEF DriverInv, OrderInv
  <1>5. ready' = <<>>
    <2>1. ready \in Seq(Seq(1 .. sent))
      BY DEF DriverInv, TypeInv
    <2>2. Tail(ready) \in Seq(Seq(1 .. sent)) /\ Len(Tail(ready)) = 0
      BY <1>1, <1>2, <2>1, HeadTailProperties
    <2> QED
      BY <1>1, <2>2, EmptySeq
  <1> HIDE DEF line
  <1>6. /\ new \in Bytes(sent) /\ PairsSorted(new)
        /\ \A k \in 1 .. Len(new) :
              \E i, j \in 1 .. Len(line) : new[k][1] = line[i] /\ new[k][2] = line[j]
    BY <1>2, <1>4, HexCharsInOrder
  <1> HIDE DEF new
  <1>7. /\ longer \in Bytes(sent) /\ Len(image) \in Nat /\ Len(new) \in Nat
        /\ Len(longer) = Len(image) + Len(new)
        /\ \A i \in 1 .. Len(longer) : longer[i] = IF i <= Len(image) THEN image[i] ELSE new[i - Len(image)]
    BY <1>2, <1>6 DEF Bytes
  <1> HIDE DEF longer
  <1>8. \A i \in 1 .. Len(longer) :
           \/ i \in 1 .. Len(image) /\ longer[i] = image[i]
           \/ ~ (i <= Len(image)) /\ i - Len(image) \in 1 .. Len(new) /\ longer[i] = new[i - Len(image)]
    BY <1>7
  <1>9. PairsSorted(longer)
    <2>1. ASSUME NEW i \in 1 .. Len(longer) PROVE longer[i][1] < longer[i][2]
      <3>1. CASE i \in 1 .. Len(image) /\ longer[i] = image[i]
        BY <1>4, <3>1 DEF PairsSorted
      <3>2. CASE i - Len(image) \in 1 .. Len(new) /\ longer[i] = new[i - Len(image)]
        BY <1>6, <3>2 DEF PairsSorted
      <3> QED
        BY <1>8, <3>1, <3>2
    <2>2. ASSUME NEW i \in 1 .. Len(longer), NEW j \in 1 .. Len(longer), i < j
          PROVE  longer[i][2] < longer[j][1]
      <3>1. CASE j \in 1 .. Len(image) /\ longer[j] = image[j]
        <4>1. i \in 1 .. Len(image) /\ longer[i] = image[i]
          BY <1>7, <1>8, <2>2, <3>1
        <4> QED
          BY <1>4, <2>2, <3>1, <4>1 DEF PairsSorted
      <3>2. CASE /\ i \in 1 .. Len(image) /\ longer[i] = image[i]
                 /\ j - Len(image) \in 1 .. Len(new) /\ longer[j] = new[j - Len(image)]
        <4>1. PICK m \in 1 .. Len(line) : longer[j][1] = line[m]
          BY <1>6, <3>2
        <4>2. image[i][2] < line[m]
          BY <1>4, <3>2, <4>1 DEF PairsBefore
        <4> QED
          BY <3>2, <4>1, <4>2
      <3>3. CASE /\ i - Len(image) \in 1 .. Len(new) /\ longer[i] = new[i - Len(image)]
                 /\ j - Len(image) \in 1 .. Len(new) /\ longer[j] = new[j - Len(image)]
        <4>1. i - Len(image) < j - Len(image)
          BY <1>7, <2>2
        <4> QED
          BY <1>6, <3>3, <4>1 DEF PairsSorted
      <3> QED
        BY <1>8, <3>1, <3>2, <3>3
    <2> QED
      BY <2>1, <2>2 DEF PairsSorted
  <1>10. TypeInv'
    BY <1>1, <1>5, <1>7 DEF DriverInv, TypeInv
  <1>11. PhaseInv'
    BY <1>1, <1>3, <1>5 DEF DriverInv, PhaseInv
  <1>12. OrderInv'
    <2>1. Sorted(fifo') /\ Sorted(chunk') /\ Before(chunk', fifo') /\ PairsBefore(image', chunk') /\ PairsBefore(image', fifo')
      BY <1>1, <1>3, EmptyInOrder
    <2>2. Len(ready') = 0 /\ images' = images /\ PairsSorted(image')
      BY <1>1, <1>5, <1>9
    <2> QED
      BY <2>1, <2>2 DEF DriverInv, OrderInv
  <1> QED
    BY <1>10, <1>11, <1>12 DEF DriverInv

\* The image is published with the number of the frame that has ended.
LEMMA PublishStep ==
    ASSUME DriverInv, Publish
    PROVE  DriverInv'
  <1> DEFINE p == [frame |-> sent \div FrameLen, bytes |-> image]
  <1>1. /\ start = "run" /\ fifo = <<>> /\ ready = <<>> /\ image # <<>> /\ sent % FrameLen = 0
        /\ images' = Append(images, p)
        /\ image' = <<>> /\ chunk' = <<>> /\ temp' = Zeros /\ Zeros' = Zeros /\ size' = TempCap
        /\ UNCHANGED <<sent, fifo, lost, start, ready>>
    BY DEF Publish, wireVars, Zeros
  <1>2. image \in Bytes(sent) /\ sent \in 0 .. NumFrames * FrameLen
    BY DEF DriverInv, TypeInv
  <1>3. sent # 0
    <2>1. image[1] \in (1 .. sent) \X (1 .. sent)
      BY <1>1, <1>2 DEF Bytes
    <2> QED
      BY <1>2, <2>1, Sizes
  <1>4. p \in [frame : 1 .. NumFrames, bytes : Bytes(sent)]
    <2>1. sent \in 1 .. NumFrames * FrameLen
      BY <1>2, <1>3, Sizes
    <2>2. sent \div FrameLen \in 1 .. NumFrames
      BY <1>1, <2>1, Number, Sizes
    <2> QED
      BY <1>2, <2>2
  <1>5. p.bytes = image
    OBVIOUS
  <1> HIDE DEF p
  <1>6. /\ images' \in Seq([frame : 1 .. NumFrames, bytes : Bytes(sent)])
        /\ Len(images') = Len(images) + 1 /\ Len(images) \in Nat
        /\ \A k \in 1 .. Len(images) : images'[k] = images[k]
        /\ images'[Len(images) + 1] = p
    <2>1. images \in Seq([frame : 1 .. NumFrames, bytes : Bytes(sent)])
      BY DEF DriverInv, TypeInv
    <2> QED
      BY <1>1, <1>4, <2>1, AppendProperties
  <1>7. TypeInv'
    <2>1. <<>> \in Bytes(sent) /\ <<>> \in Seq(1 .. sent) /\ Len(<<>>) < ChunkCap
      BY Sizes DEF Bytes
    <2> QED
      BY <1>1, <1>6, <2>1 DEF DriverInv, TypeInv
  <1>8. PhaseInv'
    BY <1>1, EmptyInOrder DEF DriverInv, PhaseInv
  <1>9. OrderInv'
    <2>1. ASSUME NEW k \in 1 .. Len(images') PROVE PairsSorted(images'[k].bytes)
      <3>1. CASE k \in 1 .. Len(images)
        BY <1>6, <3>1 DEF DriverInv, OrderInv
      <3>2. CASE k = Len(images) + 1
        BY <1>5, <1>6, <3>2 DEF DriverInv, OrderInv
      <3> QED
        BY <1>6, <3>1, <3>2
    <2>2. Sorted(fifo') /\ Sorted(chunk') /\ Before(chunk', fifo')
          /\ PairsSorted(image') /\ PairsBefore(image', chunk') /\ PairsBefore(image', fifo')
      BY <1>1, EmptyInOrder
    <2>3. Len(ready') = 0
      BY <1>1
    <2> QED
      BY <2>1, <2>2, <2>3 DEF OrderInv
  <1> QED
    BY <1>7, <1>8, <1>9 DEF DriverInv

\* ... and every step keeps it.
LEMMA Preserved == DriverInv /\ [Next]_vars => DriverInv'
  <1> SUFFICES ASSUME DriverInv, [Next]_vars PROVE DriverInv'
    OBVIOUS
  <1>1. CASE Arrive
    BY <1>1, ArriveStep
  <1>2. CASE Interrupt
    BY <1>2, InterruptStep
  <1>3. CASE EnableInterrupt \/ ReceiveIT
    BY <1>3, StartStep
  <1>4. CASE Drain
    BY <1>4, DrainStep
  <1>5. CASE Publish
    BY <1>5, PublishStep
  <1>6. CASE UNCHANGED vars
    <2>1. UNCHANGED <<sent, fifo, lost, start, size, temp, chunk, ready, image, images>> /\ Zeros' = Zeros
      BY <1>6 DEF vars, wireVars, handlerVars, imageVars, Zeros
    <2>2. TypeInv'
      BY <2>1 DEF DriverInv, TypeInv
    <2>3. PhaseInv'
      BY <2>1 DEF DriverInv, PhaseInv, EndsLine
    <2>4. OrderInv'
      BY <2>1 DEF DriverInv, OrderInv, Sorted, Before, PairsSorted, PairsBefore
    <2> QED
      BY <2>2, <2>3, <2>4 DEF DriverInv
  <1> QED
    BY <1>1, <1>2, <1>3, <1>4, <1>5, <1>6 DEF Next, Task

\* DriverInv holds of every reachable state.
LEMMA Inductive == Spec => []DriverInv
  BY InitInv, Preserved, PTL DEF Spec

-----------------------------------------------------------------------------
(* The theorems.                                                           *)

\* Bytes in order are digits in order.
LEMMA DigitsInOrder ==
    ASSUME NEW n \in Nat, NEW b \in Bytes(n), PairsSorted(b)
    PROVE  Increasing(Digits(b))
  <1>1. /\ Len(b) \in Nat /\ \A k \in 1 .. Len(b) : b[k][1] < b[k][2]
        /\ \A k, m \in 1 .. Len(b) : k < m => b[k][2] < b[m][1]
    BY DEF Bytes, PairsSorted
  <1>2. /\ Len(Digits(b)) = 2 * Len(b)
        /\ \A i \in 1 .. 2 * Len(b) : Digits(b)[i] = b[(i + 1) \div 2][IF i % 2 = 1 THEN 1 ELSE 2]
    BY <1>1 DEF Digits
  <1>3. ASSUME NEW i \in 1 .. Len(Digits(b)) - 1 PROVE Digits(b)[i] < Digits(b)[i + 1]
    <2>1. i \in 1 .. 2 * Len(b) /\ i + 1 \in 1 .. 2 * Len(b)
      BY <1>1, <1>2
    <2>2. CASE i % 2 = 1
      <3>1. PICK k \in 1 .. Len(b) : (i + 1) \div 2 = k /\ (i + 1 + 1) \div 2 = k /\ (i + 1) % 2 = 0
        BY <1>1, <2>1, <2>2
      <3>2. Digits(b)[i] = b[k][1] /\ Digits(b)[i + 1] = b[k][2]
        BY <1>2, <2>1, <2>2, <3>1
      <3> QED
        BY <1>1, <3>2
    <2>3. CASE i % 2 = 0
      <3>1. PICK k \in 1 .. Len(b) :
               k + 1 \in 1 .. Len(b) /\ (i + 1) \div 2 = k /\ (i + 1 + 1) \div 2 = k + 1 /\ (i + 1) % 2 = 1
        BY <1>1, <2>1, <2>3
      <3>2. Digits(b)[i] = b[k][2] /\ Digits(b)[i + 1] = b[k + 1][1]
        BY <1>2, <2>1, <2>3, <3>1
      <3>3. k < k + 1
        OBVIOUS
      <3> QED
        BY <1>1, <3>1, <3>2, <3>3
    <2> QED
      BY <2>1, <2>2, <2>3
  <1> QED
    BY <1>3 DEF Increasing

\* The variables keep their types.  In particular the active buffer stays below
\* its capacity, however much one interrupt brings, and a line is taken by the
\* task before the next one ends.
THEOREM TypeCorrect == Spec => []TypeOK
  <1>1. DriverInv => TypeOK
    <2> SUFFICES ASSUME DriverInv PROVE TypeOK
      OBVIOUS
    <2>1. temp \in [1 .. TempCap -> 0 .. sent]
      BY Sizes DEF DriverInv, TypeInv, Zeros
    <2>2. \A k \in 1 .. Len(images) : images[k].frame \in 1 .. NumFrames
      <3>1. images \in Seq([frame : 1 .. NumFrames, bytes : Bytes(sent)])
        BY DEF DriverInv, TypeInv
      <3>2. \A k \in 1 .. Len(images) : images[k] \in [frame : 1 .. NumFrames, bytes : Bytes(sent)]
        BY <3>1, ElementOfSeq
      <3> QED
        BY <3>2
    <2> QED
      BY <2>1, <2>2 DEF DriverInv, TypeInv, TypeOK, Bytes
  <1> QED
    BY <1>1, Inductive, PTL

\* However late the interrupts are and whatever characters are lost, none is
\* decoded twice or before an earlier one, in the image that is collected and in
\* every one that was published: append_hex_chars, the callback that guesses how
\* many characters it was given, and the FIFO together keep the order.
THEOREM DecodedOnceInOrder == Spec => []DigitsOnceInOrder
  <1>1. DriverInv => DigitsOnceInOrder
    <2> SUFFICES ASSUME DriverInv PROVE DigitsOnceInOrder
      OBVIOUS
    <2>1. sent \in Nat /\ image \in Bytes(sent) /\ PairsSorted(image)
      BY Sizes DEF DriverInv, TypeInv, OrderInv
    <2>2. \A k \in 1 .. Len(images) : images[k].bytes \in Bytes(sent) /\ PairsSorted(images[k].bytes)
      <3>1. images \in Seq([frame : 1 .. NumFrames, bytes : Bytes(sent)])
        BY DEF DriverInv, TypeInv
      <3>2. \A k \in 1 .. Len(images) : images[k] \in [frame : 1 .. NumFrames, bytes : Bytes(sent)]
        BY <3>1, ElementOfSeq
      <3> QED
        BY <3>2 DEF DriverInv, OrderInv
    <2> QED
      BY <2>1, <2>2, DigitsInOrder DEF DigitsOnceInOrder
  <1> QED
    BY <1>1, Inductive, PTL

-----------------------------------------------------------------------------
(* Lines and frames, counted in characters.                                *)

\* Quotient and remainder are unique.
LEMMA Remainder ==
    ASSUME NEW L \in Nat, L > 0, NEW a \in Nat, NEW r \in 0 .. L - 1
    PROVE  (a * L + r) % L = r /\ (a * L + r) \div L = a
  <1> DEFINE x == a * L + r
  <1>1. x \in Nat
    BY SMT
  <1>2. /\ x \div L \in Nat /\ x % L \in 0 .. L - 1
        /\ x = L * (x \div L) + (x % L)
    BY <1>1
  <1>3. PICK d \in Nat, q \in 0 .. L - 1 : x = d * L + q /\ q = x % L /\ d = x \div L
    BY <1>2
  <1>4. (a - d) * L = q - r
    BY <1>3
  <1>5. a - d <= 0
    <2>1. SUFFICES ASSUME a - d >= 1 PROVE FALSE
      OBVIOUS
    <2>2. (a - d) * L >= L
      BY <2>1
    <2> QED
      BY <1>4, <2>2
  <1>6. a - d >= 0
    <2>1. SUFFICES ASSUME a - d <= -1 PROVE FALSE
      OBVIOUS
    <2>2. (a - d) * L <= - L
      BY <2>1
    <2> QED
      BY <1>4, <2>2
  <1>7. a = d
    BY <1>5, <1>6
  <1> QED
    BY <1>3, <1>4, <1>7

\* A multiple of m that is after a * m and not after (a + 1) * m.
LEMMA NextMultiple ==
    ASSUME NEW m \in Nat, m > 0, NEW a \in Nat, NEW s \in Nat,
           s % m = 0, a * m < s, s <= (a + 1) * m
    PROVE  s = (a + 1) * m
  <1>1. s - a * m \in 1 .. m
    BY SMT
  <1>2. CASE s - a * m < m
    <2> DEFINE r == s - a * m
    <2>1. r \in 1 .. m - 1 /\ r \in 0 .. m - 1 /\ s = a * m + r
      BY <1>1, <1>2
    <2> HIDE DEF r
    <2>2. s % m = r
      BY <2>1, Remainder
    <2> QED
      BY <2>1, <2>2
  <1>3. CASE s - a * m = m
    BY <1>3
  <1> QED
    BY <1>1, <1>2, <1>3

\* The m-th character of a line is at place m.
LEMMA Places ==
    ASSUME NEW l \in Nat \ {0}, NEW m \in 1 .. LineLen
    PROVE  (l - 1) * LineLen + m \in Nat \ {0} /\ Place((l - 1) * LineLen + m) = m
  <1>1. l - 1 \in Nat /\ m - 1 \in 0 .. LineLen - 1 /\ LineLen \in Nat /\ LineLen > 0
    BY Sizes
  <1>2. ((l - 1) * LineLen + (m - 1)) % LineLen = m - 1
    BY <1>1, Remainder
  <1>3. /\ (l - 1) * LineLen \in Nat
        /\ ((l - 1) * LineLen + m) - 1 = (l - 1) * LineLen + (m - 1)
    BY <1>1
  <1> QED
    BY <1>2, <1>3 DEF Place

\* So a line ends with its newline, and a multiple of LineLen is where one ends.
LEMMA Newlines ==
    ASSUME NEW l \in Nat \ {0}
    PROVE  /\ l * LineLen \in Nat \ {0} /\ (l - 1) * LineLen \in Nat
           /\ l * LineLen = (l - 1) * LineLen + LineLen
           /\ IsNewline(l * LineLen) /\ (l * LineLen) % LineLen = 0
           /\ ((l - 1) * LineLen) % LineLen = 0
  <1>1. l - 1 \in Nat /\ LineLen \in Nat /\ LineLen > 0 /\ LineLen \in 1 .. LineLen /\ 0 \in 0 .. LineLen - 1
    BY Sizes
  <1>2. l * LineLen = (l - 1) * LineLen + LineLen /\ (l - 1) * LineLen \in Nat
    BY <1>1
  <1>3. Place((l - 1) * LineLen + LineLen) = LineLen /\ (l - 1) * LineLen + LineLen # 0
    BY <1>1, Places
  <1>4. (l * LineLen + 0) % LineLen = 0 /\ ((l - 1) * LineLen + 0) % LineLen = 0
    BY <1>1, Remainder
  <1>5. l * LineLen \in Nat \ {0}
    BY <1>1, <1>2
  <1>6. l * LineLen + 0 = l * LineLen /\ (l - 1) * LineLen + 0 = (l - 1) * LineLen
    BY <1>2, <1>5
  <1> QED
    BY <1>2, <1>3, <1>4, <1>5, <1>6 DEF IsNewline

\* The lines of frame f.
LinesOf(f) == (f - 1) * FrameLines + 1 .. f * FrameLines

\* They are lines of the run, between the ends of frame f - 1 and frame f.
LEMMA LineInFrame ==
    ASSUME NEW f \in 1 .. NumFrames, NEW l \in LinesOf(f)
    PROVE  /\ l \in 1 .. NumFrames * FrameLines
           /\ (f - 1) * FrameLen \in Nat /\ f * FrameLen \in Nat
           /\ (f - 1) * FrameLen <= (l - 1) * LineLen /\ l * LineLen <= f * FrameLen
  <1> DEFINE F == FrameLines
             L == LineLen
  <1>1. F \in Nat \ {0} /\ L \in Nat /\ L > 2 /\ NumFrames \in Nat /\ f \in Nat \ {0} /\ f <= NumFrames
    BY DriverAssumption, Sizes
  <1>2. FrameLen = L * F
    BY DEF FrameLen
  <1>3. l \in (f - 1) * F + 1 .. f * F
    BY DEF LinesOf
  <1> HIDE DEF F, L
  <1>4. (f - 1) * F \in Nat /\ f * F \in Nat /\ NumFrames * F \in Nat /\ f * F <= NumFrames * F
    BY <1>1
  <1>5. l \in Nat \ {0} /\ l <= NumFrames * F /\ (f - 1) * F <= l - 1 /\ l <= f * F
    BY <1>3, <1>4
  <1>6. ((f - 1) * F) * L <= (l - 1) * L /\ l * L <= (f * F) * L
    <2>1. \A x, y \in Nat : x <= y => x * L <= y * L
      BY <1>1
    <2>2. l - 1 \in Nat /\ l \in Nat
      BY <1>5
    <2> QED
      BY <1>4, <1>5, <2>1, <2>2
  <1>7. ((f - 1) * F) * L = (f - 1) * (L * F) /\ (f * F) * L = f * (L * F)
    BY <1>1
  <1>8. (f - 1) * (L * F) \in Nat /\ f * (L * F) \in Nat
    BY <1>1
  <1>9. l \in 1 .. NumFrames * F
    BY <1>5
  <1> QED
    BY <1>2, <1>6, <1>7, <1>8, <1>9 DEF F, L

\* A frame ends where a line ends.
LEMMA FrameEnds ==
    ASSUME NEW f \in Nat
    PROVE  (f * FrameLen) % LineLen = 0 /\ (f * FrameLen) % FrameLen = 0 /\ (f * FrameLen) \div FrameLen = f
  <1>1. FrameLines \in Nat \ {0} /\ LineLen \in Nat /\ LineLen > 0 /\ FrameLen \in Nat /\ FrameLen > 0
    BY DriverAssumption, Sizes
  <1>2. 0 \in 0 .. LineLen - 1 /\ 0 \in 0 .. FrameLen - 1 /\ f * FrameLines \in Nat
    BY <1>1
  <1>3. ((f * FrameLines) * LineLen + 0) % LineLen = 0
    BY <1>1, <1>2, Remainder
  <1>4. (f * FrameLen + 0) % FrameLen = 0 /\ (f * FrameLen + 0) \div FrameLen = f
    BY <1>1, <1>2, Remainder
  <1>5. (f * FrameLines) * LineLen + 0 = f * FrameLen /\ f * FrameLen + 0 = f * FrameLen
    BY <1>1 DEF FrameLen
  <1> QED
    BY <1>3, <1>4, <1>5

\* The first line of a frame begins where the frame before it ends.
LEMMA FirstOfFrame ==
    ASSUME NEW l \in Nat \ {0}, l % FrameLines = 1 % FrameLines
    PROVE  ((l - 1) \div FrameLines) * FrameLen = (l - 1) * LineLen
  <1> DEFINE F == FrameLines
             L == LineLen
  <1>1. F \in Nat \ {0} /\ L \in Nat /\ FrameLen = L * F /\ l % F = 1 % F
    BY DriverAssumption, Sizes DEF FrameLen
  <1> HIDE DEF F, L
  <1>2. PICK q \in Nat : l - 1 = q * F
    <2>1. CASE F = 1
      BY <2>1
    <2>2. CASE F > 1
      <3>1. l % F = 1
        BY <1>1, <2>2
      <3>2. l \div F \in Nat /\ l = F * (l \div F) + (l % F)
        BY <1>1
      <3>3. l - 1 = (l \div F) * F
        BY <1>1, <3>1, <3>2
      <3> QED
        BY <3>2, <3>3
    <2> QED
      BY <1>1, <2>1, <2>2
  <1>3. (q * F + 0) \div F = q
    <2>1. F \in Nat /\ F > 0 /\ 0 \in 0 .. F - 1
      BY <1>1
    <2> QED
      BY <2>1, Remainder
  <1>4. (l - 1) \div F = q
    <2>1. q * F + 0 = l - 1
      BY <1>1, <1>2
    <2> QED
      BY <1>3, <2>1
  <1>5. q * (L * F) = (q * F) * L
    BY <1>1
  <1> QED
    BY <1>1, <1>2, <1>4, <1>5 DEF F, L

-----------------------------------------------------------------------------
(* A line that came in whole.                                              *)

\* The characters after a, up to b.
Run(a, b) == [i \in 1 .. b - a |-> a + i]

\* One more character.
LEMMA RunGrows ==
    ASSUME NEW a \in Nat, NEW b \in Nat, a <= b, NEW s, NEW t, NEW n \in Nat,
           s \in Seq(1 .. n), t \in Seq(1 .. n), s \o t = Run(a, b), b + 1 <= n
    PROVE  s \o Append(t, b + 1) = Run(a, b + 1)
  <1> DEFINE u == Append(t, b + 1)
  <1>1. /\ b + 1 \in 1 .. n /\ u \in Seq(1 .. n) /\ Len(u) = Len(t) + 1 /\ Len(t) \in Nat /\ Len(s) \in Nat
        /\ \A i \in 1 .. Len(t) : u[i] = t[i]
        /\ u[Len(t) + 1] = b + 1
    BY AppendProperties
  <1> HIDE DEF u
  <1>2. Len(s) + Len(t) = b - a /\ \A i \in 1 .. b - a : (s \o t)[i] = a + i
    <2>1. Len(s \o t) = Len(s) + Len(t)
      OBVIOUS
    <2>2. Len(Run(a, b)) = b - a
      BY DEF Run
    <2> QED
      BY <2>1, <2>2 DEF Run
  <1>3. Len(s \o u) = b + 1 - a /\ s \o u \in Seq(1 .. n)
    <2>1. s \o u \in Seq(1 .. n) /\ Len(s \o u) = Len(s) + Len(u)
      BY <1>1, ConcatProperties
    <2>2. Len(s) + (Len(t) + 1) = b + 1 - a
      <3>1. \A x, y \in Nat : x + y = b - a => x + (y + 1) = b + 1 - a
        OBVIOUS
      <3> QED
        BY <1>1, <1>2, <3>1
    <2> QED
      BY <1>1, <2>1, <2>2
  <1>4. ASSUME NEW i \in 1 .. b + 1 - a PROVE (s \o u)[i] = a + i
    <2>1. CASE i <= Len(s)
      <3>1. (s \o u)[i] = s[i] /\ (s \o t)[i] = s[i] /\ i \in 1 .. b - a
        BY <1>1, <1>2, <2>1
      <3> QED
        BY <1>2, <3>1
    <2>2. CASE ~ (i <= Len(s)) /\ i - Len(s) <= Len(t)
      <3>1. i - Len(s) \in 1 .. Len(t) /\ i \in 1 .. b - a
        BY <1>1, <1>2, <2>2
      <3>2. (s \o u)[i] = u[i - Len(s)] /\ (s \o t)[i] = t[i - Len(s)]
        BY <1>1, <2>2, <3>1
      <3> QED
        BY <1>1, <1>2, <3>1, <3>2
    <2>3. CASE i = Len(s) + Len(t) + 1
      <3>1. i - Len(s) = Len(t) + 1 /\ Len(t) + 1 \in 1 .. Len(u)
        BY <1>1, <2>3
      <3>2. (s \o u)[i] = u[i - Len(s)]
        BY <1>1, <2>3, <3>1
      <3>3. a + i = b + 1
        BY <1>1, <1>2, <2>3
      <3> QED
        BY <1>1, <3>1, <3>2, <3>3
    <2>4. i <= Len(s) \/ (~ (i <= Len(s)) /\ i - Len(s) <= Len(t)) \/ i = Len(s) + Len(t) + 1
      <3>1. \A x, y \in Nat : x + y = b - a => i <= x \/ (~ (i <= x) /\ i - x <= y) \/ i = x + y + 1
        OBVIOUS
      <3> QED
        BY <1>1, <1>2, <3>1
    <2> QED
      BY <2>1, <2>2, <2>3, <2>4
  <1>5. s \o u = [i \in 1 .. b + 1 - a |-> a + i]
    <2> DEFINE v == s \o u
    <2>1. v \in Seq(1 .. n) /\ Len(v) = b + 1 - a /\ \A i \in 1 .. b + 1 - a : v[i] = a + i
      BY <1>3, <1>4
    <2> HIDE DEF v
    <2>2. v = [i \in 1 .. Len(v) |-> v[i]]
      BY <2>1
    <2>3. v = [i \in 1 .. b + 1 - a |-> v[i]]
      BY <2>1, <2>2
    <2>4. v = [i \in 1 .. b + 1 - a |-> a + i]
      BY <2>1, <2>3
    <2> QED
      BY <2>4 DEF v
  <1>6. Run(a, b + 1) = [i \in 1 .. b + 1 - a |-> a + i]
    BY DEF Run
  <1> QED
    BY <1>5, <1>6 DEF u

\* append_hex_chars turns a line into its bytes: CR and LF are passed over, and no
\* digit is left for the next line.
LEMMA LineDecoded ==
    ASSUME NEW l \in Nat \ {0}
    PROVE  HexChars(Run((l - 1) * LineLen, l * LineLen)) = BytesOf(l)
  <1> DEFINE a == (l - 1) * LineLen
             s == Run(a, l * LineLen)
             Got(m) == [k \in 1 .. m |-> <<a + 2 * k - 1, a + 2 * k>>]
             Half(m) == [high |-> a + 2 * m + 1, dst |-> Got(m)]
             Full(m) == [high |-> 0, dst |-> Got(m)]
  <1>1. /\ LineBytes \in Nat \ {0} /\ LineLen = 2 * LineBytes + 2 /\ a \in Nat
        /\ l * LineLen = a + LineLen
    BY DriverAssumption, Newlines DEF LineLen
  <1>2. Len(s) = LineLen /\ \A i \in 1 .. LineLen : s[i] = a + i
    BY <1>1 DEF Run
  <1>3. \A i \in 1 .. LineLen : Place(a + i) = i /\ a + i \in Nat \ {0}
    BY Places
  <1>4. a + 2 * LineBytes + 1 \in Nat /\ BytesOf(l) = Got(LineBytes)
    <2>1. \A k \in 1 .. LineBytes : a + 2 * k - 1 = a + 2 * k - 1
      OBVIOUS
    <2> QED
      BY <1>1 DEF BytesOf
  <1> HIDE DEF a, s
  <1>5. PICK f : /\ f[0] = [high |-> 0, dst |-> <<>>]
                 /\ \A i \in 1 .. LineLen : f[i] = TakeChar(f[i - 1], s[i])
                 /\ HexChars(s) = f[LineLen].dst
    <2>1. Len(s) \in Nat
      BY <1>1, <1>2
    <2> QED
      BY <1>2, <2>1, HexCharsReads
  <1> DEFINE G == {m \in 0 .. LineBytes : f[2 * m] = Full(m)}
  <1>6. 0 \in G
    <2>1. Got(0) = <<>>
      OBVIOUS
    <2> QED
      BY <1>1, <1>5, <2>1
  <1>7. ASSUME NEW m \in 0 .. LineBytes - 1, m \in G PROVE m + 1 \in G
    <2>1. /\ 2 * m + 1 \in 1 .. LineLen /\ 2 * m + 2 \in 1 .. LineLen
          /\ 2 * m + 1 - 1 = 2 * m /\ 2 * m + 2 - 1 = 2 * m + 1
          /\ 2 * m + 1 <= 2 * LineBytes /\ 2 * m + 2 <= 2 * LineBytes
      BY <1>1
    <2>2. f[2 * m + 1] = TakeChar(Full(m), a + (2 * m + 1)) /\ f[2 * m + 2] = TakeChar(f[2 * m + 1], a + (2 * m + 2))
      <3>1. f[2 * m + 1] = TakeChar(f[2 * m], s[2 * m + 1]) /\ s[2 * m + 1] = a + (2 * m + 1)
        BY <1>2, <1>5, <2>1
      <3>2. f[2 * m + 2] = TakeChar(f[2 * m + 1], s[2 * m + 2]) /\ s[2 * m + 2] = a + (2 * m + 2)
        BY <1>2, <1>5, <2>1
      <3> QED
        BY <1>7, <3>1, <3>2
    <2>3. IsDigit(a + (2 * m + 1)) /\ IsDigit(a + (2 * m + 2))
      BY <1>3, <2>1 DEF IsDigit
    <2>4. a + (2 * m + 1) = a + 2 * m + 1 /\ a + (2 * m + 2) = a + 2 * (m + 1) /\ a + 2 * m + 1 # 0
      BY <1>1
    <2>5. f[2 * m + 1] = Half(m)
      <3> DEFINE c == a + (2 * m + 1)
                 d == Got(m)
      <3>1. c = a + 2 * m + 1
        BY <2>4
      <3>2. f[2 * m + 1] = TakeChar([high |-> 0, dst |-> d], c) /\ IsDigit(c)
        BY <2>2, <2>3
      <3> HIDE DEF c, d
      <3>3. f[2 * m + 1] = [high |-> c, dst |-> d]
        BY <3>2 DEF TakeChar
      <3> QED
        BY <3>1, <3>3 DEF d
    <2>6. f[2 * m + 2] = [high |-> 0, dst |-> Append(Got(m), <<a + 2 * m + 1, a + 2 * (m + 1)>>)]
      <3>1. Half(m).high = a + 2 * m + 1 /\ Half(m).dst = Got(m)
        OBVIOUS
      <3> QED
        BY <2>2, <2>3, <2>4, <2>5, <3>1 DEF TakeChar
    <2>7. Append(Got(m), <<a + 2 * m + 1, a + 2 * (m + 1)>>) = Got(m + 1)
      <3> DEFINE e == <<a + 2 * m + 1, a + 2 * (m + 1)>>
      <3>1. a + 2 * (m + 1) - 1 = a + 2 * m + 1
        BY <1>1
      <3>2. Len(Got(m)) = m /\ Got(m) \in Seq(Nat \X Nat)
        BY <1>1
      <3>3. Append(Got(m), e) = [k \in 1 .. m + 1 |-> IF k <= m THEN Got(m)[k] ELSE e]
        BY <3>2
      <3>4. ASSUME NEW k \in 1 .. m + 1
            PROVE  (IF k <= m THEN Got(m)[k] ELSE e) = <<a + 2 * k - 1, a + 2 * k>>
        <4>1. CASE k <= m
          BY <4>1
        <4>2. CASE k = m + 1
          BY <3>1, <4>2
        <4> QED
          BY <4>1, <4>2
      <3> QED
        BY <3>3, <3>4
    <2>8. f[2 * (m + 1)] = Full(m + 1) /\ m + 1 \in 0 .. LineBytes
      <3>1. 2 * (m + 1) = 2 * m + 2 /\ m + 1 \in 0 .. LineBytes
        BY <1>1
      <3>2. f[2 * m + 2] = Full(m + 1)
        BY <2>6, <2>7
      <3> QED
        BY <3>1, <3>2
    <2> QED
      BY <2>8
  <1>8. f[2 * LineBytes] = Full(LineBytes)
    <2> HIDE DEF G
    <2>1. \A m \in 0 .. LineBytes : m \in G
      BY <1>1, <1>6, <1>7, Counting
    <2>2. LineBytes \in G
      BY <1>1, <2>1
    <2> QED
      BY <2>2 DEF G
  <1>9. f[LineLen] = Full(LineBytes)
    <2>1. /\ 2 * LineBytes + 1 \in 1 .. LineLen /\ LineLen \in 1 .. LineLen
          /\ LineLen - 1 = 2 * LineBytes + 1
          /\ ~ (2 * LineBytes + 1 <= 2 * LineBytes) /\ ~ (LineLen <= 2 * LineBytes)
      BY <1>1
    <2>2. ~ IsDigit(s[2 * LineBytes + 1]) /\ ~ IsDigit(s[LineLen])
      BY <1>2, <1>3, <2>1 DEF IsDigit
    <2>3. f[2 * LineBytes + 1] = Full(LineBytes)
      <3>1. f[2 * LineBytes + 1] = TakeChar(f[2 * LineBytes], s[2 * LineBytes + 1])
        <4> DEFINE k == 2 * LineBytes + 1
        <4>1. k \in 1 .. LineLen /\ k - 1 = 2 * LineBytes
          BY <1>1, <2>1
        <4> HIDE DEF k
        <4>2. f[k] = TakeChar(f[k - 1], s[k])
          BY <1>5, <4>1
        <4> QED
          BY <4>1, <4>2 DEF k
      <3>2. f[2 * LineBytes + 1] = f[2 * LineBytes]
        BY <2>1, <2>2, <3>1 DEF TakeChar
      <3> QED
        BY <1>8, <3>2
    <2> QED
      BY <1>5, <2>1, <2>2, <2>3 DEF TakeChar
  <1> QED
    BY <1>4, <1>5, <1>9 DEF s, a

\* The bytes of the line, in a row, among the decoded ones.
Holds(b, l) ==
    \E i \in 0 .. Len(b) - LineBytes : SubSeq(b, i + 1, i + LineBytes) = BytesOf(l)

\* An image that is appended to keeps what it holds ...
LEMMA HoldsMore ==
    ASSUME NEW n \in Nat, NEW b \in Bytes(n), NEW c \in Bytes(n), NEW l, Holds(b, l)
    PROVE  Holds(b \o c, l)
  <1>1. PICK i \in 0 .. Len(b) - LineBytes : SubSeq(b, i + 1, i + LineBytes) = BytesOf(l)
    BY DEF Holds
  <1>2. /\ LineBytes \in Nat \ {0} /\ b \in Seq((1 .. n) \X (1 .. n)) /\ c \in Seq((1 .. n) \X (1 .. n))
        /\ Len(b) \in Nat /\ Len(c) \in Nat
    BY DriverAssumption DEF Bytes
  <1>3. /\ b \o c \in Seq((1 .. n) \X (1 .. n)) /\ Len(b \o c) = Len(b) + Len(c)
        /\ \A j \in 1 .. Len(b) : (b \o c)[j] = b[j]
    BY <1>2
  <1>4. i \in 0 .. Len(b \o c) - LineBytes /\ i + LineBytes <= Len(b)
    BY <1>1, <1>2, <1>3
  <1>5. SubSeq(b \o c, i + 1, i + LineBytes) = SubSeq(b, i + 1, i + LineBytes)
    <2>1. SubSeq(b, i + 1, i + LineBytes) = [j \in 1 .. LineBytes |-> b[i + j]]
      BY <1>2, <1>4
    <2>2. SubSeq(b \o c, i + 1, i + LineBytes) = [j \in 1 .. LineBytes |-> (b \o c)[i + j]]
      BY <1>2, <1>3, <1>4
    <2>3. \A j \in 1 .. LineBytes : (b \o c)[i + j] = b[i + j]
      BY <1>2, <1>3, <1>4
    <2> QED
      BY <2>1, <2>2, <2>3
  <1> QED
    BY <1>1, <1>4, <1>5 DEF Holds

\* ... and the line that was appended.
LEMMA HoldsLast ==
    ASSUME NEW n \in Nat, NEW b \in Bytes(n), NEW l, BytesOf(l) \in Bytes(n)
    PROVE  Holds(b \o BytesOf(l), l)
  <1> DEFINE c == BytesOf(l)
  <1>1. /\ LineBytes \in Nat \ {0} /\ b \in Seq((1 .. n) \X (1 .. n)) /\ c \in Seq((1 .. n) \X (1 .. n))
        /\ Len(b) \in Nat /\ Len(c) = LineBytes
    BY DriverAssumption DEF Bytes, BytesOf
  <1> HIDE DEF c
  <1>2. /\ b \o c \in Seq((1 .. n) \X (1 .. n)) /\ Len(b \o c) = Len(b) + LineBytes
        /\ \A j \in 1 .. LineBytes : (b \o c)[Len(b) + j] = c[j]
    <2>1. /\ b \o c \in Seq((1 .. n) \X (1 .. n)) /\ Len(b \o c) = Len(b) + LineBytes
          /\ \A j \in 1 .. Len(b) + LineBytes : (b \o c)[j] = IF j <= Len(b) THEN b[j] ELSE c[j - Len(b)]
      BY <1>1
    <2>2. ASSUME NEW j \in 1 .. LineBytes PROVE (b \o c)[Len(b) + j] = c[j]
      <3>1. Len(b) + j \in 1 .. Len(b) + LineBytes /\ ~ (Len(b) + j <= Len(b)) /\ Len(b) + j - Len(b) = j
        BY <1>1
      <3> QED
        BY <2>1, <3>1
    <2> QED
      BY <2>1, <2>2
  <1>3. SubSeq(b \o c, Len(b) + 1, Len(b) + LineBytes) = c
    <2>1. SubSeq(b \o c, Len(b) + 1, Len(b) + LineBytes) = [j \in 1 .. LineBytes |-> (b \o c)[Len(b) + j]]
      <3> DEFINE v == b \o c
                 m == Len(b)
      <3>1. m \in Nat /\ LineBytes \in Nat
        BY <1>1
      <3> HIDE DEF v, m
      <3>2. SubSeq(v, m + 1, m + LineBytes) = [j \in 1 .. LineBytes |-> v[m + j]]
        <4>1. (m + LineBytes) - (m + 1) + 1 = LineBytes
          BY <3>1
        <4>2. \A j \in 1 .. LineBytes : (m + 1) + j - 1 = m + j
          BY <3>1
        <4> QED
          BY <3>1, <4>1, <4>2
      <3> QED
        BY <3>2 DEF v, m
    <2>2. c = [j \in 1 .. LineBytes |-> c[j]]
      BY <1>1
    <2> QED
      BY <1>2, <2>1, <2>2
  <1>4. Len(b) \in 0 .. Len(b \o c) - LineBytes
    BY <1>1, <1>2
  <1> QED
    BY <1>3, <1>4 DEF Holds, c

\* An empty image holds no line.
LEMMA HoldsNothing ==
    ASSUME NEW l
    PROVE  ~ Holds(<<>>, l)
  <1>1. 0 .. Len(<<>>) - LineBytes = {}
    BY DriverAssumption
  <1> QED
    BY <1>1 DEF Holds

-----------------------------------------------------------------------------
(* The invariant behind CleanLinesExact.                                   *)

\* The lines the camera may send, and those it speaks of: the buffer was empty at
\* the first character, and all that have come since came in.
Lines == 1 .. NumFrames * FrameLines
Intact(l) == BeganClean(l) /\ CharsOf(l) \cap lost = {}

\* A newline that came in is the last character in the FIFO, and what comes before
\* the interrupt is enabled and does not fit is lost.
FifoInv ==
    /\ fifo # <<>> /\ sent \notin lost => fifo[Len(fifo)] = sent
    /\ start = "enable" => FifoCap + 1 .. sent \subseteq lost

\* A frame has one image, published when all of the frame has been taken.
PastInv ==
    /\ \A k \in 1 .. Len(images) :
          /\ images[k].frame * FrameLen <= sent
          /\ images[k].frame * FrameLen = sent => fifo = <<>> /\ ready = <<>> /\ image = <<>>
    /\ \A j, k \in 1 .. Len(images) : images[j].frame = images[k].frame => j = k

\* Between two lines the active buffer is empty, if the next begins clean.
BoundaryInv ==
    \A l \in Lines :
        (sent = (l - 1) * LineLen /\ fifo = <<>> /\ ready = <<>> /\ BeganClean(l)) => chunk = <<>>

\* The characters of an intact line that were sent are all in the active buffer and
\* the FIFO, with no other, and then in the buffer that waits for the task.
LineInv ==
    \A l \in Lines :
        Intact(l) =>
          /\ /\ (l - 1) * LineLen < sent /\ sent <= l * LineLen /\ ready = <<>>
             /\ sent < l * LineLen \/ fifo # <<>>
             => chunk \o fifo = Run((l - 1) * LineLen, sent)
          /\ sent = l * LineLen /\ ready # <<>> => ready[1] = Run((l - 1) * LineLen, sent)

\* An intact line that has ended is on its way to the image, in it until the frame is
\* over, and in the one published for its frame.
KeptInv ==
    \A f \in 1 .. NumFrames : \A l \in LinesOf(f) :
        Intact(l) /\ l * LineLen <= sent =>
          \/ sent = l * LineLen /\ (fifo # <<>> \/ ready # <<>>)
          \/ sent <= f * FrameLen /\ Holds(image, l)
          \/ \E k \in 1 .. Len(images) : images[k].frame = f /\ Holds(images[k].bytes, l)

WholeInv == FifoInv /\ PastInv /\ BoundaryInv /\ LineInv /\ KeptInv

\* What is sent and published are numbers, also of a line.
LEMMA Numbers ==
    /\ \A l \in Lines : l \in Nat \ {0} /\ (l - 1) * LineLen \in Nat /\ l * LineLen \in Nat \ {0}
                        /\ l * LineLen = (l - 1) * LineLen + LineLen
    /\ DriverInv => \A k \in 1 .. Len(images) :
          images[k].frame \in Nat /\ images[k].frame * FrameLen \in Nat /\ images[k].bytes \in Bytes(sent)
  <1>1. ASSUME NEW l \in Lines
        PROVE  l \in Nat \ {0} /\ (l - 1) * LineLen \in Nat /\ l * LineLen \in Nat \ {0}
               /\ l * LineLen = (l - 1) * LineLen + LineLen
    <2>1. l \in Nat \ {0}
      BY DEF Lines
    <2> QED
      BY <2>1, Newlines
  <1>2. ASSUME DriverInv, NEW k \in 1 .. Len(images)
        PROVE  images[k].frame \in Nat /\ images[k].frame * FrameLen \in Nat /\ images[k].bytes \in Bytes(sent)
    <2>1. images \in Seq([frame : 1 .. NumFrames, bytes : Bytes(sent)])
      BY <1>2 DEF DriverInv, TypeInv
    <2>2. images[k] \in [frame : 1 .. NumFrames, bytes : Bytes(sent)]
      BY <2>1, ElementOfSeq
    <2>3. images[k].frame \in Nat /\ images[k].bytes \in Bytes(sent)
      BY <2>2
    <2> QED
      BY <2>3, Sizes
  <1> QED
    BY <1>1, <1>2

\* A line that has begun was intact before the step as well.
LEMMA IntactBefore ==
    ASSUME DriverInv, NEW l \in Lines, (l - 1) * LineLen < sent, Intact(l)', lost \subseteq lost',
           \/ images' = images
           \/ \E p : images' = Append(images, p) /\ p.frame * FrameLen = sent
    PROVE  Intact(l)
  <1>1. CharsOf(l) \cap lost = {}
    BY DEF Intact, CharsOf
  <1>2. BeganClean(l)
    <2>1. l = 1 \/ (l - 1) * LineLen \notin lost'
          \/ (l % FrameLines = 1 % FrameLines
              /\ \E k \in 1 .. Len(images') : images'[k].frame = (l - 1) \div FrameLines)
      BY DEF Intact, BeganClean
    <2>2. CASE l = 1 \/ (l - 1) * LineLen \notin lost'
      BY <2>2 DEF BeganClean
    <2>3. CASE images' = images
      BY <2>1, <2>2, <2>3 DEF BeganClean
    <2>4. ASSUME l % FrameLines = 1 % FrameLines, NEW k \in 1 .. Len(images'),
                 images'[k].frame = (l - 1) \div FrameLines,
                 NEW p, images' = Append(images, p), p.frame * FrameLen = sent
          PROVE  BeganClean(l)
      <3>1. /\ Len(images) \in Nat /\ Len(images') = Len(images) + 1
            /\ \A j \in 1 .. Len(images) : images'[j] = images[j]
            /\ images'[Len(images) + 1] = p
        <4>1. images \in Seq([frame : 1 .. NumFrames, bytes : Bytes(sent)])
          BY DEF DriverInv, TypeInv
        <4> QED
          BY <2>4, <4>1
      <3>2. CASE k \in 1 .. Len(images)
        BY <2>4, <3>1, <3>2 DEF BeganClean
      <3>3. CASE k = Len(images) + 1
        <4>1. p.frame = (l - 1) \div FrameLines
          BY <2>4, <3>1, <3>3
        <4>2. sent = (l - 1) * LineLen
          <5>1. l \in Nat \ {0}
            BY Numbers
          <5> QED
            BY <2>4, <4>1, <5>1, FirstOfFrame
        <4>3. (l - 1) * LineLen \in Nat
          BY Numbers
        <4> QED
          BY <4>2, <4>3
      <3> QED
        BY <3>1, <3>2, <3>3
    <2> QED
      BY <2>1, <2>2, <2>3, <2>4
  <1> QED
    BY <1>1, <1>2 DEF Intact

\* At the beginning nothing has been sent.
LEMMA WholeInit == Init => WholeInv
  <1> SUFFICES ASSUME Init PROVE WholeInv
    OBVIOUS
  <1>1. sent = 0 /\ fifo = <<>> /\ lost = {} /\ chunk = <<>> /\ ready = <<>> /\ images = <<>>
    BY DEF Init
  <1>2. FifoInv /\ PastInv /\ BoundaryInv
    <2>1. FifoCap + 1 .. 0 = {}
      BY Sizes
    <2> QED
      BY <1>1, <2>1 DEF FifoInv, PastInv, BoundaryInv
  <1>3. LineInv
    <2>1. ASSUME NEW l \in Lines PROVE ~ ((l - 1) * LineLen < sent) /\ sent # l * LineLen
      BY <1>1, Numbers
    <2> QED
      BY <2>1 DEF LineInv
  <1>4. KeptInv
    <2>1. ASSUME NEW f \in 1 .. NumFrames, NEW l \in LinesOf(f) PROVE ~ (l * LineLen <= sent)
      <3>1. l \in Lines
        BY LineInFrame DEF Lines
      <3> QED
        BY <1>1, <3>1, Numbers
    <2> QED
      BY <2>1 DEF KeptInv
  <1> QED
    BY <1>2, <1>3, <1>4 DEF WholeInv

\* A character arrives.  If the FIFO is full, the line it belongs to is not intact;
\* otherwise the line goes on, or begins in an empty buffer.
LEMMA WholeArrive ==
    ASSUME DriverInv, WholeInv, Arrive
    PROVE  WholeInv'
  <1>1. /\ sent' = sent + 1 /\ sent \in Nat
        /\ UNCHANGED <<start, chunk, ready, image, images>>
        /\ (start # "enable" /\ sent % LineLen = 0) => fifo = <<>> /\ ready = <<>>
        /\ (start # "enable" /\ sent % FrameLen = 0) => image = <<>>
    BY Sizes DEF DriverInv, TypeInv, Arrive, CameraSends, handlerVars, imageVars
  <1>2. /\ fifo \in Seq(1 .. sent) /\ Len(fifo) \in Nat /\ Len(fifo) <= FifoCap /\ lost \subseteq 1 .. sent
        /\ chunk \in Seq(1 .. sent)
    BY DEF DriverInv, TypeInv
  <1>3. lost \subseteq lost' /\ lost' \subseteq lost \union {sent'}
    BY DEF Arrive
  <1>4. fifo' # <<>> /\ (sent' \notin lost' => Len(fifo) < FifoCap /\ fifo' = Append(fifo, sent'))
    <2>1. CASE Len(fifo) < FifoCap /\ fifo' = Append(fifo, sent') /\ UNCHANGED lost
      <3>1. fifo \in Seq(Nat) /\ sent' \in Nat
        BY <1>1, <1>2
      <3>2. Len(fifo') = Len(fifo) + 1
        BY <2>1, <3>1
      <3> QED
        BY <1>2, <2>1, <3>2
    <2>2. CASE Len(fifo) = FifoCap /\ lost' = lost \union {sent'} /\ UNCHANGED fifo
      BY <2>2, Sizes
    <2> QED
      BY <2>1, <2>2 DEF Arrive
  <1>5. start = "enable" => ready = <<>> /\ image = <<>> /\ chunk = <<>> /\ (Len(fifo) < FifoCap => sent = Len(fifo))
    BY DEF DriverInv, PhaseInv
  <1>6. FifoInv'
    <2>1. ASSUME sent' \notin lost' PROVE fifo'[Len(fifo')] = sent'
      <3>1. fifo \in Seq(Nat) /\ sent' \in Nat /\ fifo' = Append(fifo, sent')
        BY <1>1, <1>2, <1>4, <2>1
      <3> QED
        BY <3>1
    <2>2. ASSUME start = "enable", NEW c \in FifoCap + 1 .. sent' PROVE c \in lost'
      <3>1. CASE c \in FifoCap + 1 .. sent
        BY <1>3, <2>2, <3>1 DEF WholeInv, FifoInv
      <3>2. CASE c = sent'
        <4>1. sent' \notin lost' => sent' = Len(fifo) + 1 /\ Len(fifo) < FifoCap
          BY <1>1, <1>4, <1>5, <2>2
        <4> QED
          BY <1>2, <2>2, <3>2, <4>1, Sizes
      <3> QED
        BY <1>1, <2>2, <3>1, <3>2, Sizes
    <2> QED
      BY <1>1, <2>1, <2>2 DEF FifoInv
  <1>7. PastInv'
    <2>1. ASSUME NEW k \in 1 .. Len(images)
          PROVE  images[k].frame * FrameLen <= sent' /\ images[k].frame * FrameLen # sent'
      <3>1. images[k].frame * FrameLen <= sent /\ images[k].frame * FrameLen \in Nat
        BY Numbers DEF WholeInv, PastInv
      <3> QED
        BY <1>1, <3>1
    <2> QED
      BY <1>1, <2>1 DEF WholeInv, PastInv
  <1>8. BoundaryInv'
    BY <1>4 DEF BoundaryInv
  <1>9. \A l \in Lines : (l - 1) * LineLen < sent /\ Intact(l)' => Intact(l)
    BY <1>1, <1>3, IntactBefore
  <1>10. LineInv'
    <2>1. ASSUME NEW l \in Lines, Intact(l)', (l - 1) * LineLen < sent', sent' <= l * LineLen, ready' = <<>>
          PROVE  chunk' \o fifo' = Run((l - 1) * LineLen, sent')
      <3> DEFINE a == (l - 1) * LineLen
      <3>1. l \in Nat \ {0} /\ a \in Nat /\ l * LineLen = a + LineLen /\ l * LineLen \in Nat
        BY Numbers
      <3>2. sent' \in CharsOf(l)
        BY <1>1, <2>1, <3>1 DEF CharsOf
      <3>3. Len(fifo) < FifoCap /\ fifo' = Append(fifo, sent + 1)
        BY <1>1, <1>4, <2>1, <3>2 DEF Intact, CharsOf
      <3>4. CASE a < sent
        <4>1. Intact(l) /\ ready = <<>> /\ a < sent /\ sent < l * LineLen /\ sent <= l * LineLen
          BY <1>1, <1>9, <2>1, <3>1, <3>4
        <4>2. chunk \o fifo = Run(a, sent)
          BY <4>1 DEF WholeInv, LineInv
        <4>3. chunk \in Seq(1 .. sent + 1) /\ fifo \in Seq(1 .. sent + 1) /\ sent + 1 \in Nat /\ a <= sent
          <5>1. Seq(1 .. sent) \subseteq Seq(1 .. sent + 1)
            BY <1>1, Wider
          <5> QED
            BY <1>1, <1>2, <3>1, <3>4, <5>1
        <4> HIDE DEF a
        <4>4. chunk \o Append(fifo, sent + 1) = Run(a, sent + 1)
          <5>1. a \in Nat /\ sent \in Nat /\ sent + 1 <= sent + 1
            BY <1>1, <3>1
          <5> QED
            BY <4>2, <4>3, <5>1, RunGrows
        <4> QED
          BY <1>1, <3>3, <4>4 DEF a
      <3>5. CASE a = sent
        <4>1. fifo = <<>> /\ ready = <<>>
          <5>1. CASE start = "enable"
            <6>1. sent = Len(fifo) /\ Len(fifo) < LineLen
              BY <1>2, <1>5, <3>3, <5>1, Sizes
            <6>2. l = 1
              <7>1. SUFFICES ASSUME l - 1 >= 1 PROVE FALSE
                BY <3>1
              <7>2. \A x, y \in Nat : x >= 1 => x * y >= y
                BY SMT
              <7>3. a >= LineLen
                BY <3>1, <7>1, <7>2, Sizes
              <7> QED
                BY <3>5, <6>1, <7>3, Sizes
            <6>3. sent = 0
              BY <3>5, <6>2, Sizes
            <6> QED
              BY <1>2, <1>5, <5>1, <6>1, <6>3
          <5>2. CASE start # "enable"
            <6>1. sent % LineLen = 0
              BY <3>1, <3>5, Newlines
            <6> QED
              BY <1>1, <5>2, <6>1
          <5> QED
            BY <5>1, <5>2
        <4>2. BeganClean(l)
          <5>1. BeganClean(l)'
            BY <2>1 DEF Intact
          <5> QED
            BY <1>1, <1>3, <5>1 DEF BeganClean
        <4>3. chunk = <<>>
          BY <3>5, <4>1, <4>2 DEF WholeInv, BoundaryInv
        <4>4. chunk' \o fifo' = <<sent + 1>>
          BY <1>1, <3>3, <4>1, <4>3
        <4>5. Run(sent, sent + 1) = <<sent + 1>>
          <5>1. 1 .. (sent + 1) - sent = {1}
            BY <1>1
          <5>2. Run(sent, sent + 1) = [i \in {1} |-> sent + i]
            BY <5>1 DEF Run
          <5>3. <<sent + 1>> = [i \in {1} |-> sent + i]
            BY <1>1
          <5> QED
            BY <5>2, <5>3
        <4> QED
          BY <1>1, <3>5, <4>4, <4>5
      <3> QED
        BY <1>1, <2>1, <3>1, <3>4, <3>5
    <2>2. ASSUME NEW l \in Lines, Intact(l)', sent' = l * LineLen, ready' # <<>>
          PROVE  FALSE
      <3>1. sent % LineLen # 0
        <4>1. l \in Nat \ {0}
          BY Numbers
        <4>2. IsNewline(sent + 1)
          BY <1>1, <2>2, <4>1, Newlines
        <4> QED
          BY <1>1, <4>2, NewlineEnds
      <3>2. start # "enable"
        BY <1>1, <1>5, <2>2
      <3> QED
        BY <1>1, <2>2, <3>1, <3>2 DEF DriverInv, PhaseInv
    <2> QED
      BY <2>1, <2>2 DEF LineInv
  <1>11. KeptInv'
    <2>1. ASSUME NEW f \in 1 .. NumFrames, NEW l \in LinesOf(f), Intact(l)', l * LineLen <= sent'
          PROVE  \/ sent' = l * LineLen /\ fifo' # <<>>
                 \/ sent' <= f * FrameLen /\ Holds(image', l)
                 \/ \E k \in 1 .. Len(images') : images'[k].frame = f /\ Holds(images'[k].bytes, l)
      <3>1. /\ l \in Lines /\ l \in Nat \ {0} /\ l * LineLen \in Nat /\ (l - 1) * LineLen \in Nat
            /\ l * LineLen = (l - 1) * LineLen + LineLen /\ f * FrameLen \in Nat /\ f \in Nat
        BY Numbers, LineInFrame DEF Lines
      <3>2. CASE l * LineLen = sent'
        BY <1>4, <3>2
      <3>3. CASE l * LineLen <= sent
        <4>1. Intact(l)
          BY <1>1, <1>9, <2>1, <3>1, <3>3, Sizes
        <4>2. ~ (sent = l * LineLen /\ (fifo # <<>> \/ ready # <<>>))
          <5>1. SUFFICES ASSUME sent = l * LineLen, fifo # <<>> \/ ready # <<>> PROVE FALSE
            OBVIOUS
          <5>2. start = "enable"
            BY <1>1, <3>1, <5>1, Newlines
          <5>3. sent \in FifoCap + 1 .. sent
            BY <3>1, <5>1, Sizes
          <5>4. sent \in lost
            BY <5>2, <5>3 DEF WholeInv, FifoInv
          <5>5. sent \in CharsOf(l)
            BY <3>1, <5>1, Sizes DEF CharsOf
          <5> QED
            BY <4>1, <5>4, <5>5 DEF Intact
        <4>3. \/ sent <= f * FrameLen /\ Holds(image, l)
              \/ \E k \in 1 .. Len(images) : images[k].frame = f /\ Holds(images[k].bytes, l)
          BY <3>3, <4>1, <4>2 DEF WholeInv, KeptInv
        <4>4. ASSUME sent <= f * FrameLen, Holds(image, l) PROVE sent' <= f * FrameLen
          <5>1. SUFFICES ASSUME sent = f * FrameLen PROVE FALSE
            BY <1>1, <3>1, <4>4
          <5>2. image = <<>>
            BY <1>1, <1>5, <3>1, <5>1, FrameEnds
          <5> QED
            BY <4>4, <5>2, HoldsNothing
        <4> QED
          BY <1>1, <4>3, <4>4
      <3> QED
        BY <1>1, <2>1, <3>1, <3>2, <3>3
    <2> QED
      BY <2>1 DEF KeptInv
  <1> QED
    BY <1>6, <1>7, <1>8, <1>10, <1>11 DEF WholeInv

\* An intact line fits into the active buffer.
LEMMA IntactFits ==
    ASSUME DriverInv, NEW l \in Lines, NEW s, chunk \o fifo = Run((l - 1) * LineLen, s),
           s \in Nat, (l - 1) * LineLen < s, s <= l * LineLen
    PROVE  Longer(fifo) = Run((l - 1) * LineLen, s)
  <1> DEFINE a == (l - 1) * LineLen
  <1>1. /\ a \in Nat /\ l * LineLen = a + LineLen /\ LineLen \in Nat /\ LineLen < ChunkCap
    BY Numbers, Sizes, DriverAssumption DEF LineLen
  <1>2. Len(chunk \o fifo) = s - a
    BY <1>1 DEF Run
  <1>3. Len(chunk \o fifo) = Len(chunk) + Len(fifo)
    BY DEF DriverInv, TypeInv
  <1>4. Len(chunk) + Len(fifo) < ChunkCap
    BY <1>1, <1>2, <1>3, Sizes
  <1> QED
    BY <1>4 DEF Longer

\* An interrupt moves the FIFO behind what the buffer holds of the line, and a newline
\* that came in is seen.
LEMMA WholeInterrupt ==
    ASSUME DriverInv, WholeInv, Interrupt
    PROVE  WholeInv'
  <1>1. /\ start # "enable" /\ fifo # <<>>
        /\ UNCHANGED <<sent, lost, start, image, images>>
        /\ \/ UNCHANGED <<fifo, chunk, ready>>
           \/ /\ EndsLine(fifo) /\ fifo' = <<>>
              /\ ready' = Append(ready, Longer(fifo)) /\ chunk' = <<>>
           \/ /\ ~ EndsLine(fifo) /\ fifo' = <<>>
              /\ ready' = ready /\ chunk' = Longer(fifo)
    BY InterruptMoves DEF DriverInv
  <1>2. ready = <<>> /\ sent \in Nat /\ (EndsLine(fifo) => sent % LineLen = 0)
    BY <1>1, Sizes DEF DriverInv, TypeInv, PhaseInv
  <1>3. \A l \in Lines : Intact(l)' = Intact(l) /\ BeganClean(l)' = BeganClean(l)
    BY <1>1 DEF Intact, BeganClean, CharsOf
  <1>4. CASE UNCHANGED <<fifo, chunk, ready>>
    <2>1. FifoInv' /\ PastInv' /\ BoundaryInv' /\ LineInv'
      BY <1>1, <1>3, <1>4 DEF WholeInv, FifoInv, PastInv, BoundaryInv, LineInv
    <2>2. KeptInv'
      <3>1. \A f \in 1 .. NumFrames : \A l \in LinesOf(f) : l \in Lines
        BY LineInFrame DEF Lines
      <3> QED
        BY <1>1, <1>3, <1>4, <3>1 DEF WholeInv, KeptInv
    <2> QED
      BY <2>1, <2>2 DEF WholeInv
  <1>5. CASE fifo' = <<>>
    <2>1. FifoInv'
      BY <1>1, <1>5 DEF FifoInv
    <2>2. PastInv'
      <3>1. \A k \in 1 .. Len(images) : images[k].frame * FrameLen # sent
        BY <1>1 DEF WholeInv, PastInv
      <3> QED
        BY <1>1, <3>1 DEF WholeInv, PastInv
    <2>3. ASSUME NEW l \in Lines, sent = l * LineLen, sent \notin lost PROVE ready' # <<>>
      <3>1. fifo \in Seq(1 .. sent) /\ fifo[Len(fifo)] = sent
        BY <1>1, <2>3 DEF WholeInv, FifoInv, DriverInv, TypeInv
      <3>2. Len(fifo) \in 1 .. Len(fifo)
        BY <1>1, <3>1, EmptySeq
      <3>3. IsNewline(sent)
        BY <2>3, Numbers, Newlines
      <3>4. EndsLine(fifo)
        BY <3>1, <3>2, <3>3 DEF EndsLine
      <3>5. fifo' # fifo
        BY <1>1, <1>5
      <3>6. ready' = Append(ready, Longer(fifo))
        BY <1>1, <3>4, <3>5
      <3>7. ready' = <<Longer(fifo)>>
        BY <1>2, <3>6
      <3> QED
        BY <3>7
    <2>4. BoundaryInv'
      <3>1. ASSUME NEW l \in Lines, sent = (l - 1) * LineLen, ready' = <<>>, BeganClean(l)
            PROVE  FALSE
        <4>1. sent \in Nat \ {0}
          <5>1. SUFFICES ASSUME sent = 0 PROVE FALSE
            BY <1>2
          <5>2. fifo \in Seq({})
            <6>1. 1 .. 0 = {}
              OBVIOUS
            <6> QED
              BY <5>1, <6>1 DEF DriverInv, TypeInv
          <5> QED
            BY <1>1, <5>2
        <4>2. l \in Nat \ {0} /\ l # 1
          BY <3>1, <4>1, Numbers, Sizes
        <4>3. l - 1 \in Lines
          <5>1. NumFrames * FrameLines \in Nat
            <6>1. NumFrames \in Nat /\ FrameLines \in Nat
              BY DriverAssumption
            <6> QED
              BY <6>1
          <5>2. \A n \in Nat : l <= n /\ l # 1 => l - 1 \in 1 .. n
            BY <4>2
          <5> QED
            BY <3>1, <4>2, <5>1, <5>2 DEF Lines
        <4>4. sent \in lost
          BY <2>3, <3>1, <4>3
        <4>5. PICK k \in 1 .. Len(images) :
                 l % FrameLines = 1 % FrameLines /\ images[k].frame = (l - 1) \div FrameLines
          BY <3>1, <4>2, <4>4 DEF BeganClean
        <4>6. images[k].frame * FrameLen = sent
          BY <3>1, <4>2, <4>5, FirstOfFrame
        <4> QED
          BY <1>1, <4>6 DEF WholeInv, PastInv
      <3> QED
        BY <1>1, <1>3, <3>1 DEF BoundaryInv
    <2>5. LineInv'
      <3>1. ASSUME NEW l \in Lines, Intact(l), (l - 1) * LineLen < sent, sent <= l * LineLen
            PROVE  Longer(fifo) = Run((l - 1) * LineLen, sent)
        <4>1. chunk \o fifo = Run((l - 1) * LineLen, sent)
          BY <1>1, <1>2, <3>1 DEF WholeInv, LineInv
        <4> QED
          BY <1>2, <3>1, <4>1, IntactFits
      <3>2. ASSUME NEW l \in Lines, Intact(l), (l - 1) * LineLen < sent, sent < l * LineLen
            PROVE  chunk' \o fifo' = Run((l - 1) * LineLen, sent)
        <4>1. ~ EndsLine(fifo)
          <5>1. SUFFICES ASSUME sent % LineLen = 0 PROVE FALSE
            BY <1>2
          <5>2. /\ l - 1 \in Nat /\ LineLen \in Nat /\ LineLen > 0 /\ l - 1 + 1 = l
                /\ sent <= (l - 1 + 1) * LineLen /\ l * LineLen \in Nat
            <6>1. l \in Nat \ {0} /\ l * LineLen \in Nat /\ LineLen \in Nat /\ LineLen > 0
              BY Numbers, Sizes
            <6>2. l - 1 \in Nat /\ l - 1 + 1 = l
              BY <6>1
            <6>3. sent <= l * LineLen
              BY <1>2, <3>2, <6>1
            <6> QED
              BY <6>1, <6>2, <6>3
          <5>3. sent = (l - 1 + 1) * LineLen
            BY <1>2, <3>2, <5>1, <5>2, NextMultiple
          <5> QED
            BY <1>2, <3>2, <5>2, <5>3
        <4>2. Longer(fifo) = Run((l - 1) * LineLen, sent)
          <5>1. sent <= l * LineLen
            BY <1>2, <3>2, Numbers
          <5> QED
            BY <3>1, <3>2, <5>1
        <4>3. fifo' # fifo
          BY <1>1, <1>5
        <4>4. chunk' = Run((l - 1) * LineLen, sent)
          BY <1>1, <4>1, <4>2, <4>3
        <4>5. Run((l - 1) * LineLen, sent) \in Seq(Nat)
          BY <1>2, <3>2, Numbers DEF Run
        <4> QED
          BY <1>5, <4>4, <4>5
      <3>3. ASSUME NEW l \in Lines, Intact(l), sent = l * LineLen, ready' # <<>>
            PROVE  ready'[1] = Run((l - 1) * LineLen, sent)
        <4>1. ready' = Append(ready, Longer(fifo))
          BY <1>1, <1>2, <3>3
        <4>2. ready' = <<Longer(fifo)>>
          BY <1>2, <4>1
        <4>3. (l - 1) * LineLen < sent /\ sent <= l * LineLen
          BY <1>2, <3>3, Numbers, Sizes
        <4> QED
          BY <3>1, <3>3, <4>2, <4>3
      <3> QED
        BY <1>1, <1>3, <1>5, <3>2, <3>3 DEF LineInv
    <2>6. KeptInv'
      <3>1. ASSUME NEW f \in 1 .. NumFrames, NEW l \in LinesOf(f), Intact(l), l * LineLen <= sent
            PROVE  \/ sent = l * LineLen /\ ready' # <<>>
                   \/ sent <= f * FrameLen /\ Holds(image, l)
                   \/ \E k \in 1 .. Len(images) : images[k].frame = f /\ Holds(images[k].bytes, l)
        <4>1. l \in Lines
          BY LineInFrame DEF Lines
        <4>2. CASE sent = l * LineLen
          <5>1. sent \in CharsOf(l)
            BY <4>1, <4>2, Numbers, Sizes DEF CharsOf
          <5>2. sent \notin lost
            BY <3>1, <5>1 DEF Intact
          <5> QED
            BY <2>3, <4>1, <4>2, <5>2
        <4>3. CASE sent # l * LineLen
          BY <3>1, <4>3 DEF WholeInv, KeptInv
        <4> QED
          BY <4>2, <4>3
      <3>2. \A f \in 1 .. NumFrames : \A l \in LinesOf(f) : l \in Lines
        BY LineInFrame DEF Lines
      <3> QED
        BY <1>1, <1>3, <3>1, <3>2 DEF KeptInv
    <2> QED
      BY <2>1, <2>2, <2>4, <2>5, <2>6 DEF WholeInv
  <1> QED
    BY <1>1, <1>4, <1>5

\* The first call of HT_USART_StartRX changes nothing of this.
LEMMA WholeStart ==
    ASSUME DriverInv, WholeInv, EnableInterrupt \/ ReceiveIT
    PROVE  WholeInv'
  <1>1. UNCHANGED <<sent, fifo, lost, chunk, ready, image, images>> /\ (start' = "enable" => start = "enable")
    BY DEF EnableInterrupt, ReceiveIT, wireVars, handlerVars, imageVars
  <1>2. FifoInv' /\ PastInv'
    BY <1>1 DEF WholeInv, FifoInv, PastInv
  <1>3. BoundaryInv' /\ LineInv' /\ KeptInv'
    BY <1>1 DEF WholeInv, BoundaryInv, LineInv, KeptInv, Intact, BeganClean, CharsOf
  <1> QED
    BY <1>2, <1>3 DEF WholeInv

\* The task decodes the line that waits: an intact one to its bytes.
LEMMA WholeDrain ==
    ASSUME DriverInv, WholeInv, Drain
    PROVE  WholeInv'
  <1> DEFINE new == HexChars(ready[1])
  <1>1. /\ start = "run" /\ ready # <<>> /\ image' = image \o new /\ ready' = Tail(ready)
        /\ UNCHANGED <<sent, fifo, lost, start, chunk, images>>
    BY DEF Drain, wireVars
  <1>2. fifo = <<>> /\ chunk = <<>> /\ sent % LineLen = 0
    BY <1>1 DEF DriverInv, PhaseInv
  <1>3. Len(ready) = 1 /\ sent \in Nat /\ image \in Bytes(sent) /\ new \in Bytes(sent)
    <2>1. ready \in Seq(Seq(1 .. sent)) /\ Len(ready) <= 1 /\ sent \in Nat /\ image \in Bytes(sent)
      BY Sizes DEF DriverInv, TypeInv
    <2>2. Len(ready) \in Nat \ {0} /\ Len(ready) <= 1
      BY <1>1, <2>1, EmptySeq
    <2>3. \A n \in Nat \ {0} : n <= 1 => n = 1
      OBVIOUS
    <2>4. Len(ready) = 1 /\ 1 \in 1 .. Len(ready)
      <3>1. Len(ready) = 1
        BY <2>2, <2>3
      <3> QED
        BY <3>1
    <2>5. ready[1] \in Seq(1 .. sent) /\ Sorted(ready[1])
      BY <2>1, <2>4, ElementOfSeq DEF DriverInv, OrderInv
    <2> QED
      BY <2>1, <2>4, <2>5, HexCharsInOrder
  <1>4. ready' = <<>>
    <2>1. ready \in Seq(Seq(1 .. sent))
      BY DEF DriverInv, TypeInv
    <2>2. Tail(ready) \in Seq(Seq(1 .. sent)) /\ Len(Tail(ready)) = 0
      BY <1>1, <1>3, <2>1, HeadTailProperties
    <2> QED
      BY <1>1, <2>2, EmptySeq
  <1>5. \A l \in Lines : Intact(l)' = Intact(l)
    BY <1>1 DEF Intact, BeganClean, CharsOf
  <1>6. FifoInv'
    BY <1>1, <1>2 DEF FifoInv
  <1>7. PastInv'
    <2>1. \A k \in 1 .. Len(images) : images[k].frame * FrameLen # sent
      BY <1>1 DEF WholeInv, PastInv
    <2> QED
      BY <1>1, <2>1 DEF WholeInv, PastInv
  <1>8. BoundaryInv'
    BY <1>1, <1>2 DEF BoundaryInv
  <1>9. LineInv'
    <2>1. ASSUME NEW l \in Lines, (l - 1) * LineLen < sent, sent <= l * LineLen PROVE ~ (sent < l * LineLen)
      <3>1. l - 1 \in Nat /\ LineLen \in Nat /\ LineLen > 0 /\ l - 1 + 1 = l /\ l * LineLen \in Nat
        BY Numbers, Sizes
      <3>2. sent = (l - 1 + 1) * LineLen
        BY <1>2, <1>3, <2>1, <3>1, NextMultiple
      <3> QED
        BY <1>3, <3>1, <3>2
    <2> QED
      BY <1>1, <1>2, <1>4, <2>1 DEF LineInv
  <1>10. KeptInv'
    <2>1. ASSUME NEW f \in 1 .. NumFrames, NEW l \in LinesOf(f), Intact(l), l * LineLen <= sent
          PROVE  \/ sent <= f * FrameLen /\ Holds(image', l)
                 \/ \E k \in 1 .. Len(images) : images[k].frame = f /\ Holds(images[k].bytes, l)
      <3>1. l \in Lines /\ l \in Nat \ {0} /\ l * LineLen <= f * FrameLen
        BY LineInFrame, Numbers DEF Lines
      <3>2. CASE sent = l * LineLen
        <4>1. ready[1] = Run((l - 1) * LineLen, sent)
          BY <1>1, <2>1, <3>1, <3>2 DEF WholeInv, LineInv
        <4>2. new = BytesOf(l)
          BY <3>1, <3>2, <4>1, LineDecoded
        <4> HIDE DEF new
        <4>3. Holds(image', l)
          BY <1>1, <1>3, <4>2, HoldsLast
        <4> QED
          BY <3>1, <3>2, <4>3
      <3>3. CASE sent <= f * FrameLen /\ Holds(image, l)
        <4> HIDE DEF new
        <4>1. Holds(image', l)
          BY <1>1, <1>3, <3>3, HoldsMore
        <4> QED
          BY <3>3, <4>1
      <3> QED
        BY <2>1, <3>2, <3>3 DEF WholeInv, KeptInv
    <2>2. \A f \in 1 .. NumFrames : \A l \in LinesOf(f) : l \in Lines
      BY LineInFrame DEF Lines
    <2> QED
      BY <1>1, <1>5, <2>1, <2>2 DEF KeptInv
  <1> QED
    BY <1>6, <1>7, <1>8, <1>9, <1>10 DEF WholeInv

\* The image is published as that of the frame that has ended, and the buffer is
\* emptied for the next.
LEMMA WholePublish ==
    ASSUME DriverInv, WholeInv, Publish
    PROVE  WholeInv'
  <1> DEFINE p == [frame |-> sent \div FrameLen, bytes |-> image]
  <1>1. /\ start = "run" /\ fifo = <<>> /\ ready = <<>> /\ image # <<>> /\ sent % FrameLen = 0
        /\ images' = Append(images, p)
        /\ image' = <<>> /\ chunk' = <<>>
        /\ UNCHANGED <<sent, fifo, lost, start, ready>>
    BY DEF Publish, wireVars
  <1>2. sent \in Nat /\ FrameLen \in Nat /\ FrameLen > 0
    BY Sizes DEF DriverInv, TypeInv
  <1>3. p.bytes = image /\ p.frame = sent \div FrameLen /\ p.frame \in Nat /\ p.frame * FrameLen = sent
    <2>1. sent \div FrameLen \in Nat /\ sent = FrameLen * (sent \div FrameLen) + (sent % FrameLen)
      BY <1>2
    <2> QED
      BY <1>1, <1>2, <2>1
  <1> HIDE DEF p
  <1>4. /\ Len(images') = Len(images) + 1 /\ Len(images) \in Nat
        /\ \A k \in 1 .. Len(images) : images'[k] = images[k]
        /\ images'[Len(images) + 1] = p
    <2>1. images \in Seq([frame : 1 .. NumFrames, bytes : Bytes(sent)])
      BY DEF DriverInv, TypeInv
    <2> QED
      BY <1>1, <2>1
  <1>5. \A k \in 1 .. Len(images') : k \in 1 .. Len(images) \/ k = Len(images) + 1
    BY <1>4
  <1>6. \A k \in 1 .. Len(images) : images[k].frame # p.frame /\ images[k].frame * FrameLen <= sent
    BY <1>1, <1>3 DEF WholeInv, PastInv
  <1>7. FifoInv'
    BY <1>1 DEF FifoInv
  <1>8. PastInv'
    <2>1. ASSUME NEW k \in 1 .. Len(images') PROVE images'[k].frame * FrameLen <= sent
      BY <1>2, <1>3, <1>4, <1>5, <1>6
    <2>2. ASSUME NEW j \in 1 .. Len(images'), NEW k \in 1 .. Len(images'), images'[j].frame = images'[k].frame
          PROVE  j = k
      <3>1. CASE j \in 1 .. Len(images) /\ k \in 1 .. Len(images)
        BY <1>4, <2>2, <3>1 DEF WholeInv, PastInv
      <3>2. CASE j = Len(images) + 1 /\ k \in 1 .. Len(images)
        BY <1>4, <1>6, <2>2, <3>2
      <3>3. CASE j \in 1 .. Len(images) /\ k = Len(images) + 1
        BY <1>4, <1>6, <2>2, <3>3
      <3> QED
        BY <1>5, <3>1, <3>2, <3>3
    <2> QED
      BY <1>1, <2>1, <2>2 DEF PastInv
  <1>9. BoundaryInv'
    BY <1>1 DEF BoundaryInv
  <1>10. sent % LineLen = 0
    BY <1>3, FrameEnds
  <1>11. LineInv'
    <2>1. ASSUME NEW l \in Lines, (l - 1) * LineLen < sent, sent <= l * LineLen PROVE ~ (sent < l * LineLen)
      <3>1. l - 1 \in Nat /\ LineLen \in Nat /\ LineLen > 0 /\ l - 1 + 1 = l /\ l * LineLen \in Nat
        BY Numbers, Sizes
      <3>2. sent = (l - 1 + 1) * LineLen
        BY <1>2, <1>10, <2>1, <3>1, NextMultiple
      <3> QED
        BY <1>2, <3>1, <3>2
    <2> QED
      BY <1>1, <2>1 DEF LineInv
  <1>12. KeptInv'
    <2>1. ASSUME NEW f \in 1 .. NumFrames, NEW l \in LinesOf(f), Intact(l)', l * LineLen <= sent
          PROVE  \E k \in 1 .. Len(images') : images'[k].frame = f /\ Holds(images'[k].bytes, l)
      <3>1. /\ l \in Lines /\ f \in Nat /\ f - 1 \in Nat /\ (f - 1) * FrameLen <= (l - 1) * LineLen
            /\ (f - 1) * FrameLen \in Nat /\ f * FrameLen \in Nat
        BY LineInFrame DEF Lines
      <3>2. (l - 1) * LineLen < sent
        BY <1>2, <2>1, <3>1, Numbers, Sizes
      <3>3. Intact(l)
        BY <1>1, <1>3, <2>1, <3>1, <3>2, IntactBefore
      <3>4. CASE sent <= f * FrameLen /\ Holds(image, l)
        <4>1. (f - 1) * FrameLen < sent
          BY <1>2, <3>1, <3>2, Numbers
        <4>2. f - 1 + 1 = f
          BY <3>1
        <4>3. sent = f * FrameLen
          BY <1>1, <1>2, <3>1, <3>4, <4>1, <4>2, NextMultiple
        <4>4. p.frame = f
          BY <1>3, <3>1, <4>3, FrameEnds
        <4>5. Len(images) + 1 \in 1 .. Len(images')
          BY <1>4
        <4> QED
          BY <1>3, <1>4, <3>4, <4>4, <4>5
      <3>5. ASSUME NEW k \in 1 .. Len(images), images[k].frame = f, Holds(images[k].bytes, l)
            PROVE  \E j \in 1 .. Len(images') : images'[j].frame = f /\ Holds(images'[j].bytes, l)
        <4>1. k \in 1 .. Len(images') /\ images'[k] = images[k]
          BY <1>4, <3>5
        <4> QED
          BY <3>5, <4>1
      <3> QED
        BY <1>1, <2>1, <3>3, <3>4, <3>5 DEF WholeInv, KeptInv
    <2> QED
      BY <1>1, <2>1 DEF KeptInv
  <1> QED
    BY <1>7, <1>8, <1>9, <1>11, <1>12 DEF WholeInv

\* Every step keeps the invariant.
LEMMA WholePreserved == DriverInv /\ WholeInv /\ [Next]_vars => WholeInv'
  <1> SUFFICES ASSUME DriverInv, WholeInv, [Next]_vars PROVE WholeInv'
    OBVIOUS
  <1>1. CASE Arrive
    BY <1>1, WholeArrive
  <1>2. CASE Interrupt
    BY <1>2, WholeInterrupt
  <1>3. CASE EnableInterrupt \/ ReceiveIT
    BY <1>3, WholeStart
  <1>4. CASE Drain
    BY <1>4, WholeDrain
  <1>5. CASE Publish
    BY <1>5, WholePublish
  <1>6. CASE UNCHANGED vars
    <2>1. UNCHANGED <<sent, fifo, lost, start, chunk, ready, image, images>>
      BY <1>6 DEF vars, wireVars, handlerVars, imageVars
    <2>2. FifoInv' /\ PastInv'
      BY <2>1 DEF WholeInv, FifoInv, PastInv
    <2>3. BoundaryInv' /\ LineInv' /\ KeptInv'
      BY <2>1 DEF WholeInv, BoundaryInv, LineInv, KeptInv, Intact, BeganClean, CharsOf
    <2> QED
      BY <2>2, <2>3 DEF WholeInv
  <1> QED
    BY <1>1, <1>2, <1>3, <1>4, <1>5, <1>6 DEF Next, Task

\* Damage does not spread: of every frame, and whatever was lost before and after it,
\* a line that came in whole into a buffer that was empty is in the published image,
\* byte for byte, for any length of lines, number of frames and depth of the FIFO
\* below a line.
THEOREM CleanLinesPublished == Spec => []CleanLinesExact
  <1>1. DriverInv /\ WholeInv => CleanLinesExact
    <2> SUFFICES ASSUME DriverInv, WholeInv, NEW k \in 1 .. Len(images), NEW f, f = images[k].frame,
                        NEW l \in LinesOf(f), Intact(l)
                 PROVE  Holds(images[k].bytes, l)
      BY DEF CleanLinesExact, Holds, Intact, LinesOf
    <2>1. f \in 1 .. NumFrames
      <3>1. images \in Seq([frame : 1 .. NumFrames, bytes : Bytes(sent)])
        BY DEF DriverInv, TypeInv
      <3>2. images[k] \in [frame : 1 .. NumFrames, bytes : Bytes(sent)]
        BY <3>1, ElementOfSeq
      <3> QED
        BY <3>2
    <2>2. /\ l \in Lines /\ l * LineLen <= f * FrameLen /\ f * FrameLen \in Nat /\ f * FrameLen <= sent
          /\ f * FrameLen = sent => fifo = <<>> /\ ready = <<>> /\ image = <<>>
          /\ sent \in Nat /\ l * LineLen \in Nat
      <3>1. l \in Lines /\ l * LineLen <= f * FrameLen /\ f * FrameLen \in Nat
        BY <2>1, LineInFrame DEF Lines
      <3>2. l * LineLen \in Nat /\ sent \in Nat
        BY <3>1, Numbers, Sizes DEF DriverInv, TypeInv
      <3>3. f * FrameLen <= sent /\ (f * FrameLen = sent => fifo = <<>> /\ ready = <<>> /\ image = <<>>)
        BY DEF WholeInv, PastInv
      <3> QED
        BY <3>1, <3>2, <3>3
    <2>3. l * LineLen <= sent
      BY <2>2
    <2>4. ~ (sent = l * LineLen /\ (fifo # <<>> \/ ready # <<>>))
      BY <2>2
    <2>5. ~ (sent <= f * FrameLen /\ Holds(image, l))
      BY <2>2, HoldsNothing
    <2>6. PICK j \in 1 .. Len(images) : images[j].frame = f /\ Holds(images[j].bytes, l)
      BY <2>1, <2>3, <2>4, <2>5 DEF WholeInv, KeptInv
    <2>7. j = k
      BY <2>6 DEF WholeInv, PastInv
    <2> QED
      BY <2>6, <2>7
  <1>2. Spec => []WholeInv
    BY InitInv, Preserved, WholeInit, WholePreserved, PTL DEF Spec
  <1> QED
    BY <1>1, <1>2, Inductive, PTL
=============================================================================
