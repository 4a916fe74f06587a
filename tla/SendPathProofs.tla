--------------------------- MODULE SendPathProofs ---------------------------
(***************************************************************************)
(* Theorems about SendPath: the length code for every base, so for that of *)
(* MQTT, sendPacket, and what reaches the receiver, for any number of      *)
(* threads, connections and PINGREQ packets, and as many chunks as the     *)
(* data of the model tells apart.                                          *)
(*                                                                         *)
(* The last theorems rest on WireInv: what the other threads can do to the *)
(* buffer is confined to header and first digit (BufInv), so what is on    *)
(* the wire around the topic of a chunk is its packet but for these two    *)
(* bytes (StreamInv), and the broker, who can only find the topic where    *)
(* the length ends, begins to read it where the task began to write        *)
(* (Aligned).                                                              *)
(***************************************************************************)
EXTENDS SendPath, SequenceTheorems, WellFoundedInduction, TLAPS

(***************************************************************************)
(* The length code.  EncodeLength is recursive; up to four digits it is    *)
(* what Digits says without recursion.                                     *)
(***************************************************************************)
B2 == LenBase * LenBase
B3 == LenBase * B2
B4 == LenBase * B3

\* What a number leaves after n digits, and its n-th digit with the flag.
Up(r) == r \div LenBase
Flagged(r) == (r % LenBase) + 128

Digits(r) ==
    IF r < LenBase THEN <<r>>
    ELSE IF r < B2 THEN <<Flagged(r), Up(r)>>
    ELSE IF r < B3 THEN <<Flagged(r), Flagged(Up(r)), Up(Up(r))>>
    ELSE <<Flagged(r), Flagged(Up(r)), Flagged(Up(Up(r))), Up(Up(Up(r)))>>

\* The base, without the form of the assumption.
LEMMA Base == LenBase \in Nat /\ LenBase >= 2 /\ LenBase <= 128
  BY SendAssumption DEF SendAssumption

\* Its powers.
LEMMA Powers ==
    /\ B2 \in Nat /\ B3 \in Nat /\ B4 \in Nat
    /\ LenBase < B2 /\ B2 < B3 /\ B3 < B4
  <1>1. ASSUME NEW k \in Nat, k > 0 PROVE LenBase * k \in Nat /\ k < LenBase * k
    BY Base, <1>1, SMTT(30)
  <1>2. B2 \in Nat /\ LenBase < B2
    BY <1>1, Base DEF B2
  <1>3. B3 \in Nat /\ B2 < B3
    BY <1>1, <1>2, Base DEF B3
  <1>4. B4 \in Nat /\ B3 < B4
    BY <1>1, <1>2, <1>3, Base DEF B4
  <1> QED
    BY <1>2, <1>3, <1>4

\* A digit and what it leaves.
LEMMA Division ==
    ASSUME NEW r \in Nat
    PROVE  /\ Up(r) \in 0 .. r /\ r % LenBase \in 0 .. LenBase - 1
           /\ r = LenBase * Up(r) + (r % LenBase)
  <1>1. /\ Up(r) \in Nat /\ r % LenBase \in 0 .. LenBase - 1
        /\ r = LenBase * Up(r) + (r % LenBase)
    BY Base, SMTT(30) DEF Up
  <1>2. Up(r) <= r
    BY Base, <1>1, SMTT(30)
  <1> QED
    BY <1>1, <1>2

\* The number that is left has one digit less.
LEMMA UpIsSmaller ==
    ASSUME NEW r \in Nat, NEW k \in Nat
    PROVE  r < LenBase * k <=> Up(r) < k
  <1>1. Up(r) \in Nat /\ r % LenBase \in 0 .. LenBase - 1 /\ r = LenBase * Up(r) + (r % LenBase)
    BY Division
  <1>2. ASSUME r < LenBase * k PROVE Up(r) < k
    BY Base, <1>1, <1>2, SMTT(30)
  <1>3. ASSUME Up(r) < k PROVE r < LenBase * k
    BY Base, <1>1, <1>3, SMTT(30)
  <1> QED
    BY <1>2, <1>3

\* Where the number left lies among the powers of the base.
LEMMA UpPowers ==
    ASSUME NEW r \in Nat
    PROVE  /\ r < B2 <=> Up(r) < LenBase
           /\ r < B3 <=> Up(r) < B2
           /\ r < B4 <=> Up(r) < B3
  BY UpIsSmaller, Base, Powers DEF B2, B3, B4

\* Digits are bytes, which have the flag where more follow.
LEMMA FlaggedIsByte ==
    ASSUME NEW r \in Nat
    PROVE  Flagged(r) \in 128 .. 255 /\ Flagged(r) % 128 = r % LenBase
  <1>1. r % LenBase \in 0 .. LenBase - 1
    BY Division
  <1>2. ASSUME NEW d \in 0 .. 127
        PROVE  d + 128 \in 128 .. 255 /\ (d + 128) % 128 = d
    OBVIOUS
  <1>3. r % LenBase \in 0 .. 127
    BY <1>1, Base
  <1> QED
    BY <1>2, <1>3 DEF Flagged

\* What a sequence looks like that begins with a and goes on like t.
LEMMA Prepend ==
    ASSUME NEW T, NEW a \in T, NEW t \in Seq(T), NEW u \in Seq(T),
           Len(u) = Len(t) + 1, u[1] = a, \A i \in 1 .. Len(t) : u[i + 1] = t[i]
    PROVE  <<a>> \o t = u
  <1> DEFINE s == <<a>> \o t
  <1>1. Len(t) \in Nat
    BY LenProperties
  <1>2. s \in Seq(T) /\ Len(s) = Len(t) + 1 /\ s[1] = a
        /\ \A i \in 1 .. Len(t) : s[i + 1] = t[i]
    BY <1>1
  <1> HIDE DEF s
  <1>3. \A i \in 1 .. Len(u) : i = 1 \/ (i - 1 \in 1 .. Len(t) /\ i = i - 1 + 1)
    BY <1>1
  <1>4. \A i \in 1 .. Len(u) : s[i] = u[i]
    BY <1>2, <1>3
  <1>5. s = u
    BY <1>2, <1>4, SeqEqual
  <1> QED
    BY <1>5 DEF s

\* Digits obeys the recursion of the code.
LEMMA DigitsUnfold ==
    ASSUME NEW r \in Nat, r < B4, r >= LenBase
    PROVE  Digits(r) = <<Flagged(r)>> \o Digits(Up(r))
  <1>1. Up(r) \in Nat /\ (r < B2 <=> Up(r) < LenBase) /\ (r < B3 <=> Up(r) < B2)
        /\ Up(r) < B3
    BY Division, UpPowers
  <1>2. Up(Up(r)) \in Nat /\ Up(Up(Up(r))) \in Nat
    BY <1>1, Division
  <1>3. Flagged(r) \in Nat /\ Flagged(Up(r)) \in Nat /\ Flagged(Up(Up(r))) \in Nat
    BY <1>1, <1>2, FlaggedIsByte
  <1> DEFINE t == Digits(Up(r))
             u == Digits(r)
  <1>4. /\ t \in Seq(Nat) /\ u \in Seq(Nat) /\ Len(u) = Len(t) + 1 /\ u[1] = Flagged(r)
        /\ \A i \in 1 .. Len(t) : u[i + 1] = t[i]
    <2> HIDE DEF Up, Flagged
    <2>1. CASE r < B2
      <3>1. u = <<Flagged(r), Up(r)>> /\ t = <<Up(r)>>
        BY <1>1, <2>1, Base DEF Digits
      <3> HIDE DEF t, u
      <3> QED
        BY <1>1, <1>3, <3>1
    <2>2. CASE r >= B2 /\ r < B3
      <3>1. u = <<Flagged(r), Flagged(Up(r)), Up(Up(r))>>
        BY <2>2, Base, Powers DEF Digits
      <3>2. t = <<Flagged(Up(r)), Up(Up(r))>>
        BY <1>1, <2>2, Base, Powers DEF Digits
      <3> HIDE DEF t, u
      <3> QED
        BY <1>2, <1>3, <3>1, <3>2
    <2>3. CASE r >= B3
      <3>1. u = <<Flagged(r), Flagged(Up(r)), Flagged(Up(Up(r))), Up(Up(Up(r)))>>
        BY <2>3, Base, Powers DEF Digits
      <3>2. t = <<Flagged(Up(r)), Flagged(Up(Up(r))), Up(Up(Up(r)))>>
        BY <1>1, <2>3, Base, Powers DEF Digits
      <3> HIDE DEF t, u
      <3> QED
        BY <1>2, <1>3, <3>1, <3>2
    <2> QED
      BY <2>1, <2>2, <2>3, Powers
  <1> HIDE DEF t, u
  <1>5. <<Flagged(r)>> \o t = u
    BY <1>3, <1>4, Prepend
  <1> QED
    BY <1>5 DEF t, u

\* The recursive definition means the digits: there is a function like it, and any
\* such function gives them.
LEMMA EncodeIsDigits ==
    ASSUME NEW n \in Nat, n < B4
    PROVE  EncodeLength(n) = Digits(n)
  <1> DEFINE Rec(f) == [r \in 0 .. n |-> IF r < LenBase THEN <<r>>
                                         ELSE <<Flagged(r)>> \o f[Up(r)]]
             bytes == CHOOSE f : f = Rec(f)
  <1>1. EncodeLength(n) = bytes[n]
    BY DEF EncodeLength, Up, Flagged
  <1>2. \E f : f = Rec(f)
    <2> DEFINE w == [r \in 0 .. n |-> Digits(r)]
    <2>1. ASSUME NEW r \in 0 .. n
          PROVE  w[r] = IF r < LenBase THEN <<r>> ELSE <<Flagged(r)>> \o w[Up(r)]
      <3>1. CASE r < LenBase
        BY <3>1 DEF Digits
      <3>2. CASE r >= LenBase
        <4>1. Up(r) \in 0 .. n
          BY Division
        <4>2. Digits(r) = <<Flagged(r)>> \o Digits(Up(r))
          BY <3>2, Powers, DigitsUnfold
        <4> QED
          BY <3>2, <4>1, <4>2, Base
      <3> QED
        BY <3>1, <3>2, Base
    <2>2. w = Rec(w)
      BY <2>1
    <2> QED
      BY <2>2
  <1>3. bytes = Rec(bytes)
    BY <1>2
  <1> HIDE DEF bytes
  <1>4. ASSUME NEW r \in 0 .. n
        PROVE  bytes[r] = IF r < LenBase THEN <<r>> ELSE <<Flagged(r)>> \o bytes[Up(r)]
    BY <1>3
  <1> HIDE DEF Rec
  <1>5. ASSUME NEW r \in 0 .. n
        PROVE  Up(r) \in 0 .. n /\ r \in Nat /\ r < B4
    BY Division, Powers
  <1>6. ASSUME NEW r \in 0 .. n, r < LenBase
        PROVE  bytes[r] = Digits(r)
    BY <1>4, <1>6 DEF Digits
  <1>7. ASSUME NEW r \in 0 .. n, r >= LenBase, bytes[Up(r)] = Digits(Up(r))
        PROVE  bytes[r] = Digits(r)
    <2>1. Digits(r) = <<Flagged(r)>> \o Digits(Up(r))
      BY <1>5, <1>7, DigitsUnfold
    <2>2. bytes[r] = <<Flagged(r)>> \o bytes[Up(r)]
      <3>1. ~ (r < LenBase)
        BY <1>7, Base
      <3> QED
        BY <1>4, <3>1, Zenon
    <2> QED
      BY <1>7, <2>1, <2>2
  <1>8. ASSUME NEW r \in 0 .. n, r < B2
        PROVE  bytes[r] = Digits(r)
    BY <1>5, <1>6, <1>7, <1>8, UpPowers, Base
  <1>9. ASSUME NEW r \in 0 .. n, r < B3
        PROVE  bytes[r] = Digits(r)
    BY <1>5, <1>6, <1>7, <1>8, <1>9, UpPowers, Base
  <1>10. ASSUME NEW r \in 0 .. n
         PROVE  bytes[r] = Digits(r)
    BY <1>5, <1>6, <1>7, <1>9, UpPowers, Base
  <1> QED
    BY <1>1, <1>10

\* As many digits as the powers of the base say; only the last has no flag.
Width(n) == IF n < LenBase THEN 1 ELSE IF n < B2 THEN 2 ELSE IF n < B3 THEN 3 ELSE 4

HasShape(d, k) ==
    /\ d \in Seq(Nat) /\ Len(d) = k
    /\ \A j \in 1 .. k : j < k => d[j] \in 128 .. 255
    /\ d[k] \in 0 .. 127

\* The digits of a number have that shape.
LEMMA DigitsShape ==
    ASSUME NEW n \in Nat, n < B4
    PROVE  Width(n) \in 1 .. 4 /\ HasShape(Digits(n), Width(n))
  <1> DEFINE d == Digits(n)
  <1>1. Up(n) \in Nat /\ Up(Up(n)) \in Nat /\ Up(Up(Up(n))) \in Nat
    BY Division
  <1>2. /\ Flagged(n) \in 128 .. 255 /\ Flagged(Up(n)) \in 128 .. 255
        /\ Flagged(Up(Up(n))) \in 128 .. 255
    BY <1>1, FlaggedIsByte
  <1>3. /\ n < B2 => Up(n) < LenBase
        /\ n < B3 => Up(Up(n)) < LenBase
        /\ Up(Up(Up(n))) < LenBase
    BY <1>1, UpPowers
  <1> HIDE DEF Up, Flagged
  <1> SUFFICES Width(n) \in 1 .. 4 /\ HasShape(d, Width(n))
    OBVIOUS
  <1>4. CASE n < LenBase
    <2>1. d = <<n>> /\ Width(n) = 1
      BY <1>4 DEF Digits, Width
    <2> HIDE DEF d
    <2>2. HasShape(d, 1)
      BY <1>4, <2>1, Base DEF HasShape
    <2> QED
      BY <2>1, <2>2
  <1>5. CASE n >= LenBase /\ n < B2
    <2>1. d = <<Flagged(n), Up(n)>> /\ Width(n) = 2
      BY <1>5, Base DEF Digits, Width
    <2> HIDE DEF d
    <2>2. HasShape(d, 2)
      BY <1>1, <1>2, <1>3, <1>5, <2>1, Base DEF HasShape
    <2> QED
      BY <2>1, <2>2
  <1>6. CASE n >= B2 /\ n < B3
    <2>1. d = <<Flagged(n), Flagged(Up(n)), Up(Up(n))>> /\ Width(n) = 3
      BY <1>6, Base, Powers DEF Digits, Width
    <2> HIDE DEF d
    <2>2. HasShape(d, 3)
      BY <1>1, <1>2, <1>3, <1>6, <2>1, Base DEF HasShape
    <2> QED
      BY <2>1, <2>2
  <1>7. CASE n >= B3
    <2>1. d = <<Flagged(n), Flagged(Up(n)), Flagged(Up(Up(n))), Up(Up(Up(n)))>> /\ Width(n) = 4
      BY <1>7, Base, Powers DEF Digits, Width
    <2> HIDE DEF d
    <2>2. HasShape(d, 4)
      BY <1>1, <1>2, <1>3, <1>7, <2>1, Base DEF HasShape
    <2> QED
      BY <2>1, <2>2
  <1> QED
    BY <1>4, <1>5, <1>6, <1>7, Base, Powers

\* How the code tells the last digit from the others.
LEMMA LastHasNoFlag ==
    /\ \A i \in 0 .. 127 : i < 128
    /\ \A i \in 128 .. 255 : ~ (i < 128)
  OBVIOUS

\* decodePacket stops after the digits.
LEMMA LengthFound ==
    ASSUME NEW s \in Seq(Nat), NEW k \in 1 .. 4, NEW d, HasShape(d, k),
           Len(s) = k + 1, \A j \in 1 .. k : s[1 + j] = d[j]
    PROVE  LengthLen(s, 1) = k
  <1> DEFINE ends == {j \in 1 .. 4 : 1 + j <= Len(s) /\ s[1 + j] < 128}
  <1>1. ends = {k}
    <2>1. k \in ends
      <3>1. k \in 1 .. k /\ 1 + k <= Len(s)
        OBVIOUS
      <3>2. s[1 + k] = d[k] /\ d[k] \in 0 .. 127
        BY <3>1 DEF HasShape
      <3>3. s[1 + k] < 128
        BY <3>2, LastHasNoFlag
      <3> QED
        BY <3>1, <3>3
    <2>2. ASSUME NEW j \in 1 .. 4, 1 + j <= Len(s), s[1 + j] < 128
          PROVE  j = k
      <3>1. j \in 1 .. k
        BY <2>2
      <3>2. s[1 + j] = d[j]
        BY <3>1
      <3>3. ASSUME j < k PROVE FALSE
        <4>1. d[j] \in 128 .. 255
          BY <3>1, <3>3 DEF HasShape
        <4> QED
          BY <2>2, <3>2, <4>1, LastHasNoFlag
      <3> QED
        BY <3>1, <3>3
    <2> QED
      BY <2>1, <2>2
  <1> HIDE DEF ends
  <1>2. Min(ends) = k
    BY <1>1 DEF Min
  <1> QED
    BY <1>1, <1>2 DEF LengthLen, ends

\* What digits stand for, with their multipliers.
Value(d) ==
    LET digit(j) == IF j <= Len(d) THEN d[j] % 128 ELSE 0
    IN digit(1) + LenBase * (digit(2) + LenBase * (digit(3) + LenBase * digit(4)))

\* The digits of n stand for n.
LEMMA DigitsAddUp ==
    ASSUME NEW n \in Nat, n < B4
    PROVE  Value(Digits(n)) = n
  <1> DEFINE d == Digits(n)
             digit(j) == IF j <= Len(d) THEN d[j] % 128 ELSE 0
  <1>1. Up(n) \in Nat /\ Up(Up(n)) \in Nat /\ Up(Up(Up(n))) \in Nat
    BY Division
  <1>2. /\ Flagged(n) % 128 = n % LenBase /\ Flagged(Up(n)) % 128 = Up(n) % LenBase
        /\ Flagged(Up(Up(n))) % 128 = Up(Up(n)) % LenBase
    BY <1>1, FlaggedIsByte
  <1>3. ASSUME NEW i \in Nat, i < LenBase PROVE i % 128 = i
    BY <1>3, Base
  <1>4. /\ n < B2 => Up(n) < LenBase
        /\ n < B3 => Up(Up(n)) < LenBase
        /\ Up(Up(Up(n))) < LenBase
    BY <1>1, UpPowers
  <1>5. ASSUME NEW i \in Nat
        PROVE  i % LenBase \in Nat /\ LenBase * Up(i) \in Nat
               /\ (i % LenBase) + LenBase * Up(i) = i
    <2>1. Up(i) \in Nat /\ i % LenBase \in Nat /\ i = LenBase * Up(i) + (i % LenBase)
      BY Division
    <2>2. LenBase * Up(i) \in Nat
      BY <2>1, Base, SMTT(30)
    <2> QED
      BY <2>1, <2>2
  <1>6. LenBase * 0 = 0 /\ \A i \in Nat : i + 0 = i
    BY Base
  <1> SUFFICES digit(1) + LenBase * (digit(2) + LenBase * (digit(3) + LenBase * digit(4))) = n
    BY DEF Value
  <1> HIDE DEF Up, Flagged
  <1>7. CASE n < LenBase
    <2>1. d = <<n>>
      BY <1>7 DEF Digits
    <2> HIDE DEF d
    <2>2. digit(1) = n /\ digit(2) = 0 /\ digit(3) = 0 /\ digit(4) = 0
      BY <1>3, <1>7, <2>1
    <2> HIDE DEF digit
    <2> QED
      BY <1>6, <2>2
  <1>8. CASE n >= LenBase /\ n < B2
    <2>1. d = <<Flagged(n), Up(n)>>
      BY <1>8, Base DEF Digits
    <2> HIDE DEF d
    <2>2. digit(1) = n % LenBase /\ digit(2) = Up(n) /\ digit(3) = 0 /\ digit(4) = 0
      BY <1>1, <1>2, <1>3, <1>4, <1>8, <2>1
    <2> HIDE DEF digit
    <2> QED
      BY <1>1, <1>5, <1>6, <2>2
  <1>9. CASE n >= B2 /\ n < B3
    <2>1. d = <<Flagged(n), Flagged(Up(n)), Up(Up(n))>>
      BY <1>9, Base, Powers DEF Digits
    <2> HIDE DEF d
    <2>2. digit(1) = n % LenBase /\ digit(2) = Up(n) % LenBase /\ digit(3) = Up(Up(n))
          /\ digit(4) = 0
      BY <1>1, <1>2, <1>3, <1>4, <1>9, <2>1
    <2> HIDE DEF digit
    <2> QED
      BY <1>1, <1>5, <1>6, <2>2
  <1>10. CASE n >= B3
    <2>1. d = <<Flagged(n), Flagged(Up(n)), Flagged(Up(Up(n))), Up(Up(Up(n)))>>
      BY <1>10, Base, Powers DEF Digits
    <2> HIDE DEF d
    <2>2. digit(1) = n % LenBase /\ digit(2) = Up(n) % LenBase
          /\ digit(3) = Up(Up(n)) % LenBase /\ digit(4) = Up(Up(Up(n)))
      BY <1>1, <1>2, <1>3, <1>4, <1>10, <2>1
    <2> HIDE DEF digit
    <2> QED
      BY <1>1, <1>5, <1>6, <2>2
  <1> QED
    BY <1>7, <1>8, <1>9, <1>10, Base, Powers

\* The length code, whatever the base is: up to four digits of it, what MQTTPacket_encode
\* writes decodePacket reads, and MQTTPacket_len counts it, or one byte more.
LEMMA LengthCodeWorks ==
    ASSUME NEW n \in Nat, n < B4
    PROVE  LET s == <<PUBLISH>> \o EncodeLength(n)
           IN  /\ LengthLen(s, 1) = Len(s) - 1 /\ DecodeLength(s, 1) = n
               /\ PacketLen(n) - Len(s) - n \in {0, 1}
  <1> DEFINE d == EncodeLength(n)
             s == <<PUBLISH>> \o d
             k == Width(n)
  <1>1. d = Digits(n) /\ k \in 1 .. 4 /\ HasShape(d, k)
    BY EncodeIsDigits, DigitsShape
  <1> HIDE DEF d, k
  <1>2. PUBLISH \in Nat
    BY DEF PUBLISH
  <1> DEFINE header == PUBLISH
  <1> HIDE DEF header
  <1>3. header \in Nat
    BY <1>2 DEF header
  <1>4. d \in Seq(Nat) /\ Len(d) = k
    BY <1>1 DEF HasShape
  <1>5. <<header>> \o d \in Seq(Nat) /\ Len(<<header>> \o d) = k + 1
        /\ \A j \in 1 .. k : (<<header>> \o d)[1 + j] = d[j]
    BY <1>1, <1>3, <1>4
  <1>6. s \in Seq(Nat) /\ Len(s) = k + 1 /\ \A j \in 1 .. k : s[1 + j] = d[j]
    BY <1>5 DEF header
  <1> HIDE DEF s
  <1>7. LengthLen(s, 1) = k
    BY <1>1, <1>6, LengthFound
  <1>8. DecodeLength(s, 1) = n
    <2>1. \A j \in 1 .. 4 : (IF j <= k THEN s[1 + j] % 128 ELSE 0)
                          = (IF j <= Len(d) THEN d[j] % 128 ELSE 0)
      BY <1>1, <1>4, <1>6
    <2>2. DecodeLength(s, 1) = Value(d)
      BY <1>7, <2>1 DEF DecodeLength, Value
    <2> QED
      BY <1>1, <2>2, DigitsAddUp
  <1>9. PacketLen(n) - Len(s) - n \in {0, 1}
    <2>1. B3 = LenBase * LenBase * LenBase
      BY Base, SMTT(30) DEF B2, B3
    <2>2. PacketLen(n) = n + 1 + IF n + 1 < LenBase THEN 1 ELSE IF n + 1 < B2 THEN 2
                                 ELSE IF n + 1 < B3 - 1 THEN 3 ELSE 4
      BY <2>1 DEF PacketLen, B2
    <2>3. k = IF n < LenBase THEN 1 ELSE IF n < B2 THEN 2 ELSE IF n < B3 THEN 3 ELSE 4
      BY DEF k, Width
    <2> DEFINE counted == IF n + 1 < LenBase THEN 1 ELSE IF n + 1 < B2 THEN 2
                          ELSE IF n + 1 < B3 - 1 THEN 3 ELSE 4
    <2>4. counted - k \in {0, 1} /\ counted \in Nat /\ k \in Nat
      <3>1. B3 - 2 >= B2 /\ B2 - 1 >= LenBase
        <4>1. \A i \in Nat : LenBase * i >= 2 * i
          BY Base, SMTT(30)
        <4> QED
          BY <4>1, Base, Powers DEF B2, B3
      <3> HIDE DEF k
      <3> QED
        BY <2>3, <3>1, Base, Powers
    <2> HIDE DEF counted
    <2>5. n + 1 + counted - (k + 1) - n = counted - k
      BY <2>4
    <2>6. PacketLen(n) = n + 1 + counted
      BY <2>2 DEF counted
    <2> QED
      BY <1>6, <2>4, <2>5, <2>6
  <1> QED
    BY <1>1, <1>6, <1>7, <1>8, <1>9 DEF s, d

\* Whatever the base is, so also with that of MQTT, 128, each length of up to four
\* digits is written, read and counted as the property says: TLC looks at a small base.
THEOREM LengthsSurvive == Spec => []LengthCode
  <1>1. LengthCode
    <2>1. LenBase * LenBase * LenBase * LenBase = B4
      BY Base, SMTT(30) DEF B2, B3, B4
    <2>2. \A n \in 0 .. B4 - 1 : n \in Nat /\ n < B4
      BY Powers
    <2> QED
      BY <2>1, <2>2, LengthCodeWorks DEF LengthCode
  <1> QED
    BY <1>1, PTL

(***************************************************************************)
(* sendPacket never reads past the packet.  It would if it called send()   *)
(* again after a partial write.  NoOverRead is not inductive: why it does  *)
(* not is that a send() that returns early has outlasted the timer.        *)
(***************************************************************************)
Places == {"idle", "header", "length", "rest", "write", "send", "blocked", "sent"}

\* Between two calls of send() nothing is sent yet, or all is, or the timer has expired.
Loop(t) ==
    /\ done[t] <= size[t]
    /\ pc[t] = "send" => done[t] = 0
    /\ pc[t] = "write" => done[t] = 0 \/ done[t] = size[t] \/ expired[t]

LoopInv ==
    /\ pc \in [Thread -> Places] /\ size \in [Thread -> Nat] /\ done \in [Thread -> Nat]
    /\ expired \in [Thread -> BOOLEAN] /\ chunk \in Nat
    /\ \A t \in Thread : Loop(t)

\* The constants, without the form of the assumption.
LEMMA Constants ==
    /\ NumChunks \in Nat \ {0} /\ FSM \in Thread /\ FSM \notin Background
    /\ \A t \in Background : t \in Thread /\ t # FSM
  BY SendAssumption DEF SendAssumption, Thread

\* A short packet is a sequence of bytes.
LEMMA PacketIsSequence ==
    ASSUME NEW type \in Nat, NEW body \in Seq(Nat), Len(body) <= 5
    PROVE  Packet(type, body) \in Seq(Nat)
  <1>1. Len(body) \in Nat /\ Len(body) < B4
    <2>1. \A i \in Nat : LenBase * i >= 2 * i
      BY Base, SMTT(30)
    <2>2. B4 >= 16
      BY <2>1, Base, Powers DEF B2, B3, B4
    <2> QED
      BY <2>2, Powers
  <1>2. EncodeLength(Len(body)) \in Seq(Nat)
    BY <1>1, EncodeIsDigits, DigitsShape DEF HasShape
  <1>3. ASSUME NEW d \in Seq(Nat)
        PROVE  <<type>> \o d \o body \in Seq(Nat)
    <2>1. <<type>> \o d \in Seq(Nat)
      OBVIOUS
    <2> QED
      BY <2>1
  <1> QED
    BY <1>2, <1>3 DEF Packet

\* So what a thread wants to send has a length.
LEMMA WantedLength ==
    ASSUME chunk \in Nat, NEW t
    PROVE  Len(Wanted(t)) \in Nat
  <1>1. CASE t # FSM
    <2>1. Wanted(t) = <<12, 0>>
      BY <1>1 DEF Wanted, PINGREQ
    <2> QED
      BY <2>1
  <1>2. Packet(CONNECT, ConnectBody) \in Seq(Nat)
    <2>1. 1 \in Nat /\ ConnectBody \in Seq(Nat) /\ Len(ConnectBody) <= 5
      BY DEF ConnectBody
    <2> QED
      BY <2>1, PacketIsSequence DEF CONNECT
  <1>3. Packet(PUBLISH, ChunkBody(chunk + 1)) \in Seq(Nat)
    <2> DEFINE i == chunk + 1
               payload == IF i % NumChunks = 0 THEN <<40 + i>> ELSE <<40 + i, 60 + i>>
    <2>1. payload \in Seq(Nat) /\ Len(payload) <= 2
      BY Constants
    <2> HIDE DEF payload
    <2>2. <<0, 1>> \o <<20 + i>> \in Seq(Nat) /\ Len(<<0, 1>> \o <<20 + i>>) = 3
      BY Constants
    <2>3. ASSUME NEW a \in Seq(Nat), Len(a) = 3
          PROVE  a \o payload \in Seq(Nat) /\ Len(a \o payload) <= 5
      <3>1. a \o payload \in Seq(Nat) /\ Len(a \o payload) = Len(a) + Len(payload)
        BY <2>1, <2>3, ConcatProperties
      <3>2. Len(payload) \in Nat
        BY <2>1
      <3> QED
        BY <2>1, <2>3, <3>1, <3>2
    <2>4. ChunkBody(i) \in Seq(Nat) /\ Len(ChunkBody(i)) <= 5
      BY <2>2, <2>3 DEF ChunkBody, Topic, payload
    <2>5. 3 \in Nat
      OBVIOUS
    <2> QED
      BY <2>4, <2>5, PacketIsSequence DEF PUBLISH
  <1>4. CASE t = FSM
    BY <1>2, <1>3, <1>4 DEF Wanted
  <1> QED
    BY <1>1, <1>4

\* A step of thread t leaves the loops of the others.
LEMMA LoopStep ==
    ASSUME LoopInv, NEW t \in Thread, NEW label \in Places, NEW n \in Nat, NEW d \in 0 .. n,
           NEW late \in BOOLEAN,
           pc' = [pc EXCEPT ![t] = label], size' = [size EXCEPT ![t] = n],
           done' = [done EXCEPT ![t] = d], expired' = [expired EXCEPT ![t] = late],
           chunk' \in Nat,
           label = "send" => d = 0,
           label = "write" => d = 0 \/ d = n \/ late
    PROVE  LoopInv'
  <1>1. /\ pc' \in [Thread -> Places] /\ size' \in [Thread -> Nat] /\ done' \in [Thread -> Nat]
        /\ expired' \in [Thread -> BOOLEAN]
    BY DEF LoopInv
  <1>2. ASSUME NEW u \in Thread, u # t PROVE Loop(u)'
    BY <1>2 DEF LoopInv, Loop
  <1>3. Loop(t)'
    BY DEF LoopInv, Loop
  <1> QED
    BY <1>1, <1>2, <1>3 DEF LoopInv

\* Serialising, in any thread, begins the loop anew.
LEMMA SerializeKeepsLoops ==
    ASSUME LoopInv, NEW t \in Thread, Serialize(t), UNCHANGED chunk
    PROVE  LoopInv'
  <1>1. /\ pc \in [Thread -> Places] /\ size \in [Thread -> Nat] /\ done \in [Thread -> Nat]
        /\ expired \in [Thread -> BOOLEAN] /\ chunk \in Nat /\ done[t] \in 0 .. size[t]
    BY DEF LoopInv, Loop
  <1>2. /\ size = [size EXCEPT ![t] = size[t]] /\ done = [done EXCEPT ![t] = done[t]]
        /\ expired = [expired EXCEPT ![t] = expired[t]]
    BY <1>1
  <1>3. ASSUME NEW label \in {"length", "rest"}, pc' = [pc EXCEPT ![t] = label],
               UNCHANGED <<size, done, expired>>
        PROVE  LoopInv'
    BY <1>1, <1>2, <1>3, LoopStep DEF Places
  <1>4. CASE WriteHeader(t)
    BY <1>3, <1>4 DEF WriteHeader, Step
  <1>5. CASE WriteLength(t)
    BY <1>3, <1>5 DEF WriteLength, Step
  <1>6. CASE WriteRest(t)
    <2> DEFINE n == Len(Wanted(t))
    <2>1. n \in Nat /\ 0 \in 0 .. n
      BY <1>1, WantedLength
    <2>2. /\ pc' = [pc EXCEPT ![t] = "write"] /\ size' = [size EXCEPT ![t] = n]
          /\ done' = [done EXCEPT ![t] = 0] /\ expired' = [expired EXCEPT ![t] = FALSE]
          /\ "write" \in Places
      BY <1>6 DEF WriteRest, Step, Places
    <2> HIDE DEF n
    <2> QED
      BY <1>1, <2>1, <2>2, LoopStep
  <1> QED
    BY <1>4, <1>5, <1>6 DEF Serialize

\* sendPacket: send() is called again only while nothing is sent, and ends with all of the
\* packet or an expired timer.
LEMMA SendPacketKeepsLoops ==
    ASSUME LoopInv, NEW t \in Thread, SendPacket(t), UNCHANGED chunk
    PROVE  LoopInv'
  <1>1. /\ pc \in [Thread -> Places] /\ size \in [Thread -> Nat] /\ done \in [Thread -> Nat]
        /\ expired \in [Thread -> BOOLEAN] /\ chunk \in Nat /\ done[t] \in 0 .. size[t]
    BY DEF LoopInv, Loop
  <1>2. /\ size = [size EXCEPT ![t] = size[t]] /\ done = [done EXCEPT ![t] = done[t]]
        /\ expired = [expired EXCEPT ![t] = expired[t]]
    BY <1>1
  <1>3. \A n \in Nat : Stops(n) \subseteq 0 .. n
    BY DEF Stops
  <1>4. CASE TestLoop(t)
    <2>1. /\ UNCHANGED <<size, done, expired>>
          /\ \/ /\ pc[t] = "write" /\ done[t] < size[t] /\ ~ expired[t]
                /\ pc' = [pc EXCEPT ![t] = "send"]
             \/ pc' = [pc EXCEPT ![t] = "sent"]
      BY <1>4 DEF TestLoop, Step, TimerIsExpired
    <2>2. CASE pc' = [pc EXCEPT ![t] = "sent"]
      BY <1>1, <1>2, <2>1, <2>2, LoopStep DEF Places
    <2>3. CASE /\ pc[t] = "write" /\ done[t] < size[t] /\ ~ expired[t]
               /\ pc' = [pc EXCEPT ![t] = "send"]
      <3>1. done[t] = 0
        BY <1>1, <2>3 DEF LoopInv, Loop
      <3> QED
        BY <1>1, <1>2, <2>1, <2>3, <3>1, LoopStep DEF Places
    <2> QED
      BY <2>1, <2>2, <2>3
  <1>5. CASE Send(t)
    <2>1. PICK n \in Stops(size[t]) : done' = [done EXCEPT ![t] = @ + n]
      BY <1>5 DEF Send
    <2>2. /\ pc' = [pc EXCEPT ![t] = "blocked"] /\ UNCHANGED <<size, expired>> /\ done[t] = 0
          /\ "blocked" \in Places
      BY <1>5 DEF Send, Step, LoopInv, Loop, Places
    <2>3. n \in 0 .. size[t] /\ done' = [done EXCEPT ![t] = n]
      <3>1. n \in 0 .. size[t]
        BY <1>1, <1>3, <2>1
      <3>2. done[t] + n = n
        BY <2>2, <3>1
      <3> QED
        BY <2>1, <3>1, <3>2
    <2> QED
      BY <1>1, <1>2, <2>2, <2>3, LoopStep
  <1>6. CASE EndSend(t)
    <2>1. PICK i \in Stops(size[t]) :
            /\ i >= done[t]
            /\ done' = [done EXCEPT ![t] = @ + (i - done[t])]
            /\ expired' = [expired EXCEPT ![t] = done[t] + (i - done[t]) < size[t]]
      BY <1>6 DEF EndSend
    <2>2. i \in 0 .. size[t] /\ done[t] + (i - done[t]) = i
      BY <1>1, <1>3, <2>1
    <2>3. /\ pc' = [pc EXCEPT ![t] = "write"] /\ UNCHANGED size /\ "write" \in Places
          /\ done' = [done EXCEPT ![t] = i] /\ expired' = [expired EXCEPT ![t] = i < size[t]]
      BY <1>6, <2>1, <2>2 DEF EndSend, Step, Places
    <2>4. (i < size[t]) \in BOOLEAN /\ (i = 0 \/ i = size[t] \/ i < size[t])
      BY <1>1, <2>2
    <2> QED
      BY <1>1, <1>2, <2>2, <2>3, <2>4, LoopStep
  <1>7. CASE SendFails(t)
    BY <1>1, <1>2, <1>7, LoopStep DEF SendFails, Step, Places
  <1> QED
    BY <1>4, <1>5, <1>6, <1>7 DEF SendPacket

\* Beginning to send, beginning again and having sent keep the loops.
LEMMA BeginEndKeepLoops ==
    ASSUME LoopInv, NEW t \in Thread, chunk' \in Nat,
           \/ \E from : Step(t, from, "header") /\ UNCHANGED <<size, done, expired>>
           \/ Finish(t)
    PROVE  LoopInv'
  <1>1. /\ pc \in [Thread -> Places] /\ size \in [Thread -> Nat] /\ done \in [Thread -> Nat]
        /\ expired \in [Thread -> BOOLEAN] /\ done[t] \in 0 .. size[t]
    BY DEF LoopInv, Loop
  <1>2. /\ size = [size EXCEPT ![t] = size[t]] /\ done = [done EXCEPT ![t] = done[t]]
        /\ expired = [expired EXCEPT ![t] = expired[t]]
    BY <1>1
  <1>3. CASE pc' = [pc EXCEPT ![t] = "header"] /\ UNCHANGED <<size, done, expired>>
    BY <1>1, <1>2, <1>3, LoopStep DEF Places
  <1>4. CASE Finish(t)
    <2>1. 0 \in Nat /\ 0 \in 0 .. 0 /\ "idle" \in Places
      BY DEF Places
    <2> QED
      BY <1>4, <2>1, LoopStep DEF Finish, Step
  <1> QED
    BY <1>3, <1>4 DEF Step

\* Every step keeps the loops.
LEMMA LoopInvStep == LoopInv /\ [Next]_vars => LoopInv'
  <1> SUFFICES ASSUME LoopInv, [Next]_vars PROVE LoopInv'
    OBVIOUS
  <1> USE DEF taskVars, threadVars
  <1>1. chunk \in Nat /\ NumChunks \in Nat
    BY Constants DEF LoopInv
  <1>2. ASSUME UNCHANGED threadVars, chunk' \in Nat PROVE LoopInv'
    BY <1>2 DEF LoopInv, Loop
  <1>3. ASSUME NEW t \in Background, KeepAlive(t) PROVE LoopInv'
    <2>1. t \in Thread
      BY Constants
    <2>2. CASE Serialize(t)
      <3>1. UNCHANGED chunk
        BY <2>2 DEF Serialize, WriteHeader, WriteLength, WriteRest
      <3> QED
        BY <2>1, <2>2, <3>1, SerializeKeepsLoops
    <2>3. CASE SendPacket(t)
      <3>1. UNCHANGED chunk
        BY <2>3 DEF SendPacket, TestLoop, Send, EndSend, SendFails
      <3> QED
        BY <2>1, <2>3, <3>1, SendPacketKeepsLoops
    <2>4. CASE BeginPing(t) \/ RetryPing(t) \/ EndPing(t)
      <3>1. chunk' \in Nat
        BY <1>1, <2>4 DEF BeginPing, RetryPing, EndPing
      <3>2. \/ \E from : Step(t, from, "header") /\ UNCHANGED <<size, done, expired>>
            \/ Finish(t)
        BY <2>4 DEF BeginPing, RetryPing, EndPing
      <3> QED
        BY <2>1, <3>1, <3>2, BeginEndKeepLoops
    <2> QED
      BY <1>3, <2>2, <2>3, <2>4 DEF KeepAlive
  <1>4. CASE SessionCloses
    BY <1>1, <1>2, <1>4 DEF SessionCloses
  <1>5. CASE Task
    <2>1. FSM \in Thread
      BY Constants
    <2>2. CASE Reconnect
      <3>1. /\ pc' \in [Thread -> Places]
            /\ \A t \in Thread : pc'[t] \in {"header", "sent", pc[t]}
        BY <2>2 DEF Reconnect, LoopInv, Places
      <3>2. UNCHANGED <<size, done, expired, chunk>>
        BY <2>2 DEF Reconnect
      <3> QED
        BY <3>1, <3>2 DEF LoopInv, Loop
    <2>3. CASE Discard \/ FailPublish
      <3>1. UNCHANGED threadVars /\ chunk' \in Nat
        BY <1>1, <2>3 DEF Discard, FailPublish
      <3> QED
        BY <1>2, <3>1
    <2>4. CASE BeginPublish \/ EndConnect \/ EndPublish
      <3>1. chunk' = chunk \/ chunk' = chunk + 1
        BY <2>4 DEF BeginPublish, EndConnect, EndPublish
      <3> HIDE DEF taskVars, threadVars
      <3>3. chunk' \in Nat
        BY <1>1, <3>1
      <3>2. \/ \E from : Step(FSM, from, "header") /\ UNCHANGED <<size, done, expired>>
            \/ Finish(FSM)
        BY <2>4 DEF BeginPublish, EndConnect, EndPublish
      <3> QED
        BY <2>1, <3>2, <3>3, BeginEndKeepLoops
    <2>5. CASE Serialize(FSM)
      <3>1. UNCHANGED chunk
        BY <2>5 DEF Serialize, WriteHeader, WriteLength, WriteRest
      <3> QED
        BY <2>1, <2>5, <3>1, SerializeKeepsLoops
    <2>6. CASE SendPacket(FSM)
      <3>1. UNCHANGED chunk
        BY <2>6 DEF SendPacket, TestLoop, Send, EndSend, SendFails
      <3> QED
        BY <2>1, <2>6, <3>1, SendPacketKeepsLoops
    <2> QED
      BY <1>5, <2>2, <2>3, <2>4, <2>5, <2>6 DEF Task
  <1>6. CASE UNCHANGED vars
    BY <1>1, <1>2, <1>6 DEF vars
  <1> QED
    BY <1>3, <1>4, <1>5, <1>6 DEF Next

\* sendPacket gives &buf[sent] and the whole length to each call of send(); yet none of
\* them reads past the packet, whichever threads write, fail and retry meanwhile: the
\* timer of the packet, which is no longer than the timeout of send(), ends the loop.
THEOREM SendStaysInPacket == Spec => []NoOverRead
  <1>1. Init => LoopInv
    BY DEF Init, LoopInv, Loop, Places
  <1>2. LoopInv => NoOverRead
    BY DEF LoopInv, Loop, NoOverRead
  <1> QED
    BY <1>1, <1>2, LoopInvStep, PTL DEF Spec

(***************************************************************************)
(* What is in the buffer and on the wire.                                  *)
(***************************************************************************)
N == NumImages * NumChunks
Byte == 0 .. 255

\* What the first two bytes of a packet can be, whoever wrote them.
Headers == {CONNECT, PUBLISH, PINGREQ}
Small == 0 .. 5 \union 128 .. 255

\* The number of chunks, small enough for the data.
LEMMA Chunks ==
    /\ N \in Nat /\ 60 + N < 128 /\ NumChunks \in Nat \ {0} /\ NumImages \in Nat \ {0}
    /\ MaxConnections \in Nat \ {0} /\ MaxPings \in Nat
  <1>1. /\ NumChunks \in Nat \ {0} /\ NumImages \in Nat \ {0} /\ 60 + N < 128
        /\ MaxConnections \in Nat \ {0} /\ MaxPings \in Nat
    BY SendAssumption DEF N
  <1>2. \A x, y \in Nat : x * y \in Nat
    BY SMT
  <1> QED
    BY <1>1, <1>2 DEF N

\* No header and no digit is a byte that tells a chunk.
LEMMA SmallAreNoTopics ==
    \A x \in Headers \union Small : x \notin 21 .. 20 + N
  BY Chunks DEF Headers, Small, CONNECT, PUBLISH, PINGREQ

\* The length code of the packets of the task: up to three digits, and small.
LEMMA SmallDigits ==
    ASSUME NEW n \in 0 .. 5
    PROVE  n < B4 /\ Width(n) \in 1 .. 3 /\ \A m \in 1 .. Width(n) : Digits(n)[m] \in Small
  <1>1. n < B3 /\ n < B4
    <2>1. \A i \in Nat : LenBase * i >= 2 * i
      BY Base, SMTT(30)
    <2>2. B2 >= 4
      BY <2>1, Base DEF B2
    <2>3. B3 >= 8
      BY <2>1, <2>2, Powers DEF B3
    <2> QED
      BY <2>3, Powers
  <1>2. Up(n) \in 0 .. n /\ Up(Up(n)) \in 0 .. n
    <2>1. Up(n) \in 0 .. n
      BY Division
    <2>2. Up(Up(n)) \in 0 .. Up(n)
      BY <2>1, Division
    <2> QED
      BY <2>1, <2>2
  <1>3. /\ Flagged(n) \in Small /\ Flagged(Up(n)) \in Small
        /\ n \in Small /\ Up(n) \in Small /\ Up(Up(n)) \in Small
    <2>1. Flagged(n) \in 128 .. 255 /\ Flagged(Up(n)) \in 128 .. 255
      BY <1>2, FlaggedIsByte
    <2> QED
      BY <1>2, <2>1 DEF Small
  <1>4. CASE n < LenBase
    <2>1. Digits(n) = <<n>> /\ Width(n) = 1
      BY <1>4 DEF Digits, Width
    <2> QED
      BY <1>1, <1>3, <2>1
  <1>5. CASE ~ (n < LenBase) /\ n < B2
    <2>1. Digits(n) = <<Flagged(n), Up(n)>> /\ Width(n) = 2
      BY <1>5 DEF Digits, Width
    <2> HIDE DEF Small
    <2>2. \A m \in 1 .. 2 : m = 1 \/ m = 2
      OBVIOUS
    <2> QED
      BY <1>1, <1>3, <2>1, <2>2
  <1>6. CASE ~ (n < LenBase) /\ ~ (n < B2)
    <2>1. Digits(n) = <<Flagged(n), Flagged(Up(n)), Up(Up(n))>> /\ Width(n) = 3
      BY <1>1, <1>6 DEF Digits, Width
    <2> HIDE DEF Small
    <2>2. \A m \in 1 .. 3 : m = 1 \/ m = 2 \/ m = 3
      OBVIOUS
    <2> QED
      BY <1>1, <1>3, <2>1, <2>2
  <1> QED
    BY <1>4, <1>5, <1>6

\* A packet: header, length and rest.
IsPacket(p, type, n, body) ==
    /\ p \in Seq(Byte) /\ Len(p) = 1 + Width(n) + n
    /\ p[1] = type
    /\ \A m \in 1 .. Width(n) : p[1 + m] = Digits(n)[m]
    /\ \A m \in 1 .. n : p[1 + Width(n) + m] = body[m]
    /\ Width(n) \in 1 .. 3 /\ HasShape(Digits(n), Width(n))
    /\ \A m \in 1 .. Width(n) : Digits(n)[m] \in Small

\* What the task and the threads serialise are such packets.
LEMMA PacketParts ==
    ASSUME NEW type \in Byte, NEW body \in Seq(Byte), Len(body) \in 0 .. 5
    PROVE  IsPacket(Packet(type, body), type, Len(body), body)
  <1> DEFINE n == Len(body)
             d == Digits(n)
             w == Width(n)
             p == <<type>> \o d
  <1>0. n \in 0 .. 5 /\ n = Len(body)
    OBVIOUS
  <1> HIDE DEF n
  <1>1. n < B4 /\ w \in 1 .. 3 /\ HasShape(d, w) /\ \A m \in 1 .. w : d[m] \in Small
    BY <1>0, SmallDigits, DigitsShape
  <1>2. EncodeLength(Len(body)) = d
    BY <1>0, <1>1, EncodeIsDigits
  <1>3. d \in Seq(Byte) /\ Len(d) = w
    <2>1. d \in Seq(Nat) /\ Len(d) = w
      BY <1>1 DEF HasShape
    <2>2. \A m \in 1 .. Len(d) : d[m] \in Byte
      BY <1>1, <2>1 DEF Small, Byte
    <2> HIDE DEF d, w, Byte
    <2> QED
      BY <2>1, <2>2
  <1> HIDE DEF n, d, w, Byte
  <1>4. p \in Seq(Byte) /\ Len(p) = 1 + w /\ p[1] = type /\ \A m \in 1 .. w : p[1 + m] = d[m]
    BY <1>1, <1>3
  <1> HIDE DEF p
  <1>5. Packet(type, body) = p \o body
    BY <1>2 DEF Packet, p
  <1>6. /\ p \o body \in Seq(Byte) /\ Len(p \o body) = 1 + w + n
        /\ \A k \in 1 .. 1 + w + n : (p \o body)[k] = IF k <= 1 + w THEN p[k] ELSE body[k - (1 + w)]
    BY <1>0, <1>1, <1>4, ConcatProperties
  <1>7. (p \o body)[1] = type
    <2>1. 1 \in 1 .. 1 + w + n /\ 1 <= 1 + w
      BY <1>0, <1>1
    <2> QED
      BY <1>4, <1>6, <2>1
  <1>8. ASSUME NEW m \in 1 .. w PROVE (p \o body)[1 + m] = d[m]
    <2>1. 1 + m \in 1 .. 1 + w + n /\ 1 + m <= 1 + w
      BY <1>0, <1>1
    <2> QED
      BY <1>4, <1>6, <2>1
  <1>9. ASSUME NEW m \in 1 .. n PROVE (p \o body)[1 + w + m] = body[m]
    <2> DEFINE k == (1 + w) + m
    <2>1. k \in 1 .. 1 + w + n /\ ~ (k <= 1 + w) /\ k - (1 + w) = m /\ 1 + w + m = k
      BY <1>0, <1>1
    <2> HIDE DEF k
    <2>2. (p \o body)[k] = body[m]
      BY <1>6, <2>1
    <2> QED
      BY <2>1, <2>2
  <1> QED
    BY <1>1, <1>5, <1>6, <1>7, <1>8, <1>9 DEF d, w, n, IsPacket

\* The rest of the packet of a chunk.
LEMMA BodyParts ==
    ASSUME NEW i \in 1 .. N
    PROVE  /\ ChunkBody(i) \in Seq(Byte) /\ Len(ChunkBody(i)) \in 4 .. 5
           /\ ChunkBody(i)[1] = 0 /\ ChunkBody(i)[2] = 1 /\ ChunkBody(i)[3] = 20 + i
           /\ ChunkBody(i)[4] = 40 + i
           /\ Len(ChunkBody(i)) = 5 => ChunkBody(i)[5] = 60 + i
  <1>1. i \in Nat /\ 20 + i \in Byte /\ 40 + i \in Byte /\ 60 + i \in Byte /\ 0 \in Byte /\ 1 \in Byte
    BY Chunks DEF Byte
  <1> HIDE DEF Byte
  <1> DEFINE front == <<0, 1>> \o <<20 + i>>
             payload == IF i % NumChunks = 0 THEN <<40 + i>> ELSE <<40 + i, 60 + i>>
  <1>2. front \in Seq(Byte) /\ Len(front) = 3 /\ front[1] = 0 /\ front[2] = 1 /\ front[3] = 20 + i
    <2>1. <<0, 1>> \in Seq(Byte) /\ <<20 + i>> \in Seq(Byte) /\ Len(<<0, 1>>) = 2 /\ Len(<<20 + i>>) = 1
      BY <1>1
    <2> QED
      BY <2>1, ConcatProperties
  <1>3. /\ payload \in Seq(Byte) /\ Len(payload) \in 1 .. 2 /\ payload[1] = 40 + i
        /\ Len(payload) = 2 => payload[2] = 60 + i
    BY <1>1
  <1>4. ChunkBody(i) = front \o payload
    BY DEF ChunkBody, Topic
  <1> HIDE DEF front, payload
  <1>5. /\ front \o payload \in Seq(Byte) /\ Len(front \o payload) = 3 + Len(payload)
        /\ \A k \in 1 .. 3 + Len(payload) :
              (front \o payload)[k] = IF k <= 3 THEN front[k] ELSE payload[k - 3]
    <2>1. /\ front \o payload \in Seq(Byte) /\ Len(front \o payload) = Len(front) + Len(payload)
          /\ \A k \in 1 .. Len(front) + Len(payload) :
                (front \o payload)[k] = IF k <= Len(front) THEN front[k] ELSE payload[k - Len(front)]
      BY <1>2, <1>3, ConcatProperties, Zenon
    <2> QED
      BY <1>2, <2>1
  <1>6. /\ (front \o payload)[1] = 0 /\ (front \o payload)[2] = 1 /\ (front \o payload)[3] = 20 + i
        /\ (front \o payload)[4] = 40 + i
        /\ Len(payload) = 2 => (front \o payload)[5] = 60 + i
    BY <1>2, <1>3, <1>5
  <1>7. Len(front \o payload) \in 4 .. 5 /\ (Len(front \o payload) = 5 => Len(payload) = 2)
    BY <1>3, <1>5
  <1> QED
    BY <1>4, <1>5, <1>6, <1>7

\* The packet of chunk i, and how many digits its length has.
ChunkPacket(i) == Packet(PUBLISH, ChunkBody(i))
Wide(i) == Width(Len(ChunkBody(i)))

\* It has only one byte that tells a topic, after the 0 and the 1 of its length: at place
\* Wide(i) + 4.  A payload byte that could be one does not follow a 1.
LEMMA ChunkParts ==
    ASSUME NEW i \in 1 .. N
    PROVE  /\ ChunkPacket(i) \in Seq(Byte) /\ Wide(i) \in 1 .. 3
           /\ Len(ChunkPacket(i)) \in {Wide(i) + 5, Wide(i) + 6}
           /\ Len(ChunkPacket(i)) = Wide(i) + 1 + Len(ChunkBody(i))
           /\ ChunkPacket(i)[1] = PUBLISH /\ ChunkPacket(i)[2] \in Small
           /\ ChunkPacket(i)[Wide(i) + 2] = 0 /\ ChunkPacket(i)[Wide(i) + 3] = 1
           /\ ChunkPacket(i)[Wide(i) + 4] = 20 + i
           /\ \A m \in 2 .. Len(ChunkPacket(i)) :
                 ChunkPacket(i)[m] \in 21 .. 20 + N => m = Wide(i) + 4 \/ (m > Wide(i) + 4 /\ ChunkPacket(i)[m - 1] # 1)
  <1> DEFINE b == ChunkBody(i)
             n == Len(b)
             p == ChunkPacket(i)
             w == Wide(i)
             d == Digits(n)
  <1>1. /\ b \in Seq(Byte) /\ n \in 4 .. 5 /\ b[1] = 0 /\ b[2] = 1 /\ b[3] = 20 + i /\ b[4] = 40 + i
        /\ n = 5 => b[5] = 60 + i
    BY BodyParts
  <1>2. PUBLISH \in Byte /\ n \in 0 .. 5
    BY <1>1 DEF PUBLISH, Byte
  <1>3. /\ p \in Seq(Byte) /\ Len(p) = 1 + w + n /\ p[1] = PUBLISH
        /\ \A m \in 1 .. w : p[1 + m] = d[m]
        /\ \A m \in 1 .. n : p[1 + w + m] = b[m]
        /\ w \in 1 .. 3 /\ \A m \in 1 .. w : d[m] \in Small
    <2>1. p = Packet(PUBLISH, b) /\ w = Width(n) /\ n = Len(b)
      BY DEF ChunkPacket, Wide
    <2> HIDE DEF b, n, p, w, d
    <2>2. IsPacket(p, PUBLISH, n, b)
      BY <1>1, <1>2, <2>1, PacketParts
    <2> QED
      BY <2>1, <2>2 DEF d, IsPacket
  <1> HIDE DEF b, n, p, w, d
  <1>4. p[w + 2] = 0 /\ p[w + 3] = 1 /\ p[w + 4] = 20 + i /\ p[w + 5] = 40 + i /\ (n = 5 => p[w + 6] = 60 + i)
    <2>1. 1 \in 1 .. n /\ 2 \in 1 .. n /\ 3 \in 1 .. n /\ 4 \in 1 .. n /\ (n = 5 => 5 \in 1 .. n)
      BY <1>1
    <2>2. w + 2 = 1 + w + 1 /\ w + 3 = 1 + w + 2 /\ w + 4 = 1 + w + 3 /\ w + 5 = 1 + w + 4 /\ w + 6 = 1 + w + 5
      BY <1>3
    <2> QED
      BY <1>1, <1>3, <2>1, <2>2
  <1>5. \A m \in 2 .. w + 1 : p[m] \in Small
    <2>1. \A m \in 2 .. w + 1 : m - 1 \in 1 .. w /\ 1 + (m - 1) = m
      BY <1>3
    <2> QED
      BY <1>3, <2>1
  <1>6. ASSUME NEW m \in 2 .. Len(p), p[m] \in 21 .. 20 + N
        PROVE  m = w + 4 \/ (m > w + 4 /\ p[m - 1] # 1)
    <2>1. CASE m \in 2 .. w + 1
      BY <1>5, <1>6, <2>1, SmallAreNoTopics
    <2>2. CASE m = w + 2 \/ m = w + 3
      BY <1>4, <1>6, <2>2
    <2>3. CASE m = w + 4
      BY <2>3
    <2>4. CASE m = w + 5
      <3>1. m - 1 = w + 4 /\ m > w + 4
        BY <1>3, <2>4
      <3> QED
        BY <1>4, <3>1
    <2>5. CASE m = w + 6
      <3>1. m - 1 = w + 5 /\ m > w + 4
        BY <1>3, <2>5
      <3> QED
        BY <1>4, <3>1
    <2> QED
      BY <1>1, <1>3, <2>1, <2>2, <2>3, <2>4, <2>5
  <1>7. p[2] \in Small
    BY <1>3, <1>5
  <1>8. Len(p) \in {w + 5, w + 6} /\ Len(p) = w + 1 + n
    BY <1>1, <1>3
  <1> QED
    BY <1>3, <1>4, <1>6, <1>7, <1>8 DEF b, n, p, w

\* The packet of mqttConnect.
ConnectPacket == Packet(CONNECT, ConnectBody)

\* The CONNECT packet has no byte that tells a chunk.
LEMMA ConnectParts ==
    /\ ConnectPacket \in Seq(Byte) /\ Len(ConnectPacket) \in 4 .. 6
    /\ ConnectPacket[1] = CONNECT /\ ConnectPacket[2] \in Small
    /\ \A m \in 2 .. Len(ConnectPacket) : ConnectPacket[m] \notin 21 .. 20 + N
  <1> DEFINE p == ConnectPacket
             w == Width(2)
             d == Digits(2)
  <1>1. /\ ConnectBody \in Seq(Byte) /\ 2 = Len(ConnectBody) /\ 2 \in 0 .. 5
        /\ ConnectBody[1] = 90 /\ ConnectBody[2] = 91 /\ CONNECT \in Byte
    BY DEF ConnectBody, CONNECT, Byte
  <1>2. /\ p \in Seq(Byte) /\ Len(p) = 1 + w + 2 /\ p[1] = CONNECT
        /\ \A m \in 1 .. w : p[1 + m] = d[m]
        /\ \A m \in 1 .. 2 : p[1 + w + m] = ConnectBody[m]
        /\ w \in 1 .. 3 /\ \A m \in 1 .. w : d[m] \in Small
    <2>1. p = Packet(CONNECT, ConnectBody)
      BY DEF ConnectPacket
    <2>2. IsPacket(Packet(CONNECT, ConnectBody), CONNECT, Len(ConnectBody), ConnectBody)
      BY <1>1, PacketParts
    <2> HIDE DEF p
    <2> QED
      BY <1>1, <2>1, <2>2 DEF IsPacket
  <1> HIDE DEF p, w, d
  <1>3. \A m \in 2 .. w + 1 : p[m] \in Small
    <2>1. \A m \in 2 .. w + 1 : m - 1 \in 1 .. w /\ 1 + (m - 1) = m
      BY <1>2
    <2> QED
      BY <1>2, <2>1
  <1>4. p[w + 2] = 90 /\ p[w + 3] = 91
    <2>1. w + 2 = 1 + w + 1 /\ w + 3 = 1 + w + 2
      BY <1>2
    <2> QED
      BY <1>1, <1>2, <2>1
  <1>5. ASSUME NEW m \in 2 .. Len(p) PROVE p[m] \notin 21 .. 20 + N
    <2>1. CASE m \in 2 .. w + 1
      BY <1>3, <2>1, SmallAreNoTopics
    <2>2. CASE m = w + 2 \/ m = w + 3
      BY <1>4, <2>2, Chunks
    <2> QED
      BY <1>2, <2>1, <2>2
  <1>6. Len(p) \in 4 .. 6 /\ p[2] \in Small
    BY <1>2, <1>3
  <1> QED
    BY <1>2, <1>5, <1>6 DEF p

(***************************************************************************)
(* Types.  They need more than themselves: what is sent is a packet only   *)
(* while there is something to send.                                       *)
(***************************************************************************)
TypeInv ==
    /\ LoopInv
    /\ buf \in Seq(Byte) /\ Len(buf) >= 12
    /\ \A t \in Thread : size[t] <= 9
    /\ holder = {t \in Thread : pc[t] = "blocked"} /\ \A t, u \in holder : t = u
    /\ isconnected \in BOOLEAN /\ torn \in BOOLEAN /\ task \in {"none", "connect", "chunk"}
    /\ chunk \in 0 .. N /\ retrying \subseteq Background
    /\ pings \in 0 .. MaxPings /\ connection \in 1 .. MaxConnections
    /\ stream \in Seq(Byte)
    /\ pc[FSM] = "idle" <=> task = "none"
    /\ task = "chunk" => chunk < N

\* What a thread that serialises wants to send.
LEMMA WantedParts ==
    ASSUME TypeInv, NEW t \in Thread, pc[t] # "idle"
    PROVE  /\ Wanted(t) \in Seq(Byte) /\ Len(Wanted(t)) \in 2 .. 9
           /\ Wanted(t)[1] \in Headers /\ Wanted(t)[2] \in Small
           /\ t # FSM => Wanted(t) = <<12, 0>>
           /\ t = FSM /\ task = "connect" => Wanted(t) = ConnectPacket
           /\ t = FSM /\ task = "chunk" => chunk + 1 \in 1 .. N /\ Wanted(t) = ChunkPacket(chunk + 1)
           /\ t = FSM => task = "connect" \/ task = "chunk"
  <1>1. CASE t # FSM
    <2>1. Wanted(t) = <<12, 0>>
      BY <1>1 DEF Wanted, PINGREQ
    <2>2. 12 \in Byte /\ 0 \in Byte /\ 12 \in Headers /\ 0 \in Small
      BY DEF Byte, Headers, Small, PINGREQ
    <2> HIDE DEF Byte, Headers, Small
    <2> QED
      BY <1>1, <2>1, <2>2
  <1>2. CASE t = FSM /\ task = "connect"
    <2>1. Wanted(t) = ConnectPacket /\ CONNECT \in Headers
      BY <1>2 DEF Wanted, ConnectPacket, Headers
    <2>2. \A k \in 4 .. 6 : k \in 2 .. 9
      OBVIOUS
    <2> QED
      BY <1>2, <2>1, <2>2, ConnectParts
  <1>3. CASE t = FSM /\ task = "chunk"
    <2>1. Wanted(t) = ChunkPacket(chunk + 1) /\ PUBLISH \in Headers
      BY <1>3 DEF Wanted, ChunkPacket, Headers
    <2>2. chunk + 1 \in 1 .. N
      BY <1>3, Chunks DEF TypeInv
    <2>3. \A w \in 1 .. 3 : {w + 5, w + 6} \subseteq 2 .. 9
      OBVIOUS
    <2>4. /\ ChunkPacket(chunk + 1) \in Seq(Byte) /\ Len(ChunkPacket(chunk + 1)) \in 2 .. 9
          /\ ChunkPacket(chunk + 1)[1] = PUBLISH /\ ChunkPacket(chunk + 1)[2] \in Small
      BY <2>2, <2>3, ChunkParts
    <2> QED
      BY <1>3, <2>1, <2>2, <2>4
  <1> QED
    BY <1>1, <1>2, <1>3 DEF TypeInv

\* Writing bytes over others in the buffer.
LEMMA OverParts ==
    ASSUME TypeInv, NEW p \in 1 .. 3, NEW s \in Seq(Byte), Len(s) <= 9
    PROVE  /\ Over(p, s) \in Seq(Byte) /\ Len(Over(p, s)) = Len(buf)
           /\ \A i \in 1 .. Len(buf) :
                 Over(p, s)[i] = IF i \in p .. p + Len(s) - 1 THEN s[i - p + 1] ELSE buf[i]
  <1> DEFINE n == Len(buf)
             k == Len(s)
             over == [i \in 1 .. n |-> IF i \in p .. p + k - 1 THEN s[i - p + 1] ELSE buf[i]]
  <1>1. buf \in Seq(Byte) /\ n \in Nat /\ k \in Nat
    BY LenProperties DEF TypeInv
  <1>2. Over(p, s) = over
    BY DEF Over
  <1>3. ASSUME NEW i \in 1 .. n PROVE over[i] \in Byte
    <2>1. CASE i \in p .. p + k - 1
      <3>1. i - p + 1 \in 1 .. k
        BY <1>1, <2>1
      <3>2. s[i - p + 1] \in Byte
        BY <3>1, ElementOfSeq
      <3> QED
        BY <2>1, <3>2
    <2>2. CASE i \notin p .. p + k - 1
      BY <1>1, <2>2, ElementOfSeq
    <2> QED
      BY <2>1, <2>2
  <1>4. over \in Seq(Byte) /\ Len(over) = n
    <2>1. DOMAIN over = 1 .. n /\ over = [i \in 1 .. n |-> over[i]]
      OBVIOUS
    <2> HIDE DEF over, n, Byte
    <2>2. over \in [1 .. n -> Byte]
      BY <1>3, <2>1, Zenon
    <2>3. \A S : \A f \in [1 .. n -> S] : f \in Seq(S) /\ Len(f) = n
      BY <1>1
    <2> QED
      BY <2>2, <2>3, Zenon
  <1> QED
    BY <1>2, <1>4

\* Bytes of the buffer appended to those of the connection.
LEMMA Taken ==
    ASSUME NEW s \in Seq(Byte), NEW b \in Seq(Byte), NEW d \in Nat, NEW n \in Nat, d + n <= Len(b),
           NEW r, r = s \o SubSeq(b, d + 1, d + n)
    PROVE  /\ r \in Seq(Byte) /\ Len(r) = Len(s) + n
           /\ \A k \in 1 .. Len(s) : r[k] = s[k]
           /\ \A k \in 1 .. n : r[Len(s) + k] = b[d + k]
  <1> DEFINE u == SubSeq(b, d + 1, d + n)
             l == Len(s)
  <1>0. Len(b) \in Nat /\ l \in Nat
    BY LenProperties
  <1>1. /\ u \in Seq(Byte) /\ Len(u) = n /\ \A k \in 1 .. n : u[k] = b[d + k]
    <2>1. d + 1 \in Int /\ d + n \in Int /\ \A k \in d + 1 .. d + n : b[k] \in Byte
      <3>1. \A k \in d + 1 .. d + n : k \in 1 .. Len(b)
        BY <1>0
      <3> QED
        BY <3>1, ElementOfSeq
    <2>2. /\ u \in Seq(Byte) /\ Len(u) = IF d + 1 <= d + n THEN (d + n) - (d + 1) + 1 ELSE 0
          /\ \A k \in 1 .. (d + n) - (d + 1) + 1 : u[k] = b[(d + 1) + k - 1]
      BY <2>1, SubSeqProperties
    <2> HIDE DEF u
    <2>3. (d + n) - (d + 1) + 1 = n /\ \A k \in 1 .. n : (d + 1) + k - 1 = d + k
      OBVIOUS
    <2>4. Len(u) = n
      BY <2>2
    <2> QED
      BY <2>2, <2>3, <2>4
  <1> HIDE DEF u, l
  <1>2. r = s \o u /\ l = Len(s)
    BY DEF u, l
  <1>3. /\ s \o u \in Seq(Byte) /\ Len(s \o u) = Len(s) + Len(u)
        /\ \A k \in 1 .. Len(s) + Len(u) : (s \o u)[k] = IF k <= Len(s) THEN s[k] ELSE u[k - Len(s)]
    BY <1>1, ConcatProperties, Zenon
  <1>4. /\ r \in Seq(Byte) /\ Len(r) = l + n
        /\ \A k \in 1 .. l + n : r[k] = IF k <= l THEN s[k] ELSE u[k - l]
    BY <1>1, <1>2, <1>3
  <1>5. ASSUME NEW k \in 1 .. l PROVE r[k] = s[k]
    <2>1. k \in 1 .. l + n /\ k <= l
      BY <1>0
    <2> QED
      BY <1>4, <2>1
  <1>6. ASSUME NEW k \in 1 .. n PROVE r[l + k] = b[d + k]
    <2>1. l + k \in 1 .. l + n /\ ~ (l + k <= l) /\ (l + k) - l = k
      BY <1>0
    <2> DEFINE j == l + k
    <2> HIDE DEF j
    <2>2. r[j] = u[k]
      BY <1>4, <2>1 DEF j
    <2> QED
      BY <1>1, <2>2 DEF j
  <1> QED
    BY <1>2, <1>4, <1>5, <1>6

\* A step of a thread outside send() changes neither who is inside nor the task of others.
LEMMA OutsideStep ==
    ASSUME TypeInv, NEW t \in Thread, NEW from, NEW to, Step(t, from, to),
           from # "blocked", to # "blocked"
    PROVE  /\ holder = {u \in Thread : pc'[u] = "blocked"}
           /\ pc'[FSM] = IF t = FSM THEN to ELSE pc[FSM]
           /\ pc[t] = from
  BY Constants DEF TypeInv, LoopInv, Step

\* Serialising in any thread keeps the types.
LEMMA SerializeKeepsTypes ==
    ASSUME TypeInv, LoopInv', NEW t \in Thread, Serialize(t)
    PROVE  TypeInv'
  <1> USE DEF netVars, taskVars, pingVars
  <1>1. pc[t] # "idle"
    BY DEF Serialize, WriteHeader, WriteLength, WriteRest, Step
  <1>2. /\ Wanted(t) \in Seq(Byte) /\ Len(Wanted(t)) \in 2 .. 9
        /\ Wanted(t)[1] \in Headers /\ Wanted(t)[2] \in Small
    BY <1>1, WantedParts
  <1>3. Headers \subseteq Byte /\ Small \subseteq Byte
    BY DEF Headers, Small, Byte, CONNECT, PUBLISH, PINGREQ
  <1>4. /\ UNCHANGED <<netVars, taskVars, pingVars>>
        /\ \E from, to \in Places \ {"idle", "blocked"} : Step(t, from, to)
    BY DEF Serialize, WriteHeader, WriteLength, WriteRest, Places, taskVars
  <1>5. /\ holder' = {u \in Thread : pc'[u] = "blocked"}
        /\ pc'[FSM] = "idle" <=> task = "none"
    BY <1>1, <1>4, OutsideStep DEF TypeInv
  <1>6. ASSUME NEW p \in 1 .. 3, NEW s \in Seq(Byte), Len(s) <= 9, buf' = Over(p, s)
        PROVE  buf' \in Seq(Byte) /\ Len(buf') >= 12
    BY <1>6, OverParts DEF TypeInv
  <1>7. <<Wanted(t)[1]>> \in Seq(Byte) /\ <<Wanted(t)[2]>> \in Seq(Byte)
        /\ Len(<<Wanted(t)[1]>>) = 1 /\ Len(<<Wanted(t)[2]>>) = 1
    BY <1>2, <1>3
  <1> DEFINE rest == SubSeq(Wanted(t), 3, Len(Wanted(t)))
  <1>8. rest \in Seq(Byte) /\ Len(rest) <= 9
    <2> DEFINE w == Wanted(t)
    <2> HIDE DEF w
    <2>1. w \in Seq(Byte) /\ Len(w) \in 2 .. 9
      BY <1>2 DEF w
    <2>2. 3 \in Int /\ Len(w) \in Int /\ \A k \in 3 .. Len(w) : w[k] \in Byte
      BY <2>1, ElementOfSeq
    <2>3. SubSeq(w, 3, Len(w)) \in Seq(Byte)
          /\ Len(SubSeq(w, 3, Len(w))) = IF 3 <= Len(w) THEN Len(w) - 3 + 1 ELSE 0
      BY <2>2, SubSeqProperties
    <2> QED
      BY <2>1, <2>3 DEF w
  <1> HIDE DEF rest
  <1>9. buf' \in Seq(Byte) /\ Len(buf') >= 12
    <2>1. buf' = Over(1, <<Wanted(t)[1]>>) \/ buf' = Over(2, <<Wanted(t)[2]>>) \/ buf' = Over(3, rest)
      BY DEF Serialize, WriteHeader, WriteLength, WriteRest, rest
    <2>2. 1 \in 1 .. 3 /\ 2 \in 1 .. 3 /\ 3 \in 1 .. 3 /\ 1 <= 9
      OBVIOUS
    <2> QED
      BY <1>6, <1>7, <1>8, <2>1, <2>2
  <1>10. \A u \in Thread : size'[u] <= 9
    <2>1. CASE WriteHeader(t) \/ WriteLength(t)
      BY <2>1 DEF WriteHeader, WriteLength, TypeInv
    <2>2. CASE WriteRest(t)
      <3>1. size' = [size EXCEPT ![t] = Len(Wanted(t))] /\ size \in [Thread -> Nat]
        BY <2>2 DEF WriteRest, TypeInv, LoopInv
      <3>2. Len(Wanted(t)) <= 9
        <4>1. \A n \in 2 .. 9 : n <= 9
          OBVIOUS
        <4> QED
          BY <1>2, <4>1
      <3> QED
        BY <3>1, <3>2 DEF TypeInv
    <2> QED
      BY <2>1, <2>2 DEF Serialize
  <1> QED
    BY <1>4, <1>5, <1>9, <1>10 DEF TypeInv

\* sendPacket in any thread keeps the types.
LEMMA SendPacketKeepsTypes ==
    ASSUME TypeInv, LoopInv', NEW t \in Thread, SendPacket(t)
    PROVE  TypeInv'
  <1> USE DEF netVars, taskVars, pingVars
  <1>1. pc \in [Thread -> Places] /\ UNCHANGED <<buf, size, taskVars, pingVars, connection>>
    BY DEF SendPacket, TestLoop, Send, EndSend, SendFails, TypeInv, LoopInv
  <1>2. CASE TestLoop(t) \/ SendFails(t)
    <2>1. /\ UNCHANGED <<holder, stream, torn>>
          /\ \E from, to \in Places \ {"idle", "blocked"} : Step(t, from, to)
      BY <1>2 DEF TestLoop, SendFails, Places
    <2>2. /\ holder' = {u \in Thread : pc'[u] = "blocked"}
          /\ pc'[FSM] = "idle" <=> task = "none"
      BY <2>1, OutsideStep DEF TypeInv
    <2> QED
      BY <1>1, <2>1, <2>2 DEF TypeInv
  <1>3. ASSUME NEW n \in Nat, done[t] + n <= size[t],
               stream' = stream \o SubSeq(buf, done[t] + 1, done[t] + n)
        PROVE  stream' \in Seq(Byte)
    <2>1. done[t] \in Nat /\ size[t] \in Nat /\ size[t] <= 9 /\ buf \in Seq(Byte) /\ Len(buf) >= 12
          /\ stream \in Seq(Byte) /\ Len(buf) \in Nat
      BY LenProperties DEF TypeInv, LoopInv
    <2>2. done[t] + n <= Len(buf)
      BY <1>3, <2>1
    <2> QED
      BY <1>3, <2>1, <2>2, Taken
  <1>4. done[t] \in Nat /\ size[t] \in Nat
    BY DEF TypeInv, LoopInv
  <1>5. CASE Send(t)
    <2>1. PICK n \in Stops(size[t]) : stream' = stream \o SubSeq(buf, done[t] + 1, done[t] + n)
      BY <1>5 DEF Send
    <2>2. n \in Nat /\ done[t] + n <= size[t]
      <3>1. done[t] = 0
        BY <1>5 DEF Send, Step, TypeInv, LoopInv, Loop
      <3>2. n \in 0 .. size[t]
        BY <2>1 DEF Stops
      <3> QED
        BY <1>4, <3>1, <3>2
    <2>3. stream' \in Seq(Byte)
      BY <1>3, <2>1, <2>2
    <2>4. /\ holder = {} /\ holder' = {t} /\ UNCHANGED torn
          /\ pc[t] = "send" /\ pc' = [pc EXCEPT ![t] = "blocked"]
      BY <1>5 DEF Send, Step
    <2>5. holder' = {u \in Thread : pc'[u] = "blocked"} /\ \A u, v \in holder' : u = v
      BY <1>1, <2>4 DEF TypeInv
    <2>6. pc'[FSM] = "idle" <=> task = "none"
      BY <1>1, <2>4, Constants DEF TypeInv
    <2> QED
      BY <1>1, <2>3, <2>4, <2>5, <2>6 DEF TypeInv
  <1>6. CASE EndSend(t)
    <2>1. PICK i \in Stops(size[t]) :
             /\ i >= done[t]
             /\ stream' = stream \o SubSeq(buf, done[t] + 1, done[t] + (i - done[t]))
             /\ torn' = (torn \/ (t = FSM /\ done[t] + (i - done[t]) \in 1 .. size[t] - 1))
      BY <1>6 DEF EndSend
    <2>2. i - done[t] \in Nat /\ done[t] + (i - done[t]) <= size[t]
      <3>1. i \in 0 .. size[t]
        BY <2>1 DEF Stops
      <3>2. \A d, k, z \in Nat : k <= z /\ k >= d => k - d \in Nat /\ d + (k - d) <= z
        OBVIOUS
      <3> QED
        BY <1>4, <2>1, <3>1, <3>2
    <2>3. stream' \in Seq(Byte) /\ torn' \in BOOLEAN
      BY <1>3, <2>1, <2>2
    <2>4. holder' = {} /\ pc[t] = "blocked" /\ pc' = [pc EXCEPT ![t] = "write"]
      BY <1>6 DEF EndSend, Step
    <2>5. t \in holder /\ \A u \in Thread : pc[u] = "blocked" => u = t
      BY <2>4 DEF TypeInv
    <2>6. holder' = {u \in Thread : pc'[u] = "blocked"} /\ \A u, v \in holder' : u = v
      BY <1>1, <2>4, <2>5
    <2>7. pc'[FSM] = "idle" <=> task = "none"
      BY <1>1, <2>4, Constants DEF TypeInv
    <2> QED
      BY <1>1, <2>3, <2>4, <2>6, <2>7 DEF TypeInv
  <1> QED
    BY <1>2, <1>5, <1>6 DEF SendPacket

\* The actions of the background threads outside sendPacket keep the types.
LEMMA PingKeepsTypes ==
    ASSUME TypeInv, LoopInv', NEW t \in Background, BeginPing(t) \/ RetryPing(t) \/ EndPing(t)
    PROVE  TypeInv'
  <1> USE DEF netVars, taskVars, pingVars
  <1>1. t \in Thread /\ t # FSM
    BY Constants
  <1>2. \E from, to \in Places \ {"blocked"} : Step(t, from, to)
    BY DEF BeginPing, RetryPing, EndPing, Finish, Places
  <1>3. UNCHANGED <<buf, holder, connection, stream, torn, task, chunk>>
    BY DEF BeginPing, RetryPing, EndPing
  <1>4. /\ holder' = {u \in Thread : pc'[u] = "blocked"}
        /\ pc'[FSM] = "idle" <=> task = "none"
    BY <1>1, <1>2, <1>3, OutsideStep DEF TypeInv
  <1>5. retrying' \subseteq Background /\ pings' \in 0 .. MaxPings
    BY Chunks DEF BeginPing, RetryPing, EndPing, TypeInv
  <1>6. isconnected' \in BOOLEAN
    <2>1. isconnected' = isconnected \/ isconnected' = (isconnected /\ t \notin retrying /\ done[t] = size[t])
      BY DEF BeginPing, RetryPing, EndPing
    <2> QED
      BY <2>1 DEF TypeInv
  <1>7. \A u \in Thread : size'[u] <= 9
    <2>1. size \in [Thread -> Nat] /\ (size' = size \/ size' = [size EXCEPT ![t] = 0])
      BY DEF BeginPing, RetryPing, EndPing, Finish, TypeInv, LoopInv
    <2> QED
      BY <2>1 DEF TypeInv
  <1> QED
    BY <1>3, <1>4, <1>5, <1>6, <1>7 DEF TypeInv

\* Images are uploaded whole.
LEMMA WithinImage ==
    ASSUME NEW k \in 0 .. N, k < N
    PROVE  k + 1 \in 0 .. N /\ (k % NumChunks = 0 => k + NumChunks \in 0 .. N)
  <1>1. k + 1 \in 0 .. N
    BY Chunks
  <1>2. ASSUME k % NumChunks = 0 PROVE k + NumChunks \in 0 .. N
    <2>1. PICK q \in Nat : k = NumChunks * q
      <3>1. k \div NumChunks \in Nat /\ k = NumChunks * (k \div NumChunks) + (k % NumChunks)
        BY Chunks, SMTT(30)
      <3> DEFINE q == k \div NumChunks
      <3>2. NumChunks * q \in Nat
        BY <3>1, Chunks, SMTT(30)
      <3> HIDE DEF q
      <3>3. k = NumChunks * q /\ q \in Nat
        BY <1>2, <3>1, <3>2 DEF q
      <3> QED
        BY <3>3
    <2>2. q < NumImages
      <3>1. ASSUME q >= NumImages PROVE FALSE
        <4>1. NumChunks * q >= NumChunks * NumImages
          BY <2>1, <3>1, Chunks, SMTT(30)
        <4>2. NumChunks * NumImages = N
          BY Chunks, SMTT(30) DEF N
        <4> QED
          BY <2>1, <4>1, <4>2, Chunks
      <3> QED
        BY <2>1, <3>1, Chunks
    <2>3. k + NumChunks <= N
      <3>1. q + 1 <= NumImages
        BY <2>1, <2>2, Chunks
      <3>2. NumChunks * (q + 1) <= NumChunks * NumImages
        BY <2>1, <3>1, Chunks, SMTT(30)
      <3>3. NumChunks * (q + 1) = NumChunks * q + NumChunks /\ NumChunks * NumImages = N
        BY <2>1, Chunks, SMTT(30) DEF N
      <3> QED
        BY <2>1, <3>2, <3>3
    <2> QED
      BY <2>3, Chunks
  <1> QED
    BY <1>1, <1>2

\* The actions of the task outside serialising and sendPacket keep the types.
LEMMA TaskKeepsTypes ==
    ASSUME TypeInv, LoopInv',
           Reconnect \/ EndConnect \/ Discard \/ BeginPublish \/ FailPublish \/ EndPublish
    PROVE  TypeInv'
  <1> USE DEF netVars, taskVars, pingVars, threadVars
  <1>0. /\ FSM \in Thread /\ pc \in [Thread -> Places] /\ size \in [Thread -> Nat] /\ chunk \in 0 .. N
        /\ N \in Nat /\ NumChunks \in Nat \ {0}
    BY Constants, Chunks DEF TypeInv, LoopInv
  <1>1. CASE Reconnect
    <2>1. /\ holder' = {} /\ holder = {t \in Thread : pc[t] = "blocked"}
          /\ pc' = [t \in Thread |-> IF t = FSM THEN "header"
                                     ELSE IF t \in holder THEN "sent" ELSE pc[t]]
          /\ task' = "connect" /\ torn' = FALSE /\ stream' = <<>>
          /\ UNCHANGED <<buf, size, isconnected, chunk, pingVars>>
      BY <1>1 DEF Reconnect, TypeInv
    <2>2. holder' = {u \in Thread : pc'[u] = "blocked"} /\ pc'[FSM] = "header"
      BY <1>0, <2>1
    <2>3. connection' \in 1 .. MaxConnections
      BY <1>1, Chunks DEF Reconnect, TypeInv
    <2>4. stream' \in Seq(Byte)
      BY <2>1, EmptySeq
    <2> QED
      BY <2>1, <2>2, <2>3, <2>4 DEF TypeInv
  <1>2. CASE EndConnect \/ EndPublish
    <2>1. /\ Step(FSM, "sent", "idle") /\ size' = [size EXCEPT ![FSM] = 0] /\ task' = "none"
          /\ UNCHANGED <<buf, netVars, pingVars>>
          /\ chunk' = chunk \/ (task = "chunk" /\ chunk' = chunk + 1)
      BY <1>2 DEF EndConnect, EndPublish, Finish
    <2>2. holder' = {u \in Thread : pc'[u] = "blocked"} /\ pc'[FSM] = "idle"
      BY <1>0, <2>1, OutsideStep
    <2>3. isconnected' \in BOOLEAN
      BY <1>2 DEF EndConnect, EndPublish, TypeInv
    <2>4. chunk' \in 0 .. N
      BY <1>0, <2>1 DEF TypeInv
    <2>5. \A u \in Thread : size'[u] <= 9
      BY <1>0, <2>1 DEF TypeInv
    <2> QED
      BY <2>1, <2>2, <2>3, <2>4, <2>5 DEF TypeInv
  <1>3. CASE BeginPublish
    <2>1. /\ Step(FSM, "idle", "header") /\ task' = "chunk" /\ chunk < N
          /\ UNCHANGED <<buf, size, netVars, pingVars, isconnected, chunk>>
      BY <1>3 DEF BeginPublish, MoreChunks, N
    <2>2. holder' = {u \in Thread : pc'[u] = "blocked"} /\ pc'[FSM] = "header"
      BY <1>0, <2>1, OutsideStep
    <2> QED
      BY <2>1, <2>2 DEF TypeInv
  <1>4. CASE Discard
    <2>1. /\ UNCHANGED <<buf, threadVars, netVars, isconnected, task, pingVars>> /\ task = "none"
          /\ chunk' = chunk + NumChunks /\ chunk % NumChunks = 0 /\ chunk < N
      BY <1>4 DEF Discard, MoreChunks, BetweenImages, N
    <2>2. chunk' \in 0 .. N
      BY <1>0, <2>1, WithinImage
    <2> QED
      BY <2>1, <2>2 DEF TypeInv
  <1>5. CASE FailPublish
    <2>1. /\ UNCHANGED <<buf, threadVars, netVars, isconnected, task, pingVars>> /\ task = "none"
          /\ chunk' = chunk + 1 /\ chunk % NumChunks # 0
      BY <1>5 DEF FailPublish, BetweenImages
    <2>2. chunk # N
      <3>1. NumImages \in Nat
        BY Chunks
      <3>2. N % NumChunks = 0
        BY <1>0, <3>1, SMTT(30) DEF N
      <3> QED
        BY <2>1, <3>2
    <2>3. chunk' \in 0 .. N
      BY <1>0, <2>1, <2>2, WithinImage
    <2> QED
      BY <2>1, <2>3 DEF TypeInv
  <1> QED
    BY <1>1, <1>2, <1>3, <1>4, <1>5

\* Every step keeps the types.
LEMMA TypeInvStep == TypeInv /\ [Next]_vars => TypeInv'
  <1> SUFFICES ASSUME TypeInv, [Next]_vars PROVE TypeInv'
    OBVIOUS
  <1>1. LoopInv'
    BY LoopInvStep DEF TypeInv
  <1>2. CASE \E t \in Background : KeepAlive(t)
    BY <1>1, <1>2, SerializeKeepsTypes, SendPacketKeepsTypes, PingKeepsTypes, Constants DEF KeepAlive
  <1>3. CASE SessionCloses
    BY <1>1, <1>3 DEF SessionCloses, TypeInv, threadVars, netVars, pingVars
  <1>4. CASE Task
    BY <1>1, <1>4, SerializeKeepsTypes, SendPacketKeepsTypes, TaskKeepsTypes, Constants DEF Task
  <1>5. CASE UNCHANGED vars
    BY <1>1, <1>5 DEF vars, TypeInv, threadVars, netVars, taskVars, pingVars
  <1> QED
    BY <1>2, <1>3, <1>4, <1>5 DEF Next

\* The types hold at first: a session has been set up.
LEMMA TypeInvInit == Init => TypeInv
  <1> SUFFICES ASSUME Init PROVE TypeInv
    OBVIOUS
  <1>1. LoopInv
    BY DEF Init, LoopInv, Loop, Places
  <1>2. ConnectPacket \in Seq(Byte) /\ Len(ConnectPacket) \in 4 .. 6
    BY ConnectParts
  <1> DEFINE pad == [i \in 1 .. 8 |-> 0]
  <1>3. pad \in Seq(Byte) /\ Len(pad) = 8
    BY DEF Byte
  <1> HIDE DEF pad
  <1>4. buf = ConnectPacket \o pad /\ stream = ConnectPacket
    BY DEF Init, ConnectPacket, pad
  <1>5. buf \in Seq(Byte) /\ Len(buf) = Len(ConnectPacket) + 8
    <2>1. ConnectPacket \o pad \in Seq(Byte) /\ Len(ConnectPacket \o pad) = Len(ConnectPacket) + Len(pad)
      BY <1>2, <1>3, ConcatProperties, Zenon
    <2> QED
      BY <1>3, <1>4, <2>1
  <1>6. Len(buf) >= 12
    <2>1. \A n \in 4 .. 6 : n + 8 >= 12
      OBVIOUS
    <2> QED
      BY <1>2, <1>5, <2>1
  <1>7. FSM \in Thread /\ N \in Nat /\ MaxConnections \in Nat \ {0} /\ MaxPings \in Nat
    BY Constants, Chunks
  <1>8. /\ \A t \in Thread : size[t] <= 9
        /\ holder = {t \in Thread : pc[t] = "blocked"} /\ \A t, u \in holder : t = u
        /\ pc[FSM] = "idle" /\ task = "none"
    BY <1>7 DEF Init
  <1>9. /\ isconnected \in BOOLEAN /\ torn \in BOOLEAN /\ chunk \in 0 .. N /\ retrying \subseteq Background
        /\ pings \in 0 .. MaxPings /\ connection \in 1 .. MaxConnections
    <2>1. {0, 1} \subseteq Nat /\ 0 \in 0 .. N /\ 0 \in 0 .. MaxPings /\ 1 \in 1 .. MaxConnections
      BY <1>7
    <2>2. /\ isconnected = TRUE /\ torn = FALSE /\ chunk = 0 /\ retrying = {} /\ pings = 0
          /\ connection = 1
      BY DEF Init
    <2> QED
      BY <2>1, <2>2
  <1> QED
    BY <1>1, <1>2, <1>4, <1>5, <1>6, <1>8, <1>9 DEF TypeInv

\* Whatever the threads do, the buffer holds bytes, a packet fits into it, no more is sent than
\* the packet has, and at most one thread is inside send().
THEOREM SendPathTypes == Spec => []TypeOK
  <1>1. TypeInv => TypeOK
    <2> SUFFICES ASSUME TypeInv PROVE TypeOK
      OBVIOUS
    <2>1. /\ \A i \in 1 .. Len(buf) : buf[i] \in Byte
          /\ \A i \in 1 .. Len(stream) : stream[i] \in Byte
      BY ElementOfSeq DEF TypeInv
    <2>2. \A t \in Thread : done[t] \in 0 .. size[t] /\ size[t] <= Len(buf)
      <3>1. Len(buf) \in Nat /\ Len(buf) >= 12
        BY LenProperties DEF TypeInv
      <3> QED
        BY <3>1 DEF TypeInv, LoopInv, Loop
    <2> QED
      BY <2>1, <2>2 DEF TypeInv, TypeOK, LoopInv, Places, Byte, N
  <1> QED
    BY <1>1, TypeInvInit, TypeInvStep, PTL DEF Spec

(***************************************************************************)
(* What is in the buffer.  Header and length may be those of another       *)
(* thread, but what the task has written from place 3 on stays there until *)
(* it is sent, for a PINGREQ ends before that place.                       *)
(***************************************************************************)
Sending == {"write", "send", "blocked", "sent"}

BufInv ==
    /\ buf[1] \in Headers /\ buf[2] \in Small
    /\ pc[FSM] \in Sending \union {"rest"} => buf[2] \in {0, Wanted(FSM)[2]}
    /\ pc[FSM] \in Sending => /\ size[FSM] = Len(Wanted(FSM))
                              /\ \A m \in 3 .. size[FSM] : buf[m] = Wanted(FSM)[m]
    /\ \A t \in Background : pc[t] \in Sending => size[t] = 2

\* A write cut short is the last of the task until it has a new connection.
TaskInv ==
    /\ pc[FSM] \notin Sending => done[FSM] = 0
    /\ torn => \/ pc[FSM] \in {"write", "sent"} /\ done[FSM] \in 1 .. size[FSM] - 1
               \/ task = "none" /\ ~ isconnected

\* One byte written over another.
LEMMA OverByte ==
    ASSUME TypeInv, NEW p \in 1 .. 2, NEW x \in Byte
    PROVE  Over(p, <<x>>)[p] = x /\ \A i \in 1 .. Len(buf) : i # p => Over(p, <<x>>)[i] = buf[i]
  <1> HIDE DEF Byte
  <1>1. <<x>> \in Seq(Byte) /\ Len(<<x>>) = 1 /\ <<x>>[1] = x /\ 1 <= 9 /\ p \in 1 .. 3
    OBVIOUS
  <1> DEFINE s == <<x>>
             n == Len(buf)
  <1>2. n \in Nat /\ n >= 12
    BY LenProperties DEF TypeInv
  <1> HIDE DEF s, n
  <1>3. \A i \in 1 .. n : Over(p, s)[i] = IF i \in p .. p + 1 - 1 THEN s[i - p + 1] ELSE buf[i]
    BY <1>1, OverParts DEF s, n
  <1>4. p \in 1 .. n /\ p \in p .. p + 1 - 1 /\ p - p + 1 = 1
    BY <1>2
  <1>5. Over(p, s)[p] = x
    BY <1>1, <1>3, <1>4 DEF s
  <1>6. \A i \in 1 .. n : i # p => i \notin p .. p + 1 - 1
    BY <1>2
  <1> QED
    BY <1>3, <1>5, <1>6 DEF s, n

\* Serialising in any thread keeps what belongs to the task.
LEMMA SerializeKeepsBuffer ==
    ASSUME TypeInv, BufInv, NEW t \in Thread, Serialize(t)
    PROVE  BufInv'
  <1> DEFINE w == Wanted(t)
             n == Len(buf)
  <1>0. /\ FSM \in Thread /\ Background \subseteq Thread /\ FSM \notin Background
        /\ pc \in [Thread -> Places] /\ size \in [Thread -> Nat]
        /\ n \in Nat /\ n >= 12
    BY Constants, LenProperties DEF TypeInv, LoopInv
  <1>1. /\ w \in Seq(Byte) /\ Len(w) \in 2 .. 9 /\ w[1] \in Headers /\ w[2] \in Small
        /\ t # FSM => w = <<12, 0>>
    BY WantedParts DEF Serialize, WriteHeader, WriteLength, WriteRest, Step
  <1>2. Wanted(FSM)' = Wanted(FSM)
    BY DEF Serialize, WriteHeader, WriteLength, WriteRest, taskVars, Wanted, ChunkBody, Topic
  <1>3. \A m \in 3 .. 9 : m \in 1 .. n /\ m # 1 /\ m # 2
    BY <1>0
  <1>4. 1 \in 1 .. n /\ 2 \in 1 .. n
    BY <1>0
  <1>5. pc[FSM] \in Sending => size[FSM] <= 9
    BY <1>0 DEF TypeInv
  <1>6. w[1] \in Byte /\ w[2] \in Byte
    BY <1>1 DEF Headers, Small, Byte, CONNECT, PUBLISH, PINGREQ
  <1> HIDE DEF w, n
  <1>7. CASE WriteHeader(t)
    <2>1. pc[t] = "header" /\ pc' = [pc EXCEPT ![t] = "length"] /\ size' = size /\ buf' = Over(1, <<w[1]>>)
      BY <1>7 DEF WriteHeader, Step, w
    <2>2. buf'[1] = w[1] /\ \A i \in 1 .. n : i # 1 => buf'[i] = buf[i]
      BY <1>6, <2>1, OverByte DEF n
    <2>3. buf'[1] \in Headers /\ buf'[2] = buf[2] /\ \A m \in 3 .. 9 : buf'[m] = buf[m]
      BY <1>1, <1>3, <1>4, <2>2
    <2>4. \A u \in Thread : pc'[u] = pc[u] \/ pc'[u] = "length"
      BY <1>0, <2>1
    <2>5. \A u \in Thread : pc'[u] \in Sending \union {"rest"} => pc'[u] = pc[u]
      BY <2>4 DEF Sending
    <2>6. pc'[FSM] \in Sending => \A m \in 3 .. size'[FSM] : buf'[m] = Wanted(FSM)'[m]
      <3> SUFFICES ASSUME pc'[FSM] \in Sending, NEW m \in 3 .. size'[FSM] PROVE buf'[m] = Wanted(FSM)'[m]
        OBVIOUS
      <3>1. pc[FSM] \in Sending /\ m \in 3 .. size[FSM] /\ m \in 3 .. 9
        BY <1>0, <1>5, <2>1, <2>5
      <3> QED
        BY <1>2, <2>3, <3>1 DEF BufInv
    <2> QED
      BY <1>0, <1>2, <2>1, <2>3, <2>5, <2>6 DEF BufInv
  <1>8. CASE WriteLength(t)
    <2>1. pc[t] = "length" /\ pc' = [pc EXCEPT ![t] = "rest"] /\ size' = size /\ buf' = Over(2, <<w[2]>>)
      BY <1>8 DEF WriteLength, Step, w
    <2>2. buf'[2] = w[2] /\ \A i \in 1 .. n : i # 2 => buf'[i] = buf[i]
      BY <1>6, <2>1, OverByte DEF n
    <2>3. buf'[2] \in Small /\ buf'[1] = buf[1] /\ \A m \in 3 .. 9 : buf'[m] = buf[m]
      BY <1>1, <1>3, <1>4, <2>2
    <2>4. \A u \in Thread : pc'[u] = pc[u] \/ pc'[u] = "rest"
      BY <1>0, <2>1
    <2>5. \A u \in Thread : pc'[u] \in Sending => pc'[u] = pc[u]
      BY <2>4 DEF Sending
    <2>6. pc'[FSM] \in Sending => \A m \in 3 .. size'[FSM] : buf'[m] = Wanted(FSM)'[m]
      <3> SUFFICES ASSUME pc'[FSM] \in Sending, NEW m \in 3 .. size'[FSM] PROVE buf'[m] = Wanted(FSM)'[m]
        OBVIOUS
      <3>1. pc[FSM] \in Sending /\ m \in 3 .. size[FSM] /\ m \in 3 .. 9
        BY <1>0, <1>5, <2>1, <2>5
      <3> QED
        BY <1>2, <2>3, <3>1 DEF BufInv
    <2>7. buf'[2] \in {0, Wanted(FSM)'[2]}
      <3>1. CASE t = FSM
        BY <1>2, <2>2, <3>1 DEF w
      <3>2. CASE t # FSM
        BY <1>1, <2>2, <3>2
      <3> QED
        BY <3>1, <3>2
    <2> QED
      BY <1>0, <1>2, <2>1, <2>3, <2>5, <2>6, <2>7 DEF BufInv
  <1>9. CASE WriteRest(t)
    <2> DEFINE rest == SubSeq(w, 3, Len(w))
               k == Len(w)
    <2>1. /\ pc[t] = "rest" /\ pc' = [pc EXCEPT ![t] = "write"] /\ buf' = Over(3, rest)
          /\ size' = [size EXCEPT ![t] = k]
      BY <1>9 DEF WriteRest, Step, w
    <2>2. k \in 2 .. 9 /\ rest \in Seq(Byte) /\ Len(rest) = k - 2 /\ \A m \in 3 .. k : rest[m - 2] = w[m]
      <3>1. 3 \in Int /\ k \in Int /\ \A m \in 3 .. k : w[m] \in Byte
        BY <1>1, ElementOfSeq
      <3>2. /\ rest \in Seq(Byte) /\ Len(rest) = IF 3 <= k THEN k - 3 + 1 ELSE 0
            /\ \A j \in 1 .. k - 3 + 1 : rest[j] = w[3 + j - 1]
        BY <3>1, SubSeqProperties
      <3>3. k \in 2 .. 9
        BY <1>1
      <3> HIDE DEF rest, k
      <3>4. \A m \in 3 .. k : m - 2 \in 1 .. k - 3 + 1 /\ 3 + (m - 2) - 1 = m
        BY <3>3
      <3>5. \A m \in 3 .. k : rest[m - 2] = w[m]
        BY <3>2, <3>4
      <3> QED
        BY <3>2, <3>3, <3>5
    <2> HIDE DEF rest, k
    <2>3. \A i \in 1 .. n : buf'[i] = IF i \in 3 .. 3 + (k - 2) - 1 THEN rest[i - 3 + 1] ELSE buf[i]
      <3>1. 3 \in 1 .. 3 /\ Len(rest) <= 9
        BY <2>2
      <3> QED
        BY <2>1, <2>2, <3>1, OverParts DEF n
    <2>4. \A i \in 3 .. 9 : buf'[i] = IF i <= k THEN w[i] ELSE buf[i]
      <3> SUFFICES ASSUME NEW i \in 3 .. 9 PROVE buf'[i] = IF i <= k THEN w[i] ELSE buf[i]
        OBVIOUS
      <3>1. CASE i <= k
        <4>1. i \in 3 .. 3 + (k - 2) - 1 /\ i - 3 + 1 = i - 2 /\ i \in 3 .. k
          BY <2>2, <3>1
        <4> QED
          BY <1>3, <2>2, <2>3, <3>1, <4>1
      <3>2. CASE ~ (i <= k)
        <4>1. i \notin 3 .. 3 + (k - 2) - 1
          BY <2>2, <3>2
        <4> QED
          BY <1>3, <2>3, <3>2, <4>1
      <3> QED
        BY <3>1, <3>2
    <2>5. buf'[1] = buf[1] /\ buf'[2] = buf[2]
      <3>1. 1 \notin 3 .. 3 + (k - 2) - 1 /\ 2 \notin 3 .. 3 + (k - 2) - 1
        OBVIOUS
      <3> QED
        BY <1>4, <2>3, <3>1
    <2>6. CASE t = FSM
      <3>1. pc[FSM] = "rest" /\ \A u \in Background : pc'[u] = pc[u] /\ size'[u] = size[u]
        BY <1>0, <2>1, <2>6
      <3>2. size'[FSM] = k /\ k = Len(Wanted(FSM)) /\ w = Wanted(FSM)
        BY <1>0, <2>1, <2>6 DEF k, w
      <3>3. \A m \in 3 .. k : m \in 3 .. 9 /\ m <= k
        BY <2>2
      <3>4. \A m \in 3 .. size'[FSM] : buf'[m] = Wanted(FSM)'[m]
        BY <1>2, <2>4, <3>2, <3>3
      <3> QED
        BY <1>2, <2>5, <3>1, <3>2, <3>4 DEF BufInv
    <2>7. CASE t # FSM
      <3>1. k = 2
        BY <1>1, <2>7 DEF k
      <3>2. /\ pc'[FSM] = pc[FSM] /\ size'[FSM] = size[FSM] /\ size'[t] = 2
            /\ \A u \in Background : u # t => pc'[u] = pc[u] /\ size'[u] = size[u]
        BY <1>0, <2>1, <2>7, <3>1
      <3>3. \A m \in 3 .. 9 : buf'[m] = buf[m]
        BY <2>4, <3>1
      <3>4. pc[FSM] \in Sending => \A m \in 3 .. size[FSM] : m \in 3 .. 9
        BY <1>0, <1>5
      <3> QED
        BY <1>2, <2>5, <3>2, <3>3, <3>4 DEF BufInv
    <2> QED
      BY <2>6, <2>7
  <1> QED
    BY <1>7, <1>8, <1>9 DEF Serialize

\* Every other step leaves the buffer, and the task begins with a packet at the header.
LEMMA OthersKeepBuffer ==
    ASSUME TypeInv, BufInv, Next, UNCHANGED buf
    PROVE  BufInv'
  <1>0. /\ FSM \in Thread /\ Background \subseteq Thread /\ FSM \notin Background
        /\ pc \in [Thread -> Places] /\ size \in [Thread -> Nat]
    BY Constants DEF TypeInv, LoopInv
  <1> USE DEF taskVars, threadVars
  <1>1. ASSUME \A t \in Background : pc'[t] \in Sending => pc[t] \in Sending /\ size'[t] = size[t],
               \/ pc'[FSM] \notin Sending \union {"rest"}
               \/ /\ pc[FSM] \in Sending /\ size'[FSM] = size[FSM] /\ UNCHANGED <<task, chunk>>
               \/ /\ pc'[FSM] = pc[FSM] /\ size'[FSM] = size[FSM] /\ UNCHANGED <<task, chunk>>
        PROVE  BufInv'
    <2>1. UNCHANGED <<task, chunk>> => Wanted(FSM)' = Wanted(FSM)
      BY DEF Wanted, ChunkBody, Topic
    <2> QED
      BY <1>1, <2>1 DEF BufInv
  <1>2. ASSUME NEW t \in Thread, SendPacket(t) PROVE BufInv'
    <2>1. /\ UNCHANGED <<size, task, chunk>>
          /\ \E from, to \in Sending : Step(t, from, to)
      BY <1>2 DEF SendPacket, TestLoop, Send, EndSend, SendFails, Sending
    <2>2. pc[t] \in Sending /\ \A u \in Thread : u # t => pc'[u] = pc[u]
      BY <1>0, <2>1 DEF Step
    <2> QED
      BY <1>0, <1>1, <2>1, <2>2
  <1>3. ASSUME NEW t \in Thread, Serialize(t) PROVE BufInv'
    BY <1>3, SerializeKeepsBuffer
  <1>4. ASSUME NEW t \in Background, BeginPing(t) \/ RetryPing(t) \/ EndPing(t) PROVE BufInv'
    <2>1. /\ UNCHANGED <<task, chunk>>
          /\ \A u \in Thread : u # t => pc'[u] = pc[u] /\ size'[u] = size[u]
          /\ pc'[t] \notin Sending
      BY <1>0, <1>4 DEF BeginPing, RetryPing, EndPing, Finish, Step, Sending
    <2> QED
      BY <1>0, <1>1, <2>1
  <1>5. CASE SessionCloses \/ Discard \/ FailPublish
    <2>1. UNCHANGED <<pc, size>> /\ (UNCHANGED <<task, chunk>> \/ task = "none")
      BY <1>5 DEF SessionCloses, Discard, FailPublish
    <2>2. task = "none" => pc[FSM] = "idle"
      BY DEF TypeInv
    <2> QED
      BY <1>1, <2>1, <2>2 DEF Sending
  <1>6. CASE Reconnect \/ EndConnect \/ BeginPublish \/ EndPublish
    <2>1. pc'[FSM] \in {"header", "idle"}
      BY <1>0, <1>6 DEF Reconnect, EndConnect, BeginPublish, EndPublish, Finish, Step
    <2>2. \A t \in Background : size'[t] = size[t]
      BY <1>0, <1>6 DEF Reconnect, EndConnect, BeginPublish, EndPublish, Finish
    <2>3. \A t \in Background : pc'[t] = pc[t] \/ pc[t] = "blocked"
      BY <1>0, <1>6 DEF Reconnect, EndConnect, BeginPublish, EndPublish, Finish, Step, TypeInv
    <2> QED
      BY <1>1, <2>1, <2>2, <2>3 DEF Sending
  <1> QED
    BY <1>0, <1>2, <1>3, <1>4, <1>5, <1>6 DEF Next, KeepAlive, Task

\* Every step keeps the buffer.
LEMMA BufInvStep == TypeInv /\ BufInv /\ [Next]_vars => BufInv'
  <1> SUFFICES ASSUME TypeInv, BufInv, [Next]_vars PROVE BufInv'
    OBVIOUS
  <1>1. CASE \E t \in Thread : Serialize(t)
    BY <1>1, SerializeKeepsBuffer
  <1>2. CASE UNCHANGED vars
    BY <1>2 DEF BufInv, vars, threadVars, taskVars, Wanted, ChunkBody, Topic
  <1>3. CASE Next /\ ~ \E t \in Thread : Serialize(t)
    <2>1. UNCHANGED buf
      BY <1>3, Constants DEF Next, KeepAlive, Task, SendPacket, TestLoop, Send, EndSend, SendFails, BeginPing,
         RetryPing, EndPing, SessionCloses, Reconnect, EndConnect, Discard, BeginPublish, FailPublish, EndPublish
    <2> QED
      BY <1>3, <2>1, OthersKeepBuffer
  <1> QED
    BY <1>1, <1>2, <1>3

\* Every step keeps the task from sending after a write cut short.
LEMMA TaskInvStep == TypeInv /\ TaskInv /\ [Next]_vars => TaskInv'
  <1> SUFFICES ASSUME TypeInv, TaskInv, [Next]_vars PROVE TaskInv'
    OBVIOUS
  <1>0. /\ FSM \in Thread /\ Background \subseteq Thread /\ FSM \notin Background
        /\ pc \in [Thread -> Places] /\ size \in [Thread -> Nat] /\ done \in [Thread -> Nat]
        /\ expired \in [Thread -> BOOLEAN]
        /\ Loop(FSM)
    BY Constants DEF TypeInv, LoopInv
  <1> USE DEF taskVars, threadVars, netVars
  <1>1. ASSUME pc'[FSM] = pc[FSM], size'[FSM] = size[FSM], done'[FSM] = done[FSM], UNCHANGED <<task, torn>>,
               isconnected' => isconnected
        PROVE  TaskInv'
    BY <1>1 DEF TaskInv
  <1>2. ASSUME NEW t \in Background, KeepAlive(t) PROVE TaskInv'
    <2>1. \A u \in Thread : u # t => pc'[u] = pc[u] /\ size'[u] = size[u] /\ done'[u] = done[u]
      BY <1>0, <1>2 DEF KeepAlive, BeginPing, RetryPing, EndPing, Finish, Serialize, WriteHeader, WriteLength,
         WriteRest, SendPacket, TestLoop, Send, EndSend, SendFails, Step
    <2>2. UNCHANGED task
      BY <1>2 DEF KeepAlive, BeginPing, RetryPing, EndPing, Serialize, WriteHeader, WriteLength,
         WriteRest, SendPacket, TestLoop, Send, EndSend, SendFails
    <2>3. UNCHANGED torn
      <3>1. torn \in BOOLEAN /\ t # FSM
        BY <1>0 DEF TypeInv
      <3> QED
        BY <1>2, <3>1 DEF KeepAlive, BeginPing, RetryPing, EndPing, Serialize, WriteHeader, WriteLength,
           WriteRest, SendPacket, TestLoop, Send, EndSend, SendFails
    <2>4. isconnected' => isconnected
      BY <1>2 DEF KeepAlive, BeginPing, RetryPing, EndPing, Serialize, WriteHeader, WriteLength,
         WriteRest, SendPacket, TestLoop, Send, EndSend, SendFails
    <2> QED
      BY <1>0, <1>1, <2>1, <2>2, <2>3, <2>4
  <1>3. CASE SessionCloses
    BY <1>1, <1>3 DEF SessionCloses
  <1>4. CASE Serialize(FSM)
    <2>1. /\ pc'[FSM] \in {"length", "rest", "write"} /\ UNCHANGED <<task, torn, isconnected>>
          /\ done'[FSM] = 0 \/ done'[FSM] = done[FSM]
          /\ pc[FSM] \in {"header", "length", "rest"}
      BY <1>0, <1>4 DEF Serialize, WriteHeader, WriteLength, WriteRest, Step
    <2>2. ~ torn
      BY <2>1 DEF TaskInv, TypeInv
    <2> QED
      BY <2>1, <2>2 DEF TaskInv, Sending
  <1>5. CASE SendPacket(FSM)
    <2>1. /\ pc[FSM] \in Sending /\ pc'[FSM] \in Sending /\ UNCHANGED <<size, task, isconnected>>
      BY <1>0, <1>5 DEF SendPacket, TestLoop, Send, EndSend, SendFails, Step, Sending
    <2>2. CASE TestLoop(FSM)
      <3>1. UNCHANGED <<done, torn>> /\ pc[FSM] = "write" /\ (done[FSM] \in 1 .. size[FSM] - 1 => pc'[FSM] = "sent")
        BY <1>0, <2>2 DEF TestLoop, Step, TimerIsExpired, Loop
      <3> QED
        BY <2>1, <3>1 DEF TaskInv, Sending
    <2>3. CASE Send(FSM) \/ SendFails(FSM)
      <3>1. UNCHANGED torn /\ pc[FSM] = "send"
        BY <2>3 DEF Send, SendFails, Step
      <3>2. ~ torn
        BY <3>1 DEF TaskInv, TypeInv
      <3> QED
        BY <2>1, <3>1, <3>2 DEF TaskInv, Sending
    <2>4. CASE EndSend(FSM)
      <3>1. pc[FSM] = "blocked" /\ pc'[FSM] = "write"
        BY <1>0, <2>4 DEF EndSend, Step
      <3>2. ~ torn
        BY <3>1 DEF TaskInv, TypeInv
      <3>3. torn' => done'[FSM] \in 1 .. size[FSM] - 1
        BY <1>0, <2>4, <3>2 DEF EndSend
      <3> QED
        BY <2>1, <3>1, <3>3 DEF TaskInv, Sending
    <2> QED
      BY <1>5, <2>2, <2>3, <2>4 DEF SendPacket
  <1>6. CASE Reconnect
    <2>1. ~ torn' /\ pc'[FSM] = "header" /\ UNCHANGED done /\ pc[FSM] = "idle"
      BY <1>0, <1>6 DEF Reconnect, TypeInv
    <2> QED
      BY <2>1 DEF TaskInv, Sending
  <1>7. CASE EndConnect \/ EndPublish
    <2>1. pc[FSM] = "sent" /\ done'[FSM] = 0 /\ pc'[FSM] = "idle" /\ task' = "none" /\ UNCHANGED torn
      BY <1>0, <1>7 DEF EndConnect, EndPublish, Finish, Step
    <2>2. torn => done[FSM] \in 1 .. size[FSM] - 1
      BY <2>1 DEF TaskInv, TypeInv
    <2>3. torn => ~ isconnected'
      <3>1. isconnected' => done[FSM] = size[FSM]
        BY <1>7 DEF EndConnect, EndPublish
      <3>2. done[FSM] = size[FSM] => done[FSM] \notin 1 .. size[FSM] - 1
        BY <1>0
      <3> QED
        BY <2>2, <3>1, <3>2
    <2> QED
      BY <2>1, <2>3 DEF TaskInv
  <1>8. CASE Discard \/ FailPublish
    BY <1>1, <1>8 DEF Discard, FailPublish
  <1>9. CASE BeginPublish
    <2>1. /\ task = "none" /\ isconnected /\ pc[FSM] = "idle" /\ pc'[FSM] = "header"
          /\ UNCHANGED <<done, torn>>
      BY <1>0, <1>9 DEF BeginPublish, Step
    <2> QED
      BY <2>1 DEF TaskInv, Sending
  <1>10. CASE UNCHANGED vars
    BY <1>1, <1>10 DEF vars
  <1> QED
    BY <1>2, <1>3, <1>4, <1>5, <1>6, <1>7, <1>8, <1>9, <1>10 DEF Next, Task

(***************************************************************************)
(* What is on the wire.  Where the topic of chunk i stands, its packet     *)
(* stands around it: the part before it with a header and a first digit    *)
(* that may be those of another thread, and the rest as it was serialised, *)
(* unless it is the last chunk of the connection and was cut short or is   *)
(* being sent.                                                             *)
(***************************************************************************)

\* The topic of chunk i at place q, and the bytes before its packet.
ChunkAt(s, q, i) == q + 2 <= Len(s) /\ s[q] = 0 /\ s[q + 1] = 1 /\ s[q + 2] = 20 + i
Start(q, i) == q - 2 - Wide(i)

Front(s, q, i) ==
    LET a == Start(q, i)
    IN /\ a >= 0 /\ s[a + 1] \in Headers /\ s[a + 2] \in {0, ChunkPacket(i)[2]}
       /\ \A m \in 3 .. Wide(i) + 4 : s[a + m] = ChunkPacket(i)[m]
Whole(s, q, i) ==
    LET a == Start(q, i)
    IN /\ a + Len(ChunkPacket(i)) <= Len(s)
       /\ \A m \in 3 .. Len(ChunkPacket(i)) : s[a + m] = ChunkPacket(i)[m]
Last(s, q) == \A p \in 1 .. Len(s) : \A i \in 1 .. N : ChunkAt(s, p, i) => p <= q

\* The task is inside send() with chunk i.
Begun(q, i) ==
    pc[FSM] = "blocked" /\ task = "chunk" /\ i = chunk + 1 /\ Start(q, i) = Len(stream) - done[FSM]

StreamInv ==
    /\ \A q \in 1 .. Len(stream) : \A i \in 1 .. N : ChunkAt(stream, q, i) =>
          /\ Front(stream, q, i)
          /\ i <= chunk \/ (i = chunk + 1 /\ task = "chunk" /\ done[FSM] >= Wide(i) + 4)
          /\ Whole(stream, q, i) \/ (Last(stream, q) /\ (torn \/ Begun(q, i)))
    /\ \A p, q \in 1 .. Len(stream) : \A i, j \in 1 .. N :
          p < q /\ ChunkAt(stream, p, i) /\ ChunkAt(stream, q, j) => i < j

\* The k bytes after place b are the first of the packet w, but for its header and first digit.
Begins(s, b, k, w) ==
    /\ k >= 1 => s[b + 1] \in Headers
    /\ k >= 2 => s[b + 2] \in {0, w[2]}
    /\ \A m \in 3 .. k : s[b + m] = w[m]

TailInv ==
    pc[FSM] = "blocked" =>
        Len(stream) - done[FSM] >= 0 /\ Begins(stream, Len(stream) - done[FSM], done[FSM], Wanted(FSM))

\* What stands in s stands in any r that begins with s.
LEMMA Prefix ==
    ASSUME NEW s \in Seq(Byte), NEW r \in Seq(Byte), Len(s) <= Len(r),
           \A k \in 1 .. Len(s) : r[k] = s[k],
           NEW q \in 1 .. Len(r), NEW i \in 1 .. N, q + 2 <= Len(s)
    PROVE  /\ q \in 1 .. Len(s)
           /\ ChunkAt(r, q, i) <=> ChunkAt(s, q, i)
           /\ Front(s, q, i) => Front(r, q, i)
           /\ Front(s, q, i) /\ Whole(s, q, i) => Whole(r, q, i)
  <1> DEFINE l == Len(s)
             h == Len(r)
             w == Wide(i)
             c == ChunkPacket(i)
             a == Start(q, i)
             z == Len(c)
  <1>0. l \in Nat /\ h \in Nat /\ q \in Nat /\ l <= h /\ q >= 1 /\ q + 2 <= l
    BY LenProperties
  <1>1. w \in 1 .. 3 /\ z \in {w + 5, w + 6} /\ a = q - 2 - w
    BY ChunkParts DEF Start
  <1> HIDE DEF l, h, w, c, a, z
  <1>2. q \in 1 .. l /\ q + 1 \in 1 .. l /\ q + 2 \in 1 .. l
    BY <1>0
  <1>3. ChunkAt(r, q, i) <=> ChunkAt(s, q, i)
    <2>1. r[q] = s[q] /\ r[q + 1] = s[q + 1] /\ r[q + 2] = s[q + 2] /\ q + 2 <= l /\ q + 2 <= h
      BY <1>0, <1>2 DEF l
    <2> QED
      BY <2>1 DEF ChunkAt, l, h
  <1>4. ASSUME a >= 0 PROVE \A m \in 1 .. w + 4 : r[a + m] = s[a + m]
    <2>1. \A m \in 1 .. w + 4 : a + m \in 1 .. l
      BY <1>0, <1>1, <1>4
    <2> QED
      BY <2>1 DEF l
  <1>5. Front(s, q, i) => Front(r, q, i)
    <2>1. 1 \in 1 .. w + 4 /\ 2 \in 1 .. w + 4 /\ \A m \in 3 .. w + 4 : m \in 1 .. w + 4
      BY <1>1
    <2> QED
      BY <1>4, <2>1 DEF Front, a, w
  <1>6. Front(s, q, i) /\ Whole(s, q, i) => Whole(r, q, i)
    <2> SUFFICES ASSUME Front(s, q, i), Whole(s, q, i) PROVE Whole(r, q, i)
      OBVIOUS
    <2>1. a >= 0 /\ a + z <= l /\ \A m \in 3 .. z : s[a + m] = c[m]
      BY DEF Front, Whole, a, z, l, c
    <2>2. \A m \in 3 .. z : a + m \in 1 .. l
      BY <1>0, <1>1, <2>1
    <2>3. a + z <= h /\ \A m \in 3 .. z : r[a + m] = c[m]
      <3>1. a + z <= h
        BY <1>0, <1>1, <2>1
      <3> QED
        BY <2>1, <2>2, <3>1 DEF l
    <2> QED
      BY <2>3 DEF Whole, a, z, h, c
  <1> QED
    BY <1>2, <1>3, <1>5, <1>6 DEF l

\* A topic among the bytes the task sends is that of the chunk it sends, at its place.
LEMMA Frontier ==
    ASSUME TypeInv, pc[FSM] \in {"send", "blocked"},
           NEW r \in Seq(Byte), NEW b \in Nat, NEW k \in Nat, Len(r) = b + k,
           k <= Len(Wanted(FSM)), Begins(r, b, k, Wanted(FSM)),
           NEW q \in 1 .. Len(r), NEW i \in 1 .. N, ChunkAt(r, q, i), q + 2 > b
    PROVE  /\ task = "chunk" /\ i = chunk + 1 /\ Start(q, i) = b /\ k >= Wide(i) + 4
           /\ Front(r, q, i) /\ Wanted(FSM) = ChunkPacket(i)
           /\ k = Len(Wanted(FSM)) => Whole(r, q, i)
  <1> DEFINE w == Wanted(FSM)
             m == q + 2 - b
  <1>0. /\ w \in Seq(Byte) /\ Len(w) \in 2 .. 9 /\ w[2] \in Small
        /\ task = "connect" => w = ConnectPacket
        /\ task = "chunk" => chunk + 1 \in 1 .. N /\ w = ChunkPacket(chunk + 1)
        /\ task = "connect" \/ task = "chunk"
    BY WantedParts, Constants
  <1>1. m \in 1 .. k /\ b + m = q + 2 /\ m \in Nat /\ q \in Nat /\ q >= 1
    BY DEF ChunkAt
  <1> HIDE DEF w, m
  <1>2. r[b + m] = 20 + i /\ 20 + i \in 21 .. 20 + N /\ r[q + 1] = 1
    BY <1>1, Chunks DEF ChunkAt
  <1>3. m >= 3 /\ r[b + m] = w[m]
    <2>1. ASSUME m = 1 PROVE FALSE
      <3>1. r[b + m] \in Headers
        BY <1>1, <2>1 DEF Begins
      <3> QED
        BY <1>2, <3>1, SmallAreNoTopics
    <2>2. ASSUME m = 2 PROVE FALSE
      <3>1. r[b + m] \in {0, w[2]}
        BY <1>1, <2>2 DEF Begins, w
      <3>2. 0 \in Small
        BY DEF Small
      <3> QED
        BY <1>0, <1>2, <3>1, <3>2, SmallAreNoTopics
    <2>3. m >= 3 /\ m \in 3 .. k
      BY <1>1, <2>1, <2>2
    <2> QED
      BY <2>3 DEF Begins, w
  <1>4. Len(w) \in Nat /\ m \in 2 .. Len(w) /\ w[m] \in 21 .. 20 + N
    <2>1. Len(w) \in Nat /\ k <= Len(w)
      BY <1>0 DEF w
    <2> QED
      BY <1>1, <1>2, <1>3, <2>1
  <1>5. task = "chunk"
    <2>1. ASSUME task = "connect" PROVE FALSE
      BY <1>0, <1>4, <2>1, ConnectParts
    <2> QED
      BY <1>0, <2>1
  <1> DEFINE c == chunk + 1
             v == Wide(c)
  <1>6. /\ c \in 1 .. N /\ w = ChunkPacket(c) /\ v \in 1 .. 3 /\ w[v + 4] = 20 + c
        /\ m = v + 4 \/ (m > v + 4 /\ w[m - 1] # 1)
        /\ Len(w) \in {v + 5, v + 6}
    <2>1. c \in 1 .. N /\ w = ChunkPacket(c)
      BY <1>0, <1>5
    <2> HIDE DEF c
    <2>2. /\ Wide(c) \in 1 .. 3 /\ Len(w) \in {Wide(c) + 5, Wide(c) + 6} /\ w[Wide(c) + 4] = 20 + c
          /\ \A j \in 2 .. Len(w) : w[j] \in 21 .. 20 + N =>
                j = Wide(c) + 4 \/ (j > Wide(c) + 4 /\ w[j - 1] # 1)
      BY <2>1, ChunkParts
    <2> QED
      BY <1>4, <2>1, <2>2
  <1> HIDE DEF c, v
  <1>7. m = v + 4
    <2>1. ASSUME m > v + 4, w[m - 1] # 1 PROVE FALSE
      <3>1. m - 1 \in 3 .. k /\ b + (m - 1) = q + 1
        BY <1>1, <1>6, <2>1
      <3>2. r[b + (m - 1)] = w[m - 1]
        BY <3>1 DEF Begins, w
      <3> QED
        BY <1>2, <2>1, <3>1, <3>2
    <2> QED
      BY <1>6, <2>1
  <1>8. i = c
    <2>1. 20 + i = 20 + c
      BY <1>2, <1>3, <1>6, <1>7
    <2>2. i \in Int /\ c \in Int
      BY <1>6
    <2> QED
      BY <2>1, <2>2
  <1>9. Start(q, i) = b /\ k >= Wide(i) + 4 /\ v = Wide(i)
    <2>1. v = Wide(i)
      BY <1>8 DEF v
    <2>2. q - 2 - v = b
      BY <1>1, <1>6, <1>7 DEF m
    <2>3. k >= v + 4
      BY <1>1, <1>7
    <2> QED
      BY <2>1, <2>2, <2>3 DEF Start
  <1>10. Front(r, q, i)
    <2>1. k >= 1 /\ k >= 2 /\ \A j \in 3 .. Wide(i) + 4 : j \in 3 .. k
      BY <1>6, <1>9
    <2>2. b >= 0
      OBVIOUS
    <2>3. ChunkPacket(i) = Wanted(FSM)
      BY <1>6, <1>8 DEF w
    <2> QED
      BY <1>9, <2>1, <2>2, <2>3 DEF Front, Begins
  <1>11. k = Len(Wanted(FSM)) => Whole(r, q, i)
    <2>1. ChunkPacket(i) = Wanted(FSM)
      BY <1>6, <1>8 DEF w
    <2>2. k = Len(Wanted(FSM)) => b + Len(Wanted(FSM)) <= Len(r)
      OBVIOUS
    <2> QED
      BY <1>9, <2>1, <2>2 DEF Whole, Begins
  <1> QED
    BY <1>5, <1>6, <1>8, <1>9, <1>10, <1>11 DEF c, w

\* Bytes of a PINGREQ after the others: no topic is among them, and StreamInv stays true
\* whenever the task is not inside send() and goes on to no other packet but the next.
LEMMA QuietStep ==
    ASSUME TypeInv, StreamInv, stream' \in Seq(Byte), Len(stream) <= Len(stream'),
           \A k \in 1 .. Len(stream) : stream'[k] = stream[k],
           \A k \in Len(stream) + 1 .. Len(stream') : stream'[k] \in Headers \union Small,
           UNCHANGED torn, pc[FSM] # "blocked", chunk' \in Nat,
           \/ UNCHANGED <<task, chunk>> /\ (done'[FSM] = done[FSM] \/ done[FSM] = 0)
           \/ chunk' >= chunk /\ task # "chunk"
           \/ chunk' = chunk + 1
    PROVE  StreamInv'
  <1> DEFINE s == stream
             r == stream'
  <1>0. chunk \in Nat /\ s \in Seq(Byte) /\ Len(s) \in Nat /\ Len(r) \in Nat /\ N \in Nat
    BY LenProperties, Chunks DEF TypeInv
  <1>1. ASSUME NEW q \in 1 .. Len(r), NEW i \in 1 .. N, ChunkAt(r, q, i)
        PROVE  q \in 1 .. Len(s) /\ q + 2 <= Len(s) /\ ChunkAt(s, q, i)
    <2>1. q + 2 <= Len(r) /\ r[q + 2] = 20 + i
      BY <1>1 DEF ChunkAt
    <2>2. 20 + i \in 21 .. 20 + N
      BY <1>0
    <2>3. r[q + 2] \notin Headers \union Small
      BY <2>1, <2>2, SmallAreNoTopics
    <2>4. q + 2 \notin Len(s) + 1 .. Len(r)
      BY <2>3
    <2>5. q + 2 <= Len(s)
      BY <1>0, <2>1, <2>4
    <2> QED
      BY <1>0, <1>1, <2>5, Prefix
  <1>2. ASSUME NEW q \in 1 .. Len(r), NEW i \in 1 .. N, ChunkAt(r, q, i)
        PROVE  /\ Front(r, q, i)
               /\ i <= chunk' \/ (i = chunk' + 1 /\ task' = "chunk" /\ done'[FSM] >= Wide(i) + 4)
               /\ Whole(r, q, i) \/ (Last(r, q) /\ torn')
    <2>1. q \in 1 .. Len(s) /\ q + 2 <= Len(s) /\ ChunkAt(s, q, i)
      BY <1>1, <1>2
    <2>2. /\ Front(s, q, i)
          /\ i <= chunk \/ (i = chunk + 1 /\ task = "chunk" /\ done[FSM] >= Wide(i) + 4)
          /\ Whole(s, q, i) \/ (Last(s, q) /\ torn)
      BY <2>1 DEF StreamInv, Begun
    <2>3. Front(r, q, i) /\ (Whole(s, q, i) => Whole(r, q, i))
      BY <1>0, <2>1, <2>2, Prefix
    <2>4. Last(s, q) => Last(r, q)
      BY <1>1 DEF Last
    <2>5. Wide(i) \in Nat
      BY ChunkParts
    <2>6. i <= chunk' \/ (i = chunk' + 1 /\ task' = "chunk" /\ done'[FSM] >= Wide(i) + 4)
      BY <1>0, <2>2, <2>5
    <2> QED
      BY <2>2, <2>3, <2>4, <2>6
  <1>3. ASSUME NEW p \in 1 .. Len(r), NEW q \in 1 .. Len(r), NEW i \in 1 .. N, NEW j \in 1 .. N,
               p < q, ChunkAt(r, p, i), ChunkAt(r, q, j)
        PROVE  i < j
    BY <1>1, <1>3 DEF StreamInv
  <1> QED
    BY <1>2, <1>3 DEF StreamInv

\* What the task appends: the older chunks are whole, and the new one stands at its place.
LEMMA FrontierStep ==
    ASSUME TypeInv, TaskInv, StreamInv, pc[FSM] \in {"send", "blocked"}, stream' \in Seq(Byte),
           NEW b \in Nat, NEW k \in Nat, Len(stream) = b + done[FSM], Begins(stream, b, done[FSM], Wanted(FSM)),
           done[FSM] <= k, k <= Len(Wanted(FSM)), Len(stream') = b + k, Begins(stream', b, k, Wanted(FSM)),
           \A n \in 1 .. Len(stream) : stream'[n] = stream[n],
           UNCHANGED <<task, chunk>>, done'[FSM] = k, torn' \in BOOLEAN,
           k < Len(Wanted(FSM)) /\ k > 0 => torn' \/ pc'[FSM] = "blocked"
    PROVE  StreamInv'
  <1> DEFINE s == stream
             r == stream'
             d == done[FSM]
  <1>0. /\ chunk \in Nat /\ d \in Nat /\ s \in Seq(Byte) /\ Len(s) \in Nat /\ Len(r) \in Nat /\ N \in Nat
        /\ Len(s) <= Len(r)
    <2>1. chunk \in Nat /\ d \in Nat /\ s \in Seq(Byte) /\ Len(s) \in Nat /\ Len(r) \in Nat /\ N \in Nat
      BY LenProperties, Chunks, Constants DEF TypeInv, LoopInv
    <2> QED
      BY <2>1
  <1>1. ~ torn
    BY DEF TaskInv, TypeInv
  <1>2. Len(Wanted(FSM)) \in Nat /\ d <= Len(Wanted(FSM))
    <2>1. Len(Wanted(FSM)) \in 2 .. 9
      BY WantedParts, Constants
    <2>2. \A n \in 2 .. 9 : n \in Nat
      OBVIOUS
    <2>3. Len(Wanted(FSM)) \in Nat
      BY <2>1, <2>2
    <2> QED
      BY <1>0, <2>3
  <1>3. ASSUME NEW q \in 1 .. Len(r), NEW i \in 1 .. N, ChunkAt(r, q, i), q + 2 > b
        PROVE  /\ task = "chunk" /\ i = chunk + 1 /\ Start(q, i) = b /\ k >= Wide(i) + 4
               /\ Front(r, q, i) /\ Wanted(FSM) = ChunkPacket(i)
               /\ k = Len(Wanted(FSM)) => Whole(r, q, i)
    BY <1>3, Frontier
  <1>4. ASSUME NEW q \in 1 .. Len(r), NEW i \in 1 .. N, ChunkAt(r, q, i), ~ (q + 2 > b)
        PROVE  /\ q \in 1 .. Len(s) /\ ChunkAt(s, q, i) /\ Front(r, q, i) /\ Whole(r, q, i) /\ i <= chunk
    <2>1. q + 2 <= b /\ q + 2 <= Len(s)
      BY <1>0, <1>4
    <2>2. q \in 1 .. Len(s) /\ ChunkAt(s, q, i)
      BY <1>0, <1>4, <2>1, Prefix
    <2>3. /\ Front(s, q, i)
          /\ i <= chunk \/ (i = chunk + 1 /\ task = "chunk" /\ d >= Wide(i) + 4)
          /\ Whole(s, q, i) \/ (pc[FSM] = "blocked" /\ Start(q, i) = Len(s) - d)
      BY <1>1, <2>2 DEF StreamInv, Begun
    <2>4. Wide(i) \in 1 .. 3
      BY ChunkParts
    <2>5. Start(q, i) # Len(s) - d
      <3>1. Start(q, i) = q - 2 - Wide(i) /\ Len(s) = b + d
        BY DEF Start
      <3> DEFINE h == Len(s)
                 w == Wide(i)
      <3> HIDE DEF d, s, h, w
      <3>2. q - 2 - w < b /\ h - d = b
        BY <1>0, <2>1, <2>4, <3>1 DEF h, w
      <3> QED
        BY <1>0, <2>4, <3>1, <3>2 DEF h, w
    <2>6. Front(r, q, i) /\ Whole(r, q, i)
      BY <1>0, <2>1, <2>3, <2>5, Prefix
    <2>7. ASSUME i = chunk + 1, task = "chunk", d >= Wide(i) + 4 PROVE FALSE
      <3> DEFINE v == Wide(i)
                 p == b + v + 2
                 c == ChunkPacket(i)
      <3>1. Wanted(FSM) = c
        BY <2>7 DEF Wanted, ChunkPacket
      <3>2. v \in 1 .. 3 /\ c[v + 2] = 0 /\ c[v + 3] = 1 /\ c[v + 4] = 20 + i
        BY ChunkParts
      <3>3. d >= v + 4
        BY <2>7
      <3> HIDE DEF v, c, d
      <3>4. d \in Nat
        BY <1>0
      <3>5. v + 2 \in 3 .. d /\ v + 3 \in 3 .. d /\ v + 4 \in 3 .. d
        BY <3>2, <3>3, <3>4
      <3>6. Begins(s, b, d, Wanted(FSM)) /\ Len(s) = b + d
        BY DEF d
      <3>7. s[b + (v + 2)] = 0 /\ s[b + (v + 3)] = 1 /\ s[b + (v + 4)] = 20 + i
        BY <3>1, <3>2, <3>5, <3>6 DEF Begins
      <3>8. b + (v + 2) = p /\ b + (v + 3) = p + 1 /\ b + (v + 4) = p + 2 /\ p + 2 <= Len(s) /\ p \in 1 .. Len(s) /\ q < p
        <4>1. v \in Nat /\ v >= 1 /\ v + 4 <= d
          BY <3>2, <3>3
        <4>2. \A x \in Nat : x + 2 <= b => x < b + v + 2
          BY <4>1
        <4>3. q < p
          BY <1>0, <2>1, <4>2
        <4>4. p + 2 <= b + d /\ p \in 1 .. b + d
          BY <3>4, <4>1
        <4>5. b + (v + 2) = p /\ b + (v + 3) = p + 1 /\ b + (v + 4) = p + 2
          BY <4>1
        <4> QED
          BY <3>6, <4>3, <4>4, <4>5
      <3> HIDE DEF p
      <3>9. ChunkAt(s, p, i)
        BY <3>7, <3>8 DEF ChunkAt
      <3>10. i < i
        BY <2>2, <3>8, <3>9 DEF StreamInv
      <3> QED
        BY <3>10
    <2> QED
      BY <1>0, <2>2, <2>3, <2>6, <2>7
  <1>5. ASSUME NEW q \in 1 .. Len(r), NEW i \in 1 .. N, ChunkAt(r, q, i), q + 2 > b
        PROVE  Last(r, q)
    <2> SUFFICES ASSUME NEW p \in 1 .. Len(r), NEW j \in 1 .. N, ChunkAt(r, p, j) PROVE p <= q
      BY DEF Last
    <2>1. CASE p + 2 > b
      <3>1. i = j /\ Start(q, i) = b /\ Start(p, j) = b
        BY <1>3, <1>5, <2>1
      <3>2. Wide(i) \in 1 .. 3
        BY ChunkParts
      <3> QED
        BY <1>0, <3>1, <3>2 DEF Start
    <2>2. CASE ~ (p + 2 > b)
      BY <1>0, <1>5, <2>2
    <2> QED
      BY <2>1, <2>2
  <1>6. ASSUME NEW q \in 1 .. Len(r), NEW i \in 1 .. N, ChunkAt(r, q, i)
        PROVE  /\ Front(r, q, i)
               /\ i <= chunk \/ (i = chunk + 1 /\ task = "chunk" /\ k >= Wide(i) + 4)
               /\ Whole(r, q, i) \/ (Last(r, q) /\ (torn' \/ Begun(q, i)'))
    <2>1. CASE q + 2 > b
      <3>1. /\ task = "chunk" /\ i = chunk + 1 /\ Start(q, i) = b /\ k >= Wide(i) + 4
            /\ Front(r, q, i) /\ Last(r, q)
            /\ k = Len(Wanted(FSM)) => Whole(r, q, i)
        BY <1>3, <1>5, <1>6, <2>1
      <3>2. CASE k = Len(Wanted(FSM))
        BY <3>1, <3>2
      <3>3. CASE k # Len(Wanted(FSM))
        <4>1. Wide(i) \in 1 .. 3
          BY ChunkParts
        <4>2. k < Len(Wanted(FSM)) /\ k > 0
          BY <1>2, <3>1, <3>3, <4>1
        <4>3. b = Len(r) - k
          BY <1>0
        <4> QED
          BY <3>1, <4>2, <4>3 DEF Begun
      <3> QED
        BY <3>1, <3>2, <3>3
    <2>2. CASE ~ (q + 2 > b)
      BY <1>4, <1>6, <2>2
    <2> QED
      BY <2>1, <2>2
  <1>7. ASSUME NEW p \in 1 .. Len(r), NEW q \in 1 .. Len(r), NEW i \in 1 .. N, NEW j \in 1 .. N,
               p < q, ChunkAt(r, p, i), ChunkAt(r, q, j)
        PROVE  i < j
    <2>1. CASE p + 2 > b
      <3>1. Last(r, p)
        BY <1>5, <1>7, <2>1
      <3>2. q <= p
        BY <1>7, <3>1 DEF Last
      <3> QED
        BY <1>0, <1>7, <3>2
    <2>2. CASE ~ (p + 2 > b) /\ ~ (q + 2 > b)
      BY <1>4, <1>7, <2>2 DEF StreamInv
    <2>3. CASE ~ (p + 2 > b) /\ q + 2 > b
      <3>1. i <= chunk /\ j = chunk + 1
        BY <1>3, <1>4, <1>7, <2>3
      <3> QED
        BY <1>0, <3>1
    <2> QED
      BY <2>1, <2>2, <2>3
  <1> QED
    BY <1>6, <1>7 DEF StreamInv

WireInv == TypeInv /\ BufInv /\ TaskInv /\ StreamInv /\ TailInv

\* What send() takes of the packet of the task follows what it has taken before.
LEMMA AppendTail ==
    ASSUME TypeInv, BufInv, pc[FSM] \in {"send", "blocked"}, NEW b \in Nat, NEW n \in Nat,
           Len(stream) = b + done[FSM], Begins(stream, b, done[FSM], Wanted(FSM)), done[FSM] + n <= size[FSM],
           stream' = stream \o SubSeq(buf, done[FSM] + 1, done[FSM] + n),
           UNCHANGED <<task, chunk>>
    PROVE  /\ stream' \in Seq(Byte) /\ Len(stream') = b + (done[FSM] + n)
           /\ \A m \in 1 .. Len(stream) : stream'[m] = stream[m]
           /\ Begins(stream', b, done[FSM] + n, Wanted(FSM)) /\ Wanted(FSM)' = Wanted(FSM)
           /\ done[FSM] + n <= Len(Wanted(FSM))
  <1> DEFINE d == done[FSM]
             k == d + n
             s == stream
             r == stream'
             w == Wanted(FSM)
             l == Len(s)
  <1>0. /\ d \in Nat /\ size[FSM] \in Nat /\ size[FSM] <= 9 /\ buf \in Seq(Byte) /\ Len(buf) >= 12
        /\ s \in Seq(Byte) /\ l \in Nat /\ Len(buf) \in Nat
    BY LenProperties, Constants DEF TypeInv, LoopInv
  <1>1. /\ buf[1] \in Headers /\ buf[2] \in {0, w[2]} /\ size[FSM] = Len(w)
        /\ \A m \in 3 .. size[FSM] : buf[m] = w[m]
    BY DEF BufInv, Sending
  <1>2. d + n <= Len(buf)
    BY <1>0
  <1>3. /\ r \in Seq(Byte) /\ Len(r) = l + n
        /\ \A m \in 1 .. l : r[m] = s[m]
        /\ \A m \in 1 .. n : r[l + m] = buf[d + m]
    <2>1. r = s \o SubSeq(buf, d + 1, d + n)
      OBVIOUS
    <2>0. s \in Seq(Byte) /\ buf \in Seq(Byte) /\ d \in Nat /\ n \in Nat /\ d + n <= Len(buf)
      BY <1>0, <1>2
    <2> HIDE DEF d, s, r, l, k, w
    <2>2. /\ r \in Seq(Byte) /\ Len(r) = Len(s) + n
          /\ \A m \in 1 .. Len(s) : r[m] = s[m]
          /\ \A m \in 1 .. n : r[Len(s) + m] = buf[d + m]
      BY <2>0, <2>1, Taken
    <2> QED
      BY <2>2 DEF l
  <1>4. l = b + d /\ k \in Nat /\ k <= size[FSM] /\ d <= k
    <2>1. l = b + d /\ k = d + n /\ k <= size[FSM]
      OBVIOUS
    <2> HIDE DEF d, k, l
    <2> QED
      BY <1>0, <2>1
  <1>5. Begins(s, b, d, w)
    OBVIOUS
  <1> HIDE DEF d, s, r, w, l
  <1>6. ASSUME NEW m \in 1 .. k PROVE r[b + m] = IF m <= d THEN s[b + m] ELSE buf[m]
    <2>1. CASE m <= d
      <3>1. b + m \in 1 .. l
        BY <1>0, <1>4, <2>1
      <3> QED
        BY <1>3, <2>1, <3>1
    <2>2. CASE ~ (m <= d)
      <3> DEFINE j == m - d
      <3>1. j \in 1 .. n /\ l + j = b + m /\ d + j = m
        BY <1>0, <1>4, <2>2
      <3> HIDE DEF j
      <3> QED
        BY <1>3, <2>2, <3>1
    <2> QED
      BY <2>1, <2>2
  <1>7. \A m \in 3 .. k : m \in 1 .. k /\ m \in 3 .. size[FSM] /\ (m <= d => m \in 3 .. d)
    BY <1>0, <1>4
  <1>8. (k >= 1 => 1 \in 1 .. k) /\ (k >= 2 => 2 \in 1 .. k) /\ (1 <= d <=> d >= 1) /\ (2 <= d <=> d >= 2)
    BY <1>0, <1>4
  <1>9. /\ d >= 1 => s[b + 1] \in Headers
        /\ d >= 2 => s[b + 2] \in {0, w[2]}
        /\ \A m \in 3 .. d : s[b + m] = w[m]
    BY <1>5 DEF Begins
  <1>10. /\ k >= 1 => r[b + 1] \in Headers
         /\ k >= 2 => r[b + 2] \in {0, w[2]}
         /\ \A m \in 3 .. k : r[b + m] = w[m]
    BY <1>1, <1>6, <1>7, <1>8, <1>9
  <1>11. Wanted(FSM)' = Wanted(FSM)
    BY DEF Wanted, ChunkBody, Topic
  <1>12. Begins(r, b, k, w)
    BY <1>10 DEF Begins
  <1>13. Len(r) = b + k /\ k <= Len(w)
    <2>1. Len(r) = l + n /\ l + n = b + k
      BY <1>0, <1>3, <1>4
    <2> QED
      BY <1>1, <1>4, <2>1
  <1> QED
    BY <1>3, <1>11, <1>12, <1>13 DEF d, s, r, w, l

\* Steps that touch neither the bytes sent nor the task keep what is on the wire.
LEMMA WireUntouched ==
    ASSUME StreamInv, TailInv, UNCHANGED <<stream, torn, task, chunk>>,
           pc'[FSM] = pc[FSM], done'[FSM] = done[FSM]
    PROVE  StreamInv' /\ TailInv'
  <1>1. Wanted(FSM)' = Wanted(FSM)
    BY DEF Wanted, ChunkBody, Topic
  <1>2. TailInv'
    BY <1>1 DEF TailInv, Begins
  <1>3. StreamInv'
    BY DEF StreamInv, Begun, Last, ChunkAt, Front, Whole
  <1> QED
    BY <1>2, <1>3

\* A background thread keeps what is on the wire: it sends bytes of the first two places.
LEMMA PingKeepsWire ==
    ASSUME WireInv, NEW t \in Background, KeepAlive(t)
    PROVE  StreamInv' /\ TailInv'
  <1> USE DEF taskVars, threadVars, netVars
  <1>0. /\ t \in Thread /\ t # FSM /\ FSM \in Thread /\ torn \in BOOLEAN /\ chunk \in Nat
        /\ pc \in [Thread -> Places] /\ size \in [Thread -> Nat] /\ done \in [Thread -> Nat]
        /\ stream \in Seq(Byte) /\ buf \in Seq(Byte) /\ Len(buf) \in Nat /\ Len(buf) >= 12
        /\ Len(stream) \in Nat
    BY Constants, LenProperties DEF WireInv, TypeInv, LoopInv
  <1>1. pc'[FSM] = pc[FSM] /\ done'[FSM] = done[FSM]
    BY <1>0 DEF KeepAlive, BeginPing, RetryPing, EndPing, Finish, Serialize, WriteHeader, WriteLength,
         WriteRest, SendPacket, TestLoop, Send, EndSend, SendFails, Step
  <1>2. UNCHANGED <<task, chunk>>
    BY DEF KeepAlive, BeginPing, RetryPing, EndPing, Serialize, WriteHeader, WriteLength,
         WriteRest, SendPacket, TestLoop, Send, EndSend, SendFails
  <1>3. ASSUME NEW d, NEW n \in Nat, d = done[t], d + n <= 2,
               stream' = stream \o SubSeq(buf, d + 1, d + n), UNCHANGED torn, pc[FSM] # "blocked"
        PROVE  StreamInv' /\ TailInv'
    <2>0. /\ d \in Nat /\ stream \in Seq(Byte) /\ buf \in Seq(Byte) /\ d + n <= Len(buf)
          /\ stream' = stream \o SubSeq(buf, d + 1, d + n)
      BY <1>0, <1>3
    <2>1. /\ stream' \in Seq(Byte) /\ Len(stream') = Len(stream) + n
          /\ \A k \in 1 .. Len(stream) : stream'[k] = stream[k]
          /\ \A k \in 1 .. n : stream'[Len(stream) + k] = buf[d + k]
      <3> DEFINE s == stream
                 r == stream'
                 b == buf
      <3>1. s \in Seq(Byte) /\ b \in Seq(Byte) /\ d \in Nat /\ n \in Nat /\ d + n <= Len(b)
        BY <2>0
      <3>2. r = s \o SubSeq(b, d + 1, d + n)
        BY <2>0
      <3> HIDE DEF s, r, b
      <3>3. /\ r \in Seq(Byte) /\ Len(r) = Len(s) + n
            /\ \A k \in 1 .. Len(s) : r[k] = s[k]
            /\ \A k \in 1 .. n : r[Len(s) + k] = b[d + k]
        BY <3>1, <3>2, Taken
      <3> QED
        BY <3>3 DEF s, r, b
    <2>2. \A k \in Len(stream) + 1 .. Len(stream') : stream'[k] \in Headers \union Small
      <3> SUFFICES ASSUME NEW k \in Len(stream) + 1 .. Len(stream')
                   PROVE  stream'[k] \in Headers \union Small
        OBVIOUS
      <3> DEFINE m == k - Len(stream)
      <3>1. m \in 1 .. n /\ Len(stream) + m = k
        BY <1>0, <2>1
      <3> HIDE DEF m
      <3>2. d + m = 1 \/ d + m = 2
        <4>1. d \in Nat /\ d + n <= 2
          BY <1>3, <2>0
        <4> QED
          BY <3>1, <4>1
      <3>3. stream'[k] = buf[d + m]
        BY <2>1, <3>1
      <3> QED
        BY <3>2, <3>3 DEF WireInv, BufInv
    <2>3. Len(stream) <= Len(stream')
      BY <1>0, <2>1
    <2>4. StreamInv'
      BY <1>0, <1>1, <1>2, <1>3, <2>1, <2>2, <2>3, QuietStep DEF WireInv
    <2> QED
      BY <1>1, <1>3, <2>4 DEF TailInv
  <1>4. CASE Send(t)
    <2>1. PICK n \in Stops(size[t]) : stream' = stream \o SubSeq(buf, done[t] + 1, done[t] + n)
      BY <1>4 DEF Send
    <2>2. pc[t] = "send" /\ holder = {} /\ UNCHANGED torn
      BY <1>4 DEF Send, Step
    <2>3. pc[FSM] # "blocked"
      BY <1>0, <2>2 DEF WireInv, TypeInv
    <2>4. size[t] = 2 /\ done[t] = 0 /\ n \in 0 .. 2
      BY <1>0, <2>1, <2>2 DEF WireInv, BufInv, TypeInv, LoopInv, Loop, Sending, Stops
    <2>5. n \in Nat /\ done[t] + n <= 2
      BY <2>4
    <2> QED
      BY <1>3, <2>1, <2>2, <2>3, <2>5
  <1>5. CASE EndSend(t)
    <2>1. PICK i \in Stops(size[t]) :
             /\ i >= done[t]
             /\ stream' = stream \o SubSeq(buf, done[t] + 1, done[t] + (i - done[t]))
             /\ torn' = (torn \/ (t = FSM /\ done[t] + (i - done[t]) \in 1 .. size[t] - 1))
      BY <1>5 DEF EndSend
    <2>2. pc[t] = "blocked" /\ UNCHANGED torn
      BY <1>0, <1>5, <2>1 DEF EndSend, Step
    <2>3. pc[FSM] # "blocked"
      BY <1>0, <2>2 DEF WireInv, TypeInv
    <2>4. size[t] = 2
      BY <1>0, <2>2 DEF WireInv, BufInv, Sending
    <2>5. i \in 0 .. 2
      BY <2>1, <2>4 DEF Stops
    <2>6. i - done[t] \in Nat /\ done[t] + (i - done[t]) <= 2
      BY <1>0, <2>1, <2>5
    <2> QED
      BY <1>3, <2>1, <2>2, <2>3, <2>6
  <1>6. CASE ~ Send(t) /\ ~ EndSend(t)
    <2>1. UNCHANGED <<stream, torn>>
      BY <1>6 DEF KeepAlive, BeginPing, RetryPing, EndPing, Serialize, WriteHeader, WriteLength,
         WriteRest, SendPacket, TestLoop, SendFails
    <2> QED
      BY <1>1, <1>2, <2>1, WireUntouched DEF WireInv
  <1> QED
    BY <1>4, <1>5, <1>6

\* The task keeps what is on the wire, by the place of the packet it sends.
LEMMA TaskKeepsWire ==
    ASSUME WireInv, TypeInv', Task
    PROVE  StreamInv' /\ TailInv'
  <1> USE DEF taskVars, threadVars, netVars
  <1>0. /\ FSM \in Thread /\ torn \in BOOLEAN /\ torn' \in BOOLEAN /\ chunk \in Nat /\ chunk' \in Nat
        /\ pc \in [Thread -> Places] /\ size \in [Thread -> Nat] /\ done \in [Thread -> Nat]
        /\ stream \in Seq(Byte) /\ Len(stream) \in Nat /\ NumChunks \in Nat /\ Loop(FSM)
        /\ task \in {"none", "connect", "chunk"}
    BY Constants, LenProperties DEF WireInv, TypeInv, LoopInv
  <1>1. ASSUME UNCHANGED <<stream, torn>>, pc[FSM] # "blocked", pc'[FSM] # "blocked",
               \/ UNCHANGED <<task, chunk>> /\ (done'[FSM] = done[FSM] \/ done[FSM] = 0)
               \/ chunk' >= chunk /\ task # "chunk"
               \/ chunk' = chunk + 1
        PROVE  StreamInv' /\ TailInv'
    <2>1. /\ stream' \in Seq(Byte) /\ Len(stream) <= Len(stream')
          /\ \A k \in 1 .. Len(stream) : stream'[k] = stream[k]
          /\ \A k \in Len(stream) + 1 .. Len(stream') : stream'[k] \in Headers \union Small
      <3>1. stream' = stream /\ Len(stream) <= Len(stream) /\ \A k \in Len(stream) + 1 .. Len(stream) : FALSE
        BY <1>0, <1>1
      <3> QED
        BY <1>0, <3>1
    <2>2. StreamInv'
      BY <1>0, <1>1, <2>1, QuietStep DEF WireInv
    <2> QED
      BY <1>1, <2>2 DEF TailInv
  <1>2. CASE Reconnect
    <2>1. stream' = <<>> /\ pc'[FSM] = "header"
      BY <1>0, <1>2 DEF Reconnect
    <2>2. Len(stream') = 0 /\ \A q \in 1 .. Len(stream') : FALSE
      BY <2>1
    <2> QED
      BY <2>1, <2>2 DEF StreamInv, TailInv
  <1>3. CASE EndConnect \/ EndPublish
    <2>1. /\ UNCHANGED <<stream, torn>> /\ pc[FSM] = "sent" /\ pc'[FSM] = "idle"
          /\ (task = "connect" /\ chunk' = chunk) \/ chunk' = chunk + 1
      BY <1>0, <1>3 DEF EndConnect, EndPublish, Finish, Step
    <2>2. chunk' = chunk => chunk' >= chunk
      BY <1>0
    <2> QED
      BY <1>1, <2>1, <2>2
  <1>4. CASE Discard \/ BeginPublish \/ FailPublish
    <2>1. /\ UNCHANGED <<stream, torn>> /\ task = "none" /\ pc'[FSM] # "blocked"
          /\ chunk' = chunk \/ chunk' = chunk + NumChunks \/ chunk' = chunk + 1
      <3>1. task = "none" => pc[FSM] = "idle"
        BY DEF WireInv, TypeInv
      <3> QED
        BY <1>0, <1>4, <3>1 DEF Discard, BeginPublish, FailPublish, Step
    <2>2. chunk' >= chunk /\ pc[FSM] # "blocked"
      BY <1>0, <2>1 DEF WireInv, TypeInv
    <2> QED
      BY <1>1, <2>1, <2>2
  <1>5. CASE Serialize(FSM)
    <2>1. /\ UNCHANGED <<stream, torn, task, chunk>> /\ pc[FSM] \notin Sending /\ pc'[FSM] # "blocked"
          /\ pc[FSM] # "blocked"
      BY <1>0, <1>5 DEF Serialize, WriteHeader, WriteLength, WriteRest, Step, Sending
    <2>2. done[FSM] = 0
      BY <2>1 DEF WireInv, TaskInv
    <2> QED
      BY <1>1, <2>1, <2>2
  <1>6. CASE TestLoop(FSM) \/ SendFails(FSM)
    <2>1. /\ UNCHANGED <<stream, torn, task, chunk, done>> /\ pc[FSM] # "blocked" /\ pc'[FSM] # "blocked"
      BY <1>0, <1>6 DEF TestLoop, SendFails, Step
    <2> QED
      BY <1>1, <2>1
  <1> DEFINE w == Wanted(FSM)
  <1>7. CASE Send(FSM)
    <2>1. PICK n \in Stops(size[FSM]) : /\ stream' = stream \o SubSeq(buf, done[FSM] + 1, done[FSM] + n)
                                        /\ done' = [done EXCEPT ![FSM] = @ + n]
      BY <1>7 DEF Send
    <2>2. pc[FSM] = "send" /\ pc'[FSM] = "blocked" /\ UNCHANGED <<torn, task, chunk>>
      BY <1>0, <1>7 DEF Send, Step
    <2>3. done[FSM] = 0 /\ n \in 0 .. size[FSM]
      BY <1>0, <2>1, <2>2 DEF Loop, Stops
    <2> DEFINE b == Len(stream)
               k == done[FSM] + n
    <2>4. /\ b \in Nat /\ n \in Nat /\ Len(stream) = b + done[FSM] /\ done[FSM] + n <= size[FSM]
          /\ k \in Nat /\ done[FSM] <= k
      BY <1>0, <2>3
    <2>5. Begins(stream, b, done[FSM], w)
      BY <2>3 DEF Begins
    <2> HIDE DEF b
    <2>6. /\ stream' \in Seq(Byte) /\ Len(stream') = b + k
          /\ \A m \in 1 .. Len(stream) : stream'[m] = stream[m]
          /\ Begins(stream', b, k, w) /\ Wanted(FSM)' = w
          /\ k <= Len(w)
      BY <2>1, <2>2, <2>4, <2>5, AppendTail DEF WireInv
    <2>7. done'[FSM] = k
      BY <1>0, <2>1
    <2> HIDE DEF k, w
    <2>8. StreamInv'
      BY <1>0, <2>2, <2>4, <2>5, <2>6, <2>7, FrontierStep DEF WireInv, w
    <2>9. Len(stream') - done'[FSM] = b /\ b >= 0
      BY <2>4, <2>6, <2>7
    <2> QED
      BY <2>6, <2>7, <2>8, <2>9 DEF TailInv
  <1>8. CASE EndSend(FSM)
    <2>1. PICK i \in Stops(size[FSM]) :
             /\ i >= done[FSM]
             /\ stream' = stream \o SubSeq(buf, done[FSM] + 1, done[FSM] + (i - done[FSM]))
             /\ done' = [done EXCEPT ![FSM] = @ + (i - done[FSM])]
             /\ torn' = (torn \/ (FSM = FSM /\ done[FSM] + (i - done[FSM]) \in 1 .. size[FSM] - 1))
      BY <1>8 DEF EndSend
    <2>2. pc[FSM] = "blocked" /\ pc'[FSM] = "write" /\ UNCHANGED <<task, chunk>>
      BY <1>0, <1>8 DEF EndSend, Step
    <2> DEFINE b == Len(stream) - done[FSM]
               n == i - done[FSM]
               k == done[FSM] + n
    <2>3. b >= 0 /\ Begins(stream, b, done[FSM], w)
      BY <2>2 DEF WireInv, TailInv
    <2>4. /\ b \in Nat /\ n \in Nat /\ Len(stream) = b + done[FSM] /\ done[FSM] + n <= size[FSM]
          /\ k \in Nat /\ done[FSM] <= k
      <3>1. i \in 0 .. size[FSM]
        BY <2>1 DEF Stops
      <3>2. done[FSM] \in Nat /\ Len(stream) \in Nat /\ size[FSM] \in Nat
        BY <1>0
      <3>3. \A l, d, j, z \in Nat : l - d >= 0 /\ j >= d /\ j <= z =>
               /\ l - d \in Nat /\ j - d \in Nat /\ l = (l - d) + d /\ d + (j - d) <= z
               /\ d + (j - d) \in Nat /\ d <= d + (j - d)
        OBVIOUS
      <3>4. i \in Nat /\ i <= size[FSM] /\ i >= done[FSM] /\ Len(stream) - done[FSM] >= 0
        BY <2>1, <2>3, <3>1, <3>2
      <3> QED
        BY <3>2, <3>3, <3>4
    <2>5. /\ stream' = stream \o SubSeq(buf, done[FSM] + 1, done[FSM] + n) /\ done'[FSM] = k
          /\ k \in 1 .. size[FSM] - 1 => torn'
      BY <1>0, <2>1
    <2> HIDE DEF b, n
    <2>6. /\ stream' \in Seq(Byte) /\ Len(stream') = b + k
          /\ \A m \in 1 .. Len(stream) : stream'[m] = stream[m]
          /\ Begins(stream', b, k, w) /\ Wanted(FSM)' = w
          /\ k <= Len(w)
      BY <2>2, <2>3, <2>4, <2>5, AppendTail DEF WireInv
    <2>7. k < Len(w) /\ k > 0 => torn'
      <3>1. size[FSM] = Len(w) /\ size[FSM] \in Nat
        BY <1>0, <2>2 DEF WireInv, BufInv, Sending
      <3> QED
        BY <2>4, <2>5, <3>1
    <2> HIDE DEF k, w
    <2>8. StreamInv'
      BY <1>0, <2>2, <2>3, <2>4, <2>5, <2>6, <2>7, FrontierStep DEF WireInv, w
    <2> QED
      BY <2>2, <2>8 DEF TailInv
  <1> QED
    BY <1>2, <1>3, <1>4, <1>5, <1>6, <1>7, <1>8 DEF Task, SendPacket

\* Every step keeps what is in the buffer and on the wire.
LEMMA WireInvStep == WireInv /\ [Next]_vars => WireInv'
  <1> SUFFICES ASSUME WireInv, [Next]_vars PROVE WireInv'
    OBVIOUS
  <1>1. TypeInv' /\ BufInv' /\ TaskInv'
    BY TypeInvStep, BufInvStep, TaskInvStep DEF WireInv
  <1>2. StreamInv' /\ TailInv'
    <2>1. CASE \E t \in Background : KeepAlive(t)
      BY <2>1, PingKeepsWire
    <2>2. CASE SessionCloses
      BY <2>2, WireUntouched DEF WireInv, SessionCloses, threadVars, netVars
    <2>3. CASE Task
      BY <1>1, <2>3, TaskKeepsWire
    <2>4. CASE UNCHANGED vars
      BY <2>4, WireUntouched DEF WireInv, vars, threadVars, netVars, taskVars
    <2> QED
      BY <2>1, <2>2, <2>3, <2>4 DEF Next
  <1> QED
    BY <1>1, <1>2 DEF WireInv

\* It holds at first: the CONNECT packet is on the wire, and no topic.
LEMMA WireInvInit == Init => WireInv
  <1> SUFFICES ASSUME Init PROVE WireInv
    OBVIOUS
  <1>1. TypeInv
    BY TypeInvInit
  <1>2. FSM \in Thread /\ FSM \notin Background /\ \A t \in Background : t \in Thread
    BY Constants
  <1>3. pc[FSM] = "idle" /\ \A t \in Background : pc[t] = "idle"
    BY <1>2 DEF Init
  <1>4. /\ stream = ConnectPacket /\ ConnectPacket \in Seq(Byte) /\ Len(ConnectPacket) \in 4 .. 6
        /\ ConnectPacket[1] \in Headers /\ ConnectPacket[2] \in Small
        /\ \A m \in 2 .. Len(ConnectPacket) : ConnectPacket[m] \notin 21 .. 20 + N
    BY ConnectParts DEF Init, ConnectPacket, Headers
  <1>5. BufInv
    <2> DEFINE pad == [i \in 1 .. 8 |-> 0]
    <2>1. pad \in Seq(Byte) /\ Len(pad) = 8
      BY DEF Byte
    <2> HIDE DEF pad
    <2>2. buf = ConnectPacket \o pad
      BY DEF Init, ConnectPacket, pad
    <2>3. \A k \in 1 .. Len(ConnectPacket) + Len(pad) : (ConnectPacket \o pad)[k] =
             IF k <= Len(ConnectPacket) THEN ConnectPacket[k] ELSE pad[k - Len(ConnectPacket)]
      BY <1>4, <2>1, ConcatProperties, Zenon
    <2>4. \A n \in 4 .. 6 : 1 \in 1 .. n + 8 /\ 1 <= n /\ 2 \in 1 .. n + 8 /\ 2 <= n
      OBVIOUS
    <2>5. buf[1] = ConnectPacket[1] /\ buf[2] = ConnectPacket[2]
      BY <1>4, <2>1, <2>2, <2>3, <2>4
    <2> QED
      BY <1>3, <1>4, <2>5 DEF BufInv, Sending
  <1>6. TaskInv
    BY <1>2 DEF Init, TaskInv, Sending
  <1>7. TailInv
    BY <1>3 DEF TailInv
  <1>8. StreamInv
    <2>1. ASSUME NEW q \in 1 .. Len(stream), NEW i \in 1 .. N PROVE ~ ChunkAt(stream, q, i)
      <3>1. ASSUME ChunkAt(stream, q, i) PROVE FALSE
        <4>1. q + 2 <= Len(stream) /\ stream[q + 2] = 20 + i
          BY <3>1 DEF ChunkAt
        <4>2. N \in Nat /\ Len(stream) \in Nat
          BY <1>4, Chunks, LenProperties
        <4>3. q + 2 \in 2 .. Len(stream) /\ 20 + i \in 21 .. 20 + N
          BY <4>1, <4>2
        <4> QED
          BY <1>4, <4>1, <4>3
      <3> QED
        BY <3>1
    <2> QED
      BY <2>1 DEF StreamInv
  <1> QED
    BY <1>1, <1>5, <1>6, <1>7, <1>8 DEF WireInv

(***************************************************************************)
(* The broker.  Accepted is recursive; what is needed of it is where in    *)
(* the stream its packets stand.  (Induction: the library's theorems take  *)
(* a predicate, the provers need a set.)                                   *)
(***************************************************************************)

\* Every set of natural numbers that is not empty has a smallest element.
LEMMA Smallest ==
    ASSUME NEW T, T \subseteq Nat, T # {}
    PROVE  \E x \in T : \A y \in T : x <= y
  <1> DEFINE R == OpToRel(<, Nat)
  <1>1. IsWellFoundedOn(R, Nat)
    BY NatLessThanWellFounded
  <1>2. \A x, y \in Nat : y < x => <<y, x>> \in R
    BY DEF OpToRel
  <1> HIDE DEF R
  <1>3. PICK x \in T : \A y \in T : ~ (<<y, x>> \in R)
    BY <1>1, WFMin
  <1>4. \A y \in T : ~ (y < x)
    BY <1>2, <1>3
  <1> QED
    BY <1>3, <1>4

\* Induction up to n: a set that has 0 and with each number the next has them all.
LEMMA UpTo ==
    ASSUME NEW n \in Nat, NEW G, 0 \in G, \A i \in 0 .. n - 1 : i \in G => i + 1 \in G
    PROVE  \A i \in 0 .. n : i \in G
  <1> DEFINE T == {i \in 0 .. n : i \notin G}
  <1>1. SUFFICES ASSUME T # {} PROVE FALSE
    OBVIOUS
  <1>2. T \subseteq Nat
    OBVIOUS
  <1> HIDE DEF T
  <1>3. PICK x \in T : \A y \in T : x <= y
    BY <1>1, <1>2, Smallest
  <1>4. x \in 0 .. n /\ x \notin G
    BY <1>3 DEF T
  <1>5. x - 1 \in 0 .. n - 1 /\ x - 1 + 1 = x /\ x - 1 \in 0 .. n /\ ~ (x <= x - 1)
    BY <1>4
  <1>6. x - 1 \notin T
    BY <1>3, <1>5
  <1> QED
    BY <1>4, <1>5, <1>6 DEF T

\* decodePacket finds a length of up to four bytes, of which only the last has no flag.
LEMMA LengthLenIs ==
    ASSUME NEW s \in Seq(Byte), NEW p \in Nat \ {0}, NEW j, j = LengthLen(s, p), j # 0
    PROVE  j \in 1 .. 4 /\ p + j <= Len(s) /\ s[p + j] \in 0 .. 127
           /\ \A i \in 1 .. j - 1 : s[p + i] \in 128 .. 255
  <1> DEFINE ends == {k \in 1 .. 4 : p + k <= Len(s) /\ s[p + k] < 128}
  <1>0. Len(s) \in Nat
    BY LenProperties
  <1>1. j = IF ends = {} THEN 0 ELSE Min(ends)
    BY DEF LengthLen
  <1>2. ends \subseteq Nat /\ ends # {}
    BY <1>1
  <1>3. j \in ends /\ \A k \in ends : j <= k
    <2> HIDE DEF ends
    <2>1. \E k \in ends : \A m \in ends : k <= m
      BY <1>2, Smallest
    <2> QED
      BY <1>1, <1>2, <2>1 DEF Min
  <1>4. j \in 1 .. 4 /\ p + j <= Len(s) /\ s[p + j] < 128
    BY <1>3
  <1>5. \A i \in 1 .. j : s[p + i] \in Byte
    <2>1. \A i \in 1 .. j : p + i \in 1 .. Len(s)
      BY <1>0, <1>4
    <2> QED
      BY <2>1, ElementOfSeq
  <1>8. /\ \A b \in Byte : b < 128 => b \in 0 .. 127
        /\ \A b \in Byte : ~ (b < 128) => b \in 128 .. 255
    BY DEF Byte
  <1>6. ASSUME NEW i \in 1 .. j - 1 PROVE s[p + i] \in 128 .. 255
    <2>1. i \in 1 .. 4 /\ p + i <= Len(s) /\ i \in 1 .. j /\ ~ (j <= i)
      BY <1>0, <1>4
    <2>2. i \notin ends
      BY <1>3, <2>1
    <2>3. ~ (s[p + i] < 128)
      BY <2>1, <2>2
    <2> QED
      BY <1>5, <1>8, <2>1, <2>3
  <1>7. s[p + j] \in 0 .. 127
    <2>1. j \in 1 .. j
      BY <1>4
    <2>2. s[p + j] \in Byte
      BY <1>5, <2>1
    <2>3. s[p + j] < 128
      BY <1>4
    <2> QED
      BY <1>8, <2>2, <2>3
  <1> QED
    BY <1>4, <1>6, <1>7

\* The length is a natural number.
LEMMA DecodeIsNat ==
    ASSUME NEW s \in Seq(Byte), NEW p \in Nat \ {0}
    PROVE  DecodeLength(s, p) \in Nat
  <1> DEFINE l == LengthLen(s, p)
             digit(j) == IF j <= l THEN s[p + j] % 128 ELSE 0
  <1>1. ASSUME NEW j \in 1 .. 4 PROVE digit(j) \in Nat
    <2>1. CASE l = 0
      BY <2>1
    <2>2. CASE l # 0
      <3>1. l \in 1 .. 4 /\ p + l <= Len(s) /\ Len(s) \in Nat
        BY <2>2, LengthLenIs, LenProperties
      <3> HIDE DEF l
      <3>2. ASSUME j <= l PROVE s[p + j] \in Byte
        <4>1. p + j \in 1 .. Len(s)
          BY <3>1, <3>2
        <4> QED
          BY <4>1, ElementOfSeq
      <3>3. \A b \in Byte : b % 128 \in Nat
        BY DEF Byte
      <3> QED
        BY <3>2, <3>3
    <2> QED
      BY <2>1, <2>2
  <1>2. DecodeLength(s, p) = digit(1) + LenBase * (digit(2) + LenBase * (digit(3) + LenBase * digit(4)))
    BY DEF DecodeLength
  <1> HIDE DEF digit
  <1>3. \A x, y \in Nat : x + LenBase * y \in Nat
    BY Base, SMTT(30)
  <1>4. digit(1) \in Nat /\ digit(2) \in Nat /\ digit(3) \in Nat /\ digit(4) \in Nat
    BY <1>1
  <1>5. digit(3) + LenBase * digit(4) \in Nat
    BY <1>3, <1>4
  <1>6. digit(2) + LenBase * (digit(3) + LenBase * digit(4)) \in Nat
    BY <1>3, <1>4, <1>5
  <1> QED
    BY <1>2, <1>3, <1>4, <1>6

\* The packet at place p, and its last byte; and when the broker takes it.
WellFormed(type, body, first) ==
    IF first THEN type = CONNECT /\ body = ConnectBody
    ELSE \/ type = PINGREQ /\ body = <<>>
         \/ type = PUBLISH /\ Len(body) >= 2 /\ 256 * body[1] + body[2] <= Len(body) - 2
PacketEnd(s, p) == p + LengthLen(s, p) + DecodeLength(s, p)
PacketAt(s, p) == [type |-> s[p], body |-> SubSeq(s, p + LengthLen(s, p) + 1, PacketEnd(s, p))]
Accepts(s, p) ==
    /\ p <= Len(s) /\ LengthLen(s, p) # 0 /\ PacketEnd(s, p) <= Len(s)
    /\ WellFormed(PacketAt(s, p).type, PacketAt(s, p).body, p = 1)

\* The recursion of Accepted, from place p on.
GoOn(s, q, f) ==
    IF q > Len(s) \/ LengthLen(s, q) = 0 \/ PacketEnd(s, q) > Len(s) THEN <<>>
    ELSE IF ~ WellFormed(s[q], SubSeq(s, q + LengthLen(s, q) + 1, PacketEnd(s, q)), q = 1) THEN <<>>
    ELSE <<PacketAt(s, q)>> \o f[PacketEnd(s, q) + 1]
From(s, p, f) == [q \in p .. Len(s) + 1 |-> GoOn(s, q, f)]

\* A packet ends after it begins, and where the broker takes it not after the last byte.
LEMMA EndAfter ==
    ASSUME NEW s \in Seq(Byte), NEW p \in Nat \ {0}, Accepts(s, p)
    PROVE  PacketEnd(s, p) \in Nat /\ PacketEnd(s, p) > p /\ PacketEnd(s, p) <= Len(s)
  <1>1. LengthLen(s, p) \in 1 .. 4 /\ DecodeLength(s, p) \in Nat
    BY LengthLenIs, DecodeIsNat DEF Accepts
  <1> QED
    BY <1>1 DEF PacketEnd, Accepts

\* It goes on where the broker takes the packet.
LEMMA GoesOn ==
    ASSUME NEW s \in Seq(Byte), NEW q \in Nat \ {0}, NEW f
    PROVE  GoOn(s, q, f) = IF Accepts(s, q) THEN <<PacketAt(s, q)>> \o f[PacketEnd(s, q) + 1] ELSE <<>>
  <1>1. Len(s) \in Nat
    BY LenProperties
  <1>2. LengthLen(s, q) # 0 => PacketEnd(s, q) \in Nat
    <2>1. LengthLen(s, q) # 0 => LengthLen(s, q) \in 1 .. 4
      BY LengthLenIs
    <2>2. DecodeLength(s, q) \in Nat
      BY DecodeIsNat
    <2> QED
      BY <2>1, <2>2 DEF PacketEnd
  <1>3. q > Len(s) <=> ~ (q <= Len(s))
    BY <1>1
  <1>4. LengthLen(s, q) # 0 => (PacketEnd(s, q) > Len(s) <=> ~ (PacketEnd(s, q) <= Len(s)))
    BY <1>1, <1>2
  <1>5. PacketAt(s, q).type = s[q]
        /\ PacketAt(s, q).body = SubSeq(s, q + LengthLen(s, q) + 1, PacketEnd(s, q))
    BY DEF PacketAt
  <1> QED
    BY <1>3, <1>4, <1>5 DEF GoOn, Accepts

\* There is a function that obeys the recursion.
LEMMA FromExists ==
    ASSUME NEW s \in Seq(Byte)
    PROVE  \E f : f = From(s, 1, f)
  <1> DEFINE l == Len(s)
             G == {m \in 0 .. l : \E f : f = From(s, l + 1 - m, f)}
  <1>0. l \in Nat
    BY LenProperties
  <1>1. 0 \in G
    <2> DEFINE f == [q \in l + 1 .. l + 1 |-> <<>>]
    <2>1. l + 1 - 0 = l + 1 /\ ~ (l + 1 <= l)
      BY <1>0
    <2>2. \A q \in l + 1 .. l + 1 : ~ Accepts(s, q)
      BY <1>0 DEF Accepts
    <2>4. \A q \in l + 1 .. l + 1 : GoOn(s, q, f) = <<>>
      <3>1. \A q \in l + 1 .. l + 1 : q \in Nat \ {0}
        BY <1>0
      <3> HIDE DEF f
      <3> QED
        BY <2>2, <3>1, GoesOn
    <2>3. f = From(s, l + 1, f)
      <3> DEFINE h == f
      <3>1. From(s, l + 1, h) = [q \in l + 1 .. l + 1 |-> GoOn(s, q, h)]
        BY DEF From
      <3>2. \A q \in l + 1 .. l + 1 : GoOn(s, q, h) = <<>>
        BY <2>4
      <3> HIDE DEF h
      <3>3. From(s, l + 1, h) = [q \in l + 1 .. l + 1 |-> <<>>]
        BY <3>1, <3>2
      <3> QED
        BY <3>3 DEF h
    <2> HIDE DEF f, l
    <2> QED
      BY <1>0, <2>1, <2>3
  <1>2. ASSUME NEW m \in 0 .. l - 1, m \in G PROVE m + 1 \in G
    <2> DEFINE p == l + 1 - (m + 1)
    <2>1. PICK f : f = From(s, l + 1 - m, f)
      BY <1>2
    <2>2. l + 1 - m = p + 1 /\ p \in Nat \ {0} /\ p <= l /\ m + 1 \in 0 .. l
      BY <1>0
    <2> DEFINE g == [q \in p .. l + 1 |-> IF q = p THEN IF Accepts(s, p) THEN <<PacketAt(s, p)>> \o f[PacketEnd(s, p) + 1]
                                                       ELSE <<>>
                                          ELSE f[q]]
    <2>3. f = From(s, p + 1, f)
      BY <2>1, <2>2
    <2> HIDE DEF p
    <2>4. ASSUME NEW q \in p .. l + 1
          PROVE  g[q] = IF Accepts(s, q) THEN <<PacketAt(s, q)>> \o g[PacketEnd(s, q) + 1] ELSE <<>>
      <3>1. q \in Nat \ {0}
        BY <1>0, <2>2
      <3>2. Accepts(s, q) => PacketEnd(s, q) + 1 \in p .. l + 1 /\ PacketEnd(s, q) + 1 # p
        <4>1. Accepts(s, q) => PacketEnd(s, q) \in Nat /\ PacketEnd(s, q) > q /\ PacketEnd(s, q) <= l
          BY <3>1, EndAfter
        <4> QED
          BY <1>0, <2>2, <4>1
      <3>3. Accepts(s, q) => g[PacketEnd(s, q) + 1] = f[PacketEnd(s, q) + 1]
        BY <3>2
      <3>4. CASE q = p
        BY <3>3, <3>4
      <3>5. CASE q # p
        <4>1. q \in p + 1 .. l + 1
          BY <1>0, <2>2, <3>5
        <4>2. f[q] = IF Accepts(s, q) THEN <<PacketAt(s, q)>> \o f[PacketEnd(s, q) + 1] ELSE <<>>
          <5>1. f[q] = GoOn(s, q, f)
            BY <2>3, <4>1 DEF From
          <5> QED
            BY <3>1, <5>1, GoesOn
        <4> QED
          BY <3>3, <3>5, <4>2
      <3> QED
        BY <3>4, <3>5
    <2>5. g = From(s, p, g)
      <3>1. g = [q \in p .. l + 1 |-> g[q]]
        OBVIOUS
      <3> HIDE DEF g
      <3>2. \A q \in p .. l + 1 : q \in Nat \ {0}
        BY <1>0, <2>2
      <3>3. \A q \in p .. l + 1 : g[q] = GoOn(s, q, g)
        BY <2>4, <3>2, GoesOn
      <3> QED
        BY <3>1, <3>3 DEF From
    <2> HIDE DEF g
    <2> QED
      BY <2>2, <2>5 DEF p
  <1>3. l \in G
    <2> HIDE DEF G, l
    <2>1. \A m \in 0 .. l : m \in G
      BY <1>0, <1>1, <1>2, UpTo
    <2> QED
      BY <1>0, <2>1
  <1>4. l + 1 - l = 1
    BY <1>0
  <1> QED
    BY <1>3, <1>4

\* Where the packets got stand in s, from place p on: one after the other.
Stand(s, got, at, p) ==
    /\ Len(got) = Len(at)
    /\ \A k \in 1 .. Len(at) : at[k] >= p /\ Accepts(s, at[k]) /\ got[k] = PacketAt(s, at[k])
    /\ \A j, k \in 1 .. Len(at) : j < k => PacketEnd(s, at[j]) < at[k]

\* The packets the broker accepts stand in the stream one after the other.
LEMMA AcceptedStand ==
    ASSUME NEW s \in Seq(Byte)
    PROVE  \E at \in Seq(1 .. Len(s)) : Stand(s, Accepted(s), at, 1)
  <1> DEFINE l == Len(s)
             from == CHOOSE f : f = From(s, 1, f)
             T == {PacketAt(s, p) : p \in 1 .. l}
  <1>0. l \in Nat
    BY LenProperties
  <1>1. Accepted(s) = from[1]
    BY DEF Accepted, From, GoOn, PacketAt, PacketEnd, WellFormed
  <1>2. from = From(s, 1, from)
    BY FromExists
  <1> HIDE DEF from
  <1>3. ASSUME NEW q \in 1 .. l + 1
        PROVE  from[q] = IF Accepts(s, q) THEN <<PacketAt(s, q)>> \o from[PacketEnd(s, q) + 1] ELSE <<>>
    <2>1. from[q] = GoOn(s, q, from)
      BY <1>2 DEF From
    <2>2. q \in Nat \ {0}
      BY <1>0
    <2> QED
      BY <2>1, <2>2, GoesOn
  <1> DEFINE Good(p) == from[p] \in Seq(T) /\ \E at \in Seq(1 .. l) : Stand(s, from[p], at, p)
             G == {m \in 0 .. l : \A p \in l + 1 - m .. l + 1 : Good(p)}
  <1>4. ASSUME NEW p \in 1 .. l + 1, ~ Accepts(s, p) PROVE Good(p)
    <2>1. from[p] = <<>>
      BY <1>3, <1>4
    <2>2. <<>> \in Seq(T) /\ <<>> \in Seq(1 .. l) /\ Len(<<>>) = 0
      BY EmptySeq
    <2>3. Stand(s, <<>>, <<>>, p)
      BY <2>2 DEF Stand
    <2> HIDE DEF T
    <2> QED
      BY <2>1, <2>2, <2>3
  <1>5. ASSUME NEW p \in 1 .. l + 1, Accepts(s, p), Good(PacketEnd(s, p) + 1) PROVE Good(p)
    <2> DEFINE e == PacketEnd(s, p)
               a == PacketAt(s, p)
               g == from[e + 1]
    <2>1. e \in Nat /\ e > p /\ e <= l /\ p \in 1 .. l
      BY <1>0, <1>5, EndAfter
    <2>2. PICK at \in Seq(1 .. l) : Stand(s, g, at, e + 1)
      BY <1>5
    <2>3. g \in Seq(T) /\ from[p] = <<a>> \o g /\ a \in T
      BY <1>3, <1>5, <2>1
    <2> HIDE DEF e, a, g, T
    <2>4. /\ <<a>> \o g \in Seq(T) /\ Len(<<a>> \o g) = 1 + Len(g)
          /\ \A k \in 1 .. 1 + Len(g) : (<<a>> \o g)[k] = IF k <= 1 THEN <<a>>[k] ELSE g[k - 1]
      <3>1. <<a>> \in Seq(T) /\ Len(<<a>>) = 1
        BY <2>3
      <3>2. /\ <<a>> \o g \in Seq(T) /\ Len(<<a>> \o g) = Len(<<a>>) + Len(g)
            /\ \A k \in 1 .. Len(<<a>>) + Len(g) : (<<a>> \o g)[k] = IF k <= Len(<<a>>) THEN <<a>>[k] ELSE g[k - Len(<<a>>)]
        BY <2>3, <3>1, ConcatProperties, Zenon
      <3> QED
        BY <3>1, <3>2
    <2>5. /\ <<p>> \o at \in Seq(1 .. l) /\ Len(<<p>> \o at) = 1 + Len(at)
          /\ \A k \in 1 .. 1 + Len(at) : (<<p>> \o at)[k] = IF k <= 1 THEN <<p>>[k] ELSE at[k - 1]
      <3>1. <<p>> \in Seq(1 .. l) /\ Len(<<p>>) = 1
        BY <2>1
      <3>2. /\ <<p>> \o at \in Seq(1 .. l) /\ Len(<<p>> \o at) = Len(<<p>>) + Len(at)
            /\ \A k \in 1 .. Len(<<p>>) + Len(at) : (<<p>> \o at)[k] = IF k <= Len(<<p>>) THEN <<p>>[k] ELSE at[k - Len(<<p>>)]
        BY <2>1, <2>2, <3>1, ConcatProperties, Zenon
      <3> QED
        BY <3>1, <3>2
    <2> DEFINE u == <<a>> \o g
               v == <<p>> \o at
               n == Len(at)
    <2>6. /\ n \in Nat /\ Len(g) = n
          /\ \A k \in 1 .. n : at[k] >= e + 1 /\ at[k] \in 1 .. l /\ Accepts(s, at[k]) /\ g[k] = PacketAt(s, at[k])
          /\ \A j, k \in 1 .. n : j < k => PacketEnd(s, at[j]) < at[k]
      BY <2>2, LenProperties, ElementOfSeq DEF Stand
    <2>7. /\ Len(u) = 1 + n /\ Len(v) = 1 + n /\ u[1] = a /\ v[1] = p
          /\ \A k \in 2 .. 1 + n : k - 1 \in 1 .. n /\ u[k] = g[k - 1] /\ v[k] = at[k - 1]
      <3>1. 1 \in 1 .. 1 + n /\ \A k \in 2 .. 1 + n : k \in 1 .. 1 + n /\ ~ (k <= 1) /\ k - 1 \in 1 .. n
        BY <2>6
      <3> QED
        BY <2>4, <2>5, <2>6, <3>1
    <2> HIDE DEF u, v, n
    <2>8. ASSUME NEW k \in 1 .. 1 + n PROVE v[k] >= p /\ Accepts(s, v[k]) /\ u[k] = PacketAt(s, v[k])
      <3>1. CASE k = 1
        BY <1>5, <2>1, <2>7, <3>1 DEF a
      <3>2. CASE k # 1
        <4>1. k \in 2 .. 1 + n
          BY <2>6, <3>2
        <4>2. at[k - 1] >= p
          BY <2>1, <2>6, <2>7, <4>1
        <4> QED
          BY <2>6, <2>7, <4>1, <4>2
      <3> QED
        BY <3>1, <3>2
    <2>9. ASSUME NEW j \in 1 .. 1 + n, NEW k \in 1 .. 1 + n, j < k PROVE PacketEnd(s, v[j]) < v[k]
      <3>1. k \in 2 .. 1 + n
        BY <2>6, <2>9
      <3>2. CASE j = 1
        <4>1. v[j] = p /\ v[k] >= e + 1 /\ v[k] \in 1 .. l
          BY <2>6, <2>7, <3>1, <3>2
        <4> QED
          BY <2>1, <4>1 DEF e
      <3>3. CASE j # 1
        <4>1. j \in 2 .. 1 + n /\ j - 1 < k - 1
          BY <2>6, <2>9, <3>3
        <4> QED
          BY <2>6, <2>7, <3>1, <4>1
      <3> QED
        BY <3>2, <3>3
    <2>10. Stand(s, u, v, p)
      BY <2>7, <2>8, <2>9 DEF Stand
    <2>11. u \in Seq(T) /\ v \in Seq(1 .. l) /\ from[p] = u
      BY <2>3, <2>4, <2>5 DEF u, v
    <2> QED
      BY <2>10, <2>11 DEF T
  <1> HIDE DEF Good
  <1>6. 0 \in G
    <2>1. \A p \in l + 1 - 0 .. l + 1 : p \in 1 .. l + 1 /\ ~ Accepts(s, p)
      BY <1>0 DEF Accepts
    <2> QED
      BY <1>0, <1>4, <2>1
  <1>7. ASSUME NEW m \in 0 .. l - 1, m \in G PROVE m + 1 \in G
    <2> DEFINE p == l + 1 - (m + 1)
    <2>1. p \in 1 .. l + 1 /\ l + 1 - m = p + 1 /\ m + 1 \in 0 .. l
      BY <1>0
    <2>2. \A q \in p + 1 .. l + 1 : Good(q)
      BY <1>7, <2>1
    <2>3. Accepts(s, p) => PacketEnd(s, p) + 1 \in p + 1 .. l + 1
      <3>1. Accepts(s, p) => PacketEnd(s, p) \in Nat /\ PacketEnd(s, p) > p /\ PacketEnd(s, p) <= l
        BY <2>1, EndAfter
      <3> QED
        BY <1>0, <2>1, <3>1
    <2>4. Good(p)
      BY <1>4, <1>5, <2>1, <2>2, <2>3
    <2>5. \A q \in p .. l + 1 : q = p \/ q \in p + 1 .. l + 1
      BY <1>0, <2>1
    <2> HIDE DEF l
    <2> QED
      BY <2>1, <2>2, <2>4, <2>5
  <1>8. l \in G
    <2> HIDE DEF G, l
    <2>1. \A m \in 0 .. l : m \in G
      BY <1>0, <1>6, <1>7, UpTo
    <2> QED
      BY <1>0, <2>1
  <1>9. Good(1)
    <2>1. 1 \in l + 1 - l .. l + 1
      BY <1>0
    <2> QED
      BY <1>8, <2>1
  <1> QED
    BY <1>1, <1>9 DEF Good

(***************************************************************************)
(* A packet that reaches the receiver is one of the task: its topic stands *)
(* where the broker finds it, so that the packet begins where the task     *)
(* began it, and has its length.                                           *)
(***************************************************************************)

\* Where the broker finds the topic of the packet at place x.
TopicPlace(s, x) == x + LengthLen(s, x) + 1

\* It finds one there if the packet reaches the receiver.
LEMMA TopicThere ==
    ASSUME NEW s \in Seq(Byte), NEW x \in 1 .. Len(s), Accepts(s, x), Reaches(PacketAt(s, x))
    PROVE  /\ s[x] = PUBLISH /\ TopicPlace(s, x) \in 1 .. Len(s)
           /\ TopicPlace(s, x) + 2 <= PacketEnd(s, x)
           /\ \E i \in 1 .. N : ChunkAt(s, TopicPlace(s, x), i)
  <1> DEFINE q == TopicPlace(s, x)
             e == PacketEnd(s, x)
             body == SubSeq(s, q, e)
  <1>0. Len(s) \in Nat /\ x \in Nat \ {0}
    BY LenProperties
  <1>1. LengthLen(s, x) \in 1 .. 4 /\ e \in Nat /\ e <= Len(s)
    BY <1>0, EndAfter, LengthLenIs DEF Accepts
  <1>2. q \in Nat /\ q >= 1
    BY <1>0, <1>1 DEF TopicPlace
  <1>3. PacketAt(s, x).type = s[x] /\ PacketAt(s, x).body = body
    BY DEF PacketAt, TopicPlace
  <1>4. /\ s[x] = PUBLISH /\ Len(body) >= 3
        /\ \E i \in 1 .. N : SubSeq(body, 1, 3) = <<0, 1>> \o Topic(i)
    BY <1>3 DEF Reaches, N
  <1> HIDE DEF q, e
  <1>5. /\ body \in Seq(Byte) /\ Len(body) = IF q <= e THEN e - q + 1 ELSE 0
        /\ \A k \in 1 .. e - q + 1 : body[k] = s[q + k - 1]
    <2>1. \A k \in q .. e : k \in 1 .. Len(s)
      BY <1>0, <1>1, <1>2
    <2>2. \A k \in q .. e : s[k] \in Byte
      BY <2>1, ElementOfSeq
    <2> HIDE DEF Byte
    <2> QED
      BY <1>1, <1>2, <2>2, SubSeqProperties
  <1>6. q + 2 <= e
    BY <1>1, <1>2, <1>4, <1>5
  <1> HIDE DEF body
  <1>7. body[1] = s[q] /\ body[2] = s[q + 1] /\ body[3] = s[q + 2]
    <2>1. /\ 1 \in 1 .. e - q + 1 /\ 2 \in 1 .. e - q + 1 /\ 3 \in 1 .. e - q + 1
          /\ q + 1 - 1 = q /\ q + 2 - 1 = q + 1 /\ q + 3 - 1 = q + 2
      BY <1>1, <1>2, <1>6
    <2> QED
      BY <1>5, <2>1
  <1>8. PICK i \in 1 .. N : SubSeq(body, 1, 3) = <<0, 1>> \o Topic(i)
    BY <1>4
  <1>9. body[1] = 0 /\ body[2] = 1 /\ body[3] = 20 + i
    <2>1. \A k \in 1 .. 3 : body[k] \in Byte
      <3>1. Len(body) \in Nat /\ \A k \in 1 .. 3 : k \in 1 .. Len(body)
        BY <1>4, <1>5, LenProperties
      <3> QED
        BY <1>5, <3>1, ElementOfSeq
    <2>2. \A k \in 1 .. 3 - 1 + 1 : SubSeq(body, 1, 3)[k] = body[1 + k - 1]
      BY <2>1, SubSeqProperties
    <2>3. /\ SubSeq(body, 1, 3)[1] = body[1] /\ SubSeq(body, 1, 3)[2] = body[2]
          /\ SubSeq(body, 1, 3)[3] = body[3]
      BY <2>2
    <2>4. /\ (<<0, 1>> \o Topic(i))[1] = 0 /\ (<<0, 1>> \o Topic(i))[2] = 1
          /\ (<<0, 1>> \o Topic(i))[3] = 20 + i
      <3>1. <<0, 1>> \in Seq(Int) /\ <<20 + i>> \in Seq(Int) /\ Len(<<0, 1>>) = 2 /\ Len(<<20 + i>>) = 1
        OBVIOUS
      <3> QED
        BY <3>1, ConcatProperties DEF Topic
    <2> QED
      BY <1>8, <2>3, <2>4, Zenon
  <1>10. q + 2 <= Len(s) /\ q \in 1 .. Len(s)
    BY <1>0, <1>1, <1>2, <1>6
  <1>11. ChunkAt(s, q, i)
    BY <1>7, <1>9, <1>10 DEF ChunkAt
  <1> QED
    BY <1>4, <1>6, <1>10, <1>11 DEF q, e

\* The digits in the packet of a chunk.
LEMMA ChunkDigits ==
    ASSUME NEW i \in 1 .. N
    PROVE  /\ Wide(i) \in 1 .. 3 /\ ChunkPacket(i)[Wide(i) + 1] \in 0 .. 127
           /\ \A m \in 1 .. Wide(i) - 1 : ChunkPacket(i)[m + 1] \in 128 .. 255
           /\ \A m \in 1 .. Len(ChunkBody(i)) : ChunkPacket(i)[Wide(i) + 1 + m] = ChunkBody(i)[m]
           /\ Len(ChunkBody(i)) \in 4 .. 5
           /\ \A s, x : LengthLen(s, x) = Wide(i)
                        /\ (\A m \in 1 .. Wide(i) : s[x + m] = ChunkPacket(i)[m + 1])
                           => DecodeLength(s, x) = Len(ChunkBody(i))
  <1> DEFINE b == ChunkBody(i)
             n == Len(b)
             p == ChunkPacket(i)
             w == Wide(i)
             d == Digits(n)
  <1>1. b \in Seq(Byte) /\ n \in 4 .. 5
    BY BodyParts
  <1>2. PUBLISH \in Byte /\ n \in 0 .. 5
    BY <1>1 DEF PUBLISH, Byte
  <1>3. p = Packet(PUBLISH, b) /\ w = Width(n) /\ n = Len(b)
    BY DEF ChunkPacket, Wide
  <1>4. n < B4 /\ Value(d) = n
    <2>1. \A k \in 0 .. 5 : k \in Nat /\ k < B4
      BY SmallDigits
    <2>2. \A k \in 0 .. 5 : Value(Digits(k)) = k
      BY <2>1, DigitsAddUp
    <2> QED
      BY <1>2, <2>1, <2>2
  <1> HIDE DEF b, n, p, w, d
  <1>5. IsPacket(p, PUBLISH, n, b)
    BY <1>1, <1>2, <1>3, PacketParts
  <1>6. /\ w \in 1 .. 3 /\ HasShape(d, w) /\ \A m \in 1 .. w : p[1 + m] = d[m]
        /\ \A m \in 1 .. n : p[1 + w + m] = b[m]
    BY <1>3, <1>5 DEF IsPacket, d
  <1>7. Len(d) = w /\ d[w] \in 0 .. 127 /\ \A m \in 1 .. w - 1 : d[m] \in 128 .. 255
    BY <1>6 DEF HasShape
  <1>8. \A m \in 1 .. w : p[m + 1] = d[m]
    <2>1. \A m \in 1 .. w : m + 1 = 1 + m
      OBVIOUS
    <2> QED
      BY <1>6, <2>1
  <1>9. p[w + 1] \in 0 .. 127 /\ \A m \in 1 .. w - 1 : p[m + 1] \in 128 .. 255
    <2>1. w \in 1 .. w /\ \A m \in 1 .. w - 1 : m \in 1 .. w
      BY <1>6
    <2> QED
      BY <1>7, <1>8, <2>1
  <1>10. \A m \in 1 .. n : p[w + 1 + m] = b[m]
    <2>1. w + 1 = 1 + w
      BY <1>6
    <2> QED
      BY <1>6, <2>1
  <1>11. ASSUME NEW s, NEW x, LengthLen(s, x) = w, \A m \in 1 .. w : s[x + m] = p[m + 1]
         PROVE  DecodeLength(s, x) = n
    <2>1. \A j \in 1 .. 4 : (IF j <= LengthLen(s, x) THEN s[x + j] % 128 ELSE 0)
                          = (IF j <= Len(d) THEN d[j] % 128 ELSE 0)
      BY <1>6, <1>7, <1>8, <1>11
    <2>2. DecodeLength(s, x) = Value(d)
      BY <2>1 DEF DecodeLength, Value
    <2> QED
      BY <1>4, <2>2
  <1> QED
    BY <1>1, <1>6, <1>9, <1>10, <1>11 DEF b, n, p, w

\* The packet begins where the task began it, and is as long.
LEMMA Aligned ==
    ASSUME NEW s \in Seq(Byte), NEW x \in 1 .. Len(s), Accepts(s, x), s[x] = PUBLISH,
           TopicPlace(s, x) + 2 <= PacketEnd(s, x),
           NEW i \in 1 .. N, Front(s, TopicPlace(s, x), i)
    PROVE  /\ LengthLen(s, x) = Wide(i) /\ Start(TopicPlace(s, x), i) + 1 = x
           /\ PacketEnd(s, x) = Start(TopicPlace(s, x), i) + Len(ChunkPacket(i))
  <1> DEFINE l == LengthLen(s, x)
             w == Wide(i)
             c == ChunkPacket(i)
             a == Start(TopicPlace(s, x), i)
             z == DecodeLength(s, x)
             n == Len(ChunkBody(i))
  <1>0. x \in Nat \ {0} /\ x \in Nat
    BY LenProperties
  <1>1. l \in 1 .. 4 /\ \A m \in 1 .. l - 1 : s[x + m] \in 128 .. 255
    BY <1>0, LengthLenIs DEF Accepts
  <1>2. /\ w \in 1 .. 3 /\ c[w + 1] \in 0 .. 127 /\ \A m \in 1 .. w - 1 : c[m + 1] \in 128 .. 255
        /\ n \in 4 .. 5
    BY ChunkDigits
  <1>3. l = w /\ (\A m \in 1 .. w : s[x + m] = c[m + 1]) => z = n
    BY ChunkDigits
  <1>4. z \in Nat /\ PacketEnd(s, x) = x + l + z /\ TopicPlace(s, x) = x + l + 1
    BY <1>0, DecodeIsNat DEF PacketEnd, TopicPlace
  <1>5. /\ a >= 0 /\ s[a + 1] \in Headers /\ s[a + 2] \in {0, c[2]}
        /\ \A m \in 3 .. w + 4 : s[a + m] = c[m]
    BY DEF Front
  <1>6. a = x + l - 1 - w /\ Len(c) = w + 1 + n
    <2>1. a = TopicPlace(s, x) - 2 - w
      BY DEF Start
    <2>2. Len(c) = w + 1 + n
      BY ChunkParts
    <2> HIDE DEF a, l, w, c, n
    <2> QED
      BY <1>0, <1>1, <1>2, <1>4, <2>1, <2>2
  <1> HIDE DEF l, w, c, a, z, n
  <1>7. a \in Nat
    BY <1>0, <1>1, <1>2, <1>5, <1>6
  <1>8. \A b \in 128 .. 255 : b \notin Headers /\ b # 0 /\ b # PUBLISH
    BY DEF Headers, CONNECT, PUBLISH, PINGREQ
  <1>9. ASSUME l < w PROVE FALSE
    <2> DEFINE m == w - l
    <2>1. m \in 1 .. w - 1 /\ a + (m + 1) = x /\ m + 1 \in 2 .. w + 4
      BY <1>0, <1>1, <1>2, <1>6, <1>9
    <2>2. c[m + 1] \in 128 .. 255
      BY <1>2, <2>1
    <2> HIDE DEF m
    <2>3. s[x] \in {0, c[m + 1]}
      <3>1. CASE m + 1 = 2
        BY <1>5, <2>1, <3>1
      <3>2. CASE m + 1 # 2
        <4>1. m + 1 \in 3 .. w + 4
          BY <2>1, <3>2
        <4> QED
          BY <1>5, <2>1, <4>1
      <3> QED
        BY <3>1, <3>2
    <2>4. PUBLISH # 0
      BY DEF PUBLISH
    <2> QED
      BY <1>8, <2>2, <2>3, <2>4
  <1>10. ASSUME l > w PROVE FALSE
    <2>1. l - w \in 1 .. l - 1 /\ x + (l - w) = a + 1
      BY <1>0, <1>1, <1>2, <1>6, <1>10
    <2>2. s[a + 1] \in 128 .. 255
      BY <1>1, <2>1
    <2> QED
      BY <1>5, <1>8, <2>2
  <1>11. l = w /\ a + 1 = x
    <2>1. l = w
      BY <1>1, <1>2, <1>9, <1>10
    <2> QED
      BY <1>0, <1>1, <1>6, <2>1
  <1>12. s[x + 1] = c[2]
    <2>1. a + 2 = x + 1
      BY <1>7, <1>11
    <2>2. s[x + 1] \in {0, c[2]}
      BY <1>5, <2>1
    <2>3. CASE w = 1
      <3>1. ASSUME s[x + 1] = 0 PROVE FALSE
        <4>1. l = 1
          BY <1>11, <2>3
        <4>2. z = 0
          <5>1. z = (s[x + 1] % 128) + LenBase * (0 + LenBase * (0 + LenBase * 0))
            BY <4>1 DEF DecodeLength, z, l
          <5>2. LenBase * 0 = 0
            BY Base
          <5> QED
            BY <3>1, <5>1, <5>2
        <4>3. x + l + 1 + 2 <= x + l + z
          BY <1>4
        <4> QED
          BY <1>0, <4>1, <4>2, <4>3
      <3> QED
        BY <2>2, <3>1
    <2>4. CASE w # 1
      <3>1. 1 \in 1 .. l - 1
        BY <1>1, <1>2, <1>11, <2>4
      <3>2. s[x + 1] # 0
        BY <1>1, <1>8, <3>1
      <3> QED
        BY <2>2, <3>2
    <2> QED
      BY <2>3, <2>4
  <1>13. ASSUME NEW m \in 1 .. w PROVE s[x + m] = c[m + 1]
    <2>1. CASE m = 1
      BY <1>12, <2>1
    <2>2. CASE m # 1
      <3>1. m + 1 \in 3 .. w + 4 /\ a + (m + 1) = x + m
        BY <1>2, <1>7, <1>11, <2>2
      <3> QED
        BY <1>5, <3>1
    <2> QED
      BY <2>1, <2>2
  <1>14. z = n
    BY <1>3, <1>11, <1>13
  <1>15. PacketEnd(s, x) = a + Len(c)
    BY <1>0, <1>2, <1>4, <1>6, <1>7, <1>11, <1>14
  <1> QED
    BY <1>11, <1>15 DEF l, w, a, c

\* If the packet of the task stands there as a whole, the broker reads the chunk in it.
LEMMA WholeBody ==
    ASSUME NEW s \in Seq(Byte), NEW x \in 1 .. Len(s), Accepts(s, x), NEW i \in 1 .. N,
           LengthLen(s, x) = Wide(i), Start(TopicPlace(s, x), i) + 1 = x,
           PacketEnd(s, x) = Start(TopicPlace(s, x), i) + Len(ChunkPacket(i)),
           Whole(s, TopicPlace(s, x), i)
    PROVE  PacketAt(s, x).body = ChunkBody(i)
  <1> DEFINE w == Wide(i)
             c == ChunkPacket(i)
             b == ChunkBody(i)
             n == Len(b)
             a == Start(TopicPlace(s, x), i)
             q == TopicPlace(s, x)
             e == PacketEnd(s, x)
             body == SubSeq(s, q, e)
             z == Len(c)
  <1>0. Len(s) \in Nat /\ x \in Nat \ {0} /\ x \in Nat
    BY LenProperties
  <1>1. e \in Nat /\ e <= Len(s)
    BY <1>0, EndAfter
  <1>2. /\ w \in 1 .. 3 /\ n \in 4 .. 5 /\ \A m \in 1 .. n : c[w + 1 + m] = b[m]
        /\ z = w + 1 + n /\ b \in Seq(Byte)
    BY ChunkDigits, ChunkParts, BodyParts
  <1>3. q = x + w + 1 /\ a + 1 = x /\ e = a + z /\ a = q - 2 - w
    BY DEF TopicPlace, Start
  <1>4. PacketAt(s, x).body = body
    BY DEF PacketAt, TopicPlace
  <1>5. \A m \in 3 .. z : s[a + m] = c[m]
    BY DEF Whole
  <1> HIDE DEF w, c, b, n, a, q, e, z
  <1>6. a \in Int /\ q \in Int /\ q >= 1 /\ e = q + n - 1 /\ e - q + 1 = n /\ q = a + (w + 2)
    <2>1. w \in Nat /\ n \in Nat /\ z = w + 1 + n
      BY <1>2
    <2>2. q \in Int /\ q >= 1 /\ a = q - 2 - w
      BY <1>0, <1>3, <2>1
    <2>3. a \in Int /\ q = a + (w + 2)
      BY <2>1, <2>2
    <2>4. e = q + n - 1
      BY <1>3, <2>1, <2>2
    <2> QED
      BY <2>1, <2>2, <2>3, <2>4
  <1>7. /\ body \in Seq(Byte) /\ Len(body) = n
        /\ \A k \in 1 .. n : body[k] = s[q + k - 1]
    <2>1. \A k \in q .. e : k \in 1 .. Len(s)
      BY <1>0, <1>1, <1>6
    <2>2. \A k \in q .. e : s[k] \in Byte
      BY <2>1, ElementOfSeq
    <2>3. q <= e
      BY <1>2, <1>6
    <2> HIDE DEF Byte
    <2>4. /\ body \in Seq(Byte) /\ Len(body) = IF q <= e THEN e - q + 1 ELSE 0
          /\ \A k \in 1 .. e - q + 1 : body[k] = s[q + k - 1]
      <3>1. q \in Int /\ e \in Int
        BY <1>1, <1>6
      <3> QED
        BY <2>2, <3>1, SubSeqProperties
    <2> HIDE DEF body
    <2> QED
      BY <1>6, <2>3, <2>4
  <1>8. ASSUME NEW k \in 1 .. n PROVE body[k] = b[k]
    <2>1. w + 1 + k \in 3 .. z /\ a + (w + 1 + k) = q + k - 1
      BY <1>2, <1>6
    <2> QED
      BY <1>2, <1>5, <1>7, <2>1
  <1>9. Len(b) = n
    BY DEF n
  <1> HIDE DEF body, Byte
  <1>10. body = b
    BY <1>2, <1>7, <1>8, <1>9, SeqEqual
  <1> QED
    BY <1>4, <1>10 DEF b

\* A packet that reaches the receiver has the topic of a chunk of the task, and is that chunk
\* unless a write was cut short and no other chunk follows.
LEMMA Received ==
    ASSUME WireInv, NEW x \in 1 .. Len(stream), Accepts(stream, x), Reaches(PacketAt(stream, x))
    PROVE  \E i \in 1 .. N :
              /\ TopicPlace(stream, x) \in 1 .. Len(stream)
              /\ ChunkAt(stream, TopicPlace(stream, x), i)
              /\ TopicPlace(stream, x) + 2 <= PacketEnd(stream, x)
              /\ \/ PacketAt(stream, x).body = ChunkBody(i)
                 \/ torn /\ Last(stream, TopicPlace(stream, x))
  <1> DEFINE q == TopicPlace(stream, x)
  <1>0. stream \in Seq(Byte) /\ Len(stream) \in Nat /\ x \in Nat \ {0}
    BY LenProperties DEF WireInv, TypeInv
  <1>1. /\ stream[x] = PUBLISH /\ q \in 1 .. Len(stream) /\ q + 2 <= PacketEnd(stream, x)
        /\ \E i \in 1 .. N : ChunkAt(stream, q, i)
    BY <1>0, TopicThere
  <1>2. PICK i \in 1 .. N : ChunkAt(stream, q, i)
    BY <1>1
  <1>3. /\ Front(stream, q, i)
        /\ Whole(stream, q, i) \/ (Last(stream, q) /\ (torn \/ Begun(q, i)))
    BY <1>1, <1>2 DEF WireInv, StreamInv
  <1>4. /\ LengthLen(stream, x) = Wide(i) /\ Start(q, i) + 1 = x
        /\ PacketEnd(stream, x) = Start(q, i) + Len(ChunkPacket(i))
    BY <1>0, <1>1, <1>3, Aligned
  <1>5. Whole(stream, q, i) => PacketAt(stream, x).body = ChunkBody(i)
    BY <1>0, <1>4, WholeBody
  <1>6. ASSUME Begun(q, i) PROVE Whole(stream, q, i)
    <2> DEFINE b == Len(stream) - done[FSM]
               k == done[FSM]
               z == Len(ChunkPacket(i))
    <2>1. /\ pc[FSM] = "blocked" /\ task = "chunk" /\ i = chunk + 1 /\ Start(q, i) = b
          /\ Begins(stream, b, k, Wanted(FSM))
      BY <1>6 DEF Begun, WireInv, TailInv
    <2>2. Wanted(FSM) = ChunkPacket(i)
      <3>1. FSM \in Thread
        BY Constants
      <3> QED
        BY <2>1, <3>1, WantedParts DEF WireInv
    <2>3. k \in Nat
      BY Constants DEF WireInv, TypeInv, LoopInv
    <2>4. PacketEnd(stream, x) \in Nat /\ PacketEnd(stream, x) <= Len(stream)
      BY <1>0, EndAfter
    <2>5. z \in Nat
      BY ChunkParts, LenProperties
    <2>6. PacketEnd(stream, x) = b + z
      BY <1>4, <2>1
    <2> HIDE DEF z, k
    <2>7. b + z <= Len(stream) /\ \A m \in 3 .. z : m \in 3 .. k
      BY <1>0, <2>3, <2>4, <2>5, <2>6 DEF k
    <2> HIDE DEF b
    <2>8. \A m \in 3 .. z : stream[b + m] = ChunkPacket(i)[m]
      BY <2>1, <2>2, <2>7 DEF Begins
    <2> QED
      BY <2>1, <2>7, <2>8 DEF Whole, z
  <1>7. PacketAt(stream, x).body = ChunkBody(i) \/ (torn /\ Last(stream, q))
    BY <1>3, <1>5, <1>6
  <1> QED
    BY <1>1, <1>2, <1>7

\* No two chunks are the same bytes.
LEMMA WhichChunk ==
    ASSUME NEW packet, NEW i \in 1 .. N, packet.body = ChunkBody(i)
    PROVE  ChunkOf(packet) = i
  <1>1. \A j \in 1 .. N : ChunkBody(j)[3] = 20 + j /\ j \in Nat
    BY BodyParts
  <1>2. ASSUME NEW j \in 1 .. N, packet.body = ChunkBody(j) PROVE j = i
    <2>1. 20 + j = 20 + i
      BY <1>1, <1>2
    <2> QED
      BY <1>1, <2>1
  <1>3. ChunkOf(packet) = CHOOSE j \in 1 .. N : packet.body = ChunkBody(j)
    BY DEF ChunkOf, N
  <1> QED
    BY <1>2, <1>3

\* Two packets that reach the receiver one after the other: their chunks are in this order,
\* and the first of them is whole.
LEMMA InOrder ==
    ASSUME WireInv, NEW x \in 1 .. Len(stream), NEW y \in 1 .. Len(stream),
           PacketEnd(stream, x) < y, Accepts(stream, x), Accepts(stream, y),
           Reaches(PacketAt(stream, x)), Reaches(PacketAt(stream, y))
    PROVE  /\ ChunkOf(PacketAt(stream, x)) \in 1 .. N
           /\ ~ torn => ChunkOf(PacketAt(stream, x)) < ChunkOf(PacketAt(stream, y))
  <1> DEFINE p == TopicPlace(stream, x)
             q == TopicPlace(stream, y)
  <1>1. PICK i \in 1 .. N : /\ p \in 1 .. Len(stream) /\ ChunkAt(stream, p, i)
                            /\ p + 2 <= PacketEnd(stream, x)
                            /\ PacketAt(stream, x).body = ChunkBody(i) \/ (torn /\ Last(stream, p))
    BY Received
  <1>2. PICK j \in 1 .. N : /\ q \in 1 .. Len(stream) /\ ChunkAt(stream, q, j)
                            /\ PacketAt(stream, y).body = ChunkBody(j) \/ (torn /\ Last(stream, q))
    BY Received
  <1>3. p < q
    <2>0. stream \in Seq(Byte) /\ x \in Nat \ {0} /\ y \in Nat \ {0}
      BY LenProperties DEF WireInv, TypeInv
    <2>1. PacketEnd(stream, x) \in Nat /\ LengthLen(stream, y) \in 1 .. 4
      BY <2>0, EndAfter, LengthLenIs DEF Accepts
    <2>2. q = y + LengthLen(stream, y) + 1
      BY DEF TopicPlace
    <2> HIDE DEF p, q
    <2> QED
      BY <1>1, <2>0, <2>1, <2>2
  <1>4. i < j
    BY <1>1, <1>2, <1>3 DEF WireInv, StreamInv
  <1>5. PacketAt(stream, x).body = ChunkBody(i)
    <2>1. ASSUME Last(stream, p) PROVE FALSE
      <3>1. q <= p
        BY <1>2, <2>1 DEF Last
      <3> HIDE DEF p, q
      <3> QED
        BY <1>1, <1>2, <1>3, <3>1
    <2> QED
      BY <1>1, <2>1
  <1>6. ChunkOf(PacketAt(stream, x)) = i
    BY <1>5, WhichChunk
  <1>7. ~ torn => ChunkOf(PacketAt(stream, y)) = j
    BY <1>2, WhichChunk
  <1> QED
    BY <1>4, <1>6, <1>7

\* What the invariant says of the packets the broker accepts.
LEMMA WireInvIsEnough ==
    WireInv => ChunksAsSent /\ DamageEndsSession
  <1> SUFFICES ASSUME WireInv PROVE ChunksAsSent /\ DamageEndsSession
    OBVIOUS
  <1> DEFINE got == Accepted(stream)
  <1>0. stream \in Seq(Byte) /\ N \in Nat
    BY Chunks DEF WireInv, TypeInv
  <1>1. PICK at \in Seq(1 .. Len(stream)) : Stand(stream, got, at, 1)
    BY <1>0, AcceptedStand
  <1> HIDE DEF got
  <1>2. /\ Len(got) \in Nat
        /\ \A k \in 1 .. Len(got) : /\ at[k] \in 1 .. Len(stream) /\ Accepts(stream, at[k])
                                    /\ got[k] = PacketAt(stream, at[k])
        /\ \A j, k \in 1 .. Len(got) : j < k => PacketEnd(stream, at[j]) < at[k]
    BY <1>1, LenProperties, ElementOfSeq DEF Stand
  <1>3. ASSUME NEW j \in 1 .. Len(got), NEW k \in 1 .. Len(got), j < k, Reaches(got[j]), Reaches(got[k])
        PROVE  ChunkOf(got[j]) \in 1 .. N /\ (~ torn => ChunkOf(got[j]) < ChunkOf(got[k]))
    BY <1>2, <1>3, InOrder
  <1>4. ASSUME NEW k \in 1 .. Len(got), Reaches(got[k]), ~ torn PROVE ChunkOf(got[k]) \in 1 .. N
    <2>1. PICK i \in 1 .. N : PacketAt(stream, at[k]).body = ChunkBody(i)
      BY <1>2, <1>4, Received
    <2>2. ChunkOf(got[k]) = i
      BY <1>2, <2>1, WhichChunk
    <2> QED
      BY <2>2
  <1>5. 0 \notin 1 .. N
    OBVIOUS
  <1>6. ChunksAsSent
    <2> SUFFICES ASSUME ~ torn, NEW k \in 1 .. Len(got), Reaches(got[k])
                 PROVE  /\ ChunkOf(got[k]) # 0
                        /\ \A j \in 1 .. k - 1 : Reaches(got[j]) => ChunkOf(got[j]) < ChunkOf(got[k])
      BY DEF ChunksAsSent, got
    <2>1. ChunkOf(got[k]) # 0
      BY <1>4, <1>5
    <2>2. \A j \in 1 .. k - 1 : j \in 1 .. Len(got) /\ j < k
      BY <1>2
    <2> QED
      BY <1>3, <2>1, <2>2
  <1>7. DamageEndsSession
    <2>1. \A j, k \in 1 .. Len(got) :
             j < k /\ Reaches(got[j]) /\ Reaches(got[k]) => ChunkOf(got[j]) # 0
      BY <1>3, <1>5
    <2> QED
      BY <2>1 DEF DamageEndsSession, got
  <1> QED
    BY <1>6, <1>7

\* The invariant of the wire.
LEMMA WireInvInvariant == Spec => []WireInv
  <1>1. Init => WireInv
    BY WireInvInit
  <1>2. WireInv /\ [Next]_vars => WireInv'
    BY WireInvStep
  <1> QED
    BY <1>1, <1>2, PTL DEF Spec

\* Exactly as it came from the UART: for any number of chunks, connections, threads and
\* PINGREQ packets and any base of the length code, a PUBLISH that reaches the receiver is a
\* chunk as it was serialised, in order and once, while no write of the task was cut short.
THEOREM ChunksArriveAsSent == Spec => []ChunksAsSent
  BY WireInvInvariant, WireInvIsEnough, PTL

\* If a write was cut short, a packet that reaches the receiver and is no chunk is the last
\* that does on that connection.
THEOREM DamageIsLast == Spec => []DamageEndsSession
  BY WireInvInvariant, WireInvIsEnough, PTL
=============================================================================
