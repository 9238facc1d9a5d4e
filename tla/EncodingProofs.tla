--------------------------- MODULE EncodingProofs ---------------------------
(***************************************************************************)
(* Facts about what is written for the wire: the names of the codes, and   *)
(* the base64 of the details of an error.                                  *)
(*                                                                         *)
(* A text spells data when each byte lies in its two digits (ByteAt), the  *)
(* arithmetic counterpart of the bits in ErrorDetails; the encoder's text  *)
(* spells what it was given, and the decoder reads what a text spells.     *)
(***************************************************************************)
EXTENDS ErrorDetails, Codes, Induction, FiniteSetTheorems

-----------------------------------------------------------------------------
(* Codes.                                                                   *)

\* Decoding the wire name of a code of the protocol gives the code back
\* (code_to_string, code_from_string).
THEOREM NameRoundTrip == \A c \in Code : code_from_string(code_to_string(c)) = c
<1>1. \A a, b \in Code : CodeNames[a + 1] = CodeNames[b + 1] => a = b
  BY DEF Code, CodeNames
<1> QED
  BY <1>1 DEF code_from_string, code_to_string, CodeName

\* Whatever i32 an error carries, its END frame names a code of the protocol;
\* the client decodes that code, or "unknown" (2) where the protocol has none,
\* and reads a clean end exactly when the code was 0 (encode_end_stream_meta,
\* decode_end_stream).
THEOREM EndRoundTrip ==
  ASSUME NEW c \in Int
  PROVE  /\ encode_end_stream(c) \in Verdict
         /\ decode_end_stream(encode_end_stream(c)) = IF c \in Code THEN c ELSE 2
         /\ decode_end_stream(encode_end_stream(c)) = 0 <=> c = 0
<1>1. \A b \in Code : CodeNames[b + 1] \notin {NoError, Nameless}
  BY DEF Code, CodeNames, NoError, Nameless
<1>2. c \notin Code => code_to_string(c) = CodeNames[2 + 1]
  BY DEF code_to_string, CodeNames
<1>3. 2 \in Code /\ 0 \in Code
  BY DEF Code
<1>4. \A b \in Code : code_from_string(CodeNames[b + 1]) = b
  BY NameRoundTrip DEF code_to_string
<1>5. CASE c = 0
  BY <1>3, <1>5 DEF encode_end_stream, decode_end_stream, Verdict, NoError, Nameless
<1>6. CASE c # 0
  <2>1. PICK b \in Code : b = IF c \in Code THEN c ELSE 2
    BY <1>3
  <2>2. encode_end_stream(c) = CodeNames[b + 1]
    BY <1>2, <1>6, <2>1 DEF encode_end_stream, code_to_string
  <2>3. decode_end_stream(CodeNames[b + 1]) = b
    BY <1>1, <1>4 DEF decode_end_stream
  <2> QED
    BY <1>6, <2>1, <2>2, <2>3 DEF Verdict, CodeName
<1> QED
  BY <1>5, <1>6

-----------------------------------------------------------------------------
(* Bits.                                                                    *)

Digit == 0..63

\* The j-th byte of a text: its bits lie in two neighbouring digits.
ByteAt(s, j) ==
  LET q == (j - 1) \div 3 IN
    CASE (j - 1) % 3 = 0 -> s[4 * q + 1] * 4 + s[4 * q + 2] \div 16
      [] (j - 1) % 3 = 1 -> (s[4 * q + 2] % 16) * 16 + s[4 * q + 3] \div 4
      [] (j - 1) % 3 = 2 -> (s[4 * q + 3] % 4) * 64 + s[4 * q + 4]

\* A bit of such a byte is a bit of one of the two digits.
LEMMA HighBits ==
  ASSUME NEW a \in Digit, NEW b \in Digit, NEW m \in 0..7
  PROVE  /\ m < 6 => ((a * 4 + b \div 16) \div 2^(7 - m)) % 2 = (a \div 2^(5 - m)) % 2
         /\ m >= 6 => ((a * 4 + b \div 16) \div 2^(7 - m)) % 2 = (b \div 2^(11 - m)) % 2
<1>0. CASE m = 0
  BY <1>0 DEF Digit
<1>1. CASE m = 1
  BY <1>1 DEF Digit
<1>2. CASE m = 2
  BY <1>2 DEF Digit
<1>3. CASE m = 3
  BY <1>3 DEF Digit
<1>4. CASE m = 4
  BY <1>4 DEF Digit
<1>5. CASE m = 5
  BY <1>5 DEF Digit
<1>6. CASE m = 6
  BY <1>6 DEF Digit
<1>7. CASE m = 7
  BY <1>7 DEF Digit
<1> QED
  BY <1>0, <1>1, <1>2, <1>3, <1>4, <1>5, <1>6, <1>7

\* The same of a byte in the middle of its group.
LEMMA MiddleBits ==
  ASSUME NEW a \in Digit, NEW b \in Digit, NEW m \in 0..7
  PROVE  /\ m < 4 => (((a % 16) * 16 + b \div 4) \div 2^(7 - m)) % 2 = (a \div 2^(3 - m)) % 2
         /\ m >= 4 => (((a % 16) * 16 + b \div 4) \div 2^(7 - m)) % 2 = (b \div 2^(9 - m)) % 2
<1>0. CASE m = 0
  BY <1>0 DEF Digit
<1>1. CASE m = 1
  BY <1>1 DEF Digit
<1>2. CASE m = 2
  BY <1>2 DEF Digit
<1>3. CASE m = 3
  BY <1>3 DEF Digit
<1>4. CASE m = 4
  BY <1>4 DEF Digit
<1>5. CASE m = 5
  BY <1>5 DEF Digit
<1>6. CASE m = 6
  BY <1>6 DEF Digit
<1>7. CASE m = 7
  BY <1>7 DEF Digit
<1> QED
  BY <1>0, <1>1, <1>2, <1>3, <1>4, <1>5, <1>6, <1>7

\* The same of the last byte of a group.
LEMMA LowBits ==
  ASSUME NEW a \in Digit, NEW b \in Digit, NEW m \in 0..7
  PROVE  /\ m < 2 => (((a % 4) * 64 + b) \div 2^(7 - m)) % 2 = (a \div 2^(1 - m)) % 2
         /\ m >= 2 => (((a % 4) * 64 + b) \div 2^(7 - m)) % 2 = (b \div 2^(7 - m)) % 2
<1>0. CASE m = 0
  BY <1>0 DEF Digit
<1>1. CASE m = 1
  BY <1>1 DEF Digit
<1>2. CASE m = 2
  BY <1>2 DEF Digit
<1>3. CASE m = 3
  BY <1>3 DEF Digit
<1>4. CASE m = 4
  BY <1>4 DEF Digit
<1>5. CASE m = 5
  BY <1>5 DEF Digit
<1>6. CASE m = 6
  BY <1>6 DEF Digit
<1>7. CASE m = 7
  BY <1>7 DEF Digit
<1> QED
  BY <1>0, <1>1, <1>2, <1>3, <1>4, <1>5, <1>6, <1>7

\* Where a bit of a byte, and one of a digit, is in the string of all of them.
LEMMA BitOfByte ==
  ASSUME NEW s \in Seq(Byte), NEW k \in 1..Len(s), NEW m \in 0..7
  PROVE  /\ 8 * (k - 1) + m + 1 \in 1..(8 * Len(s))
         /\ BitString(s, 8)[8 * (k - 1) + m + 1] = (s[k] \div 2^(7 - m)) % 2
<1> DEFINE i == 8 * (k - 1) + m + 1
<1>1. i \in 1..(8 * Len(s))
  OBVIOUS
<1>2. (i - 1) \div 8 + 1 = k /\ (i - 1) % 8 = m
  OBVIOUS
<1> HIDE DEF i
<1>3. BitString(s, 8)[i] = (s[((i - 1) \div 8) + 1] \div 2^(8 - 1 - ((i - 1) % 8))) % 2
  BY <1>1 DEF BitString
<1>4. 8 - 1 - ((i - 1) % 8) = 7 - m
  BY <1>2
<1>5. BitString(s, 8)[i] = (s[k] \div 2^(7 - m)) % 2
  BY <1>2, <1>3, <1>4
<1> QED
  BY <1>1, <1>5 DEF i

\* The same of a bit of a digit.
LEMMA BitOfDigit ==
  ASSUME NEW s \in Seq(Digit), NEW k \in 1..Len(s), NEW m \in 0..5
  PROVE  /\ 6 * (k - 1) + m + 1 \in 1..(6 * Len(s))
         /\ BitString(s, 6)[6 * (k - 1) + m + 1] = (s[k] \div 2^(5 - m)) % 2
<1> DEFINE i == 6 * (k - 1) + m + 1
<1>1. i \in 1..(6 * Len(s))
  OBVIOUS
<1>2. (i - 1) \div 6 + 1 = k /\ (i - 1) % 6 = m
  OBVIOUS
<1> HIDE DEF i
<1>3. BitString(s, 6)[i] = (s[((i - 1) \div 6) + 1] \div 2^(6 - 1 - ((i - 1) % 6))) % 2
  BY <1>1 DEF BitString
<1>4. 6 - 1 - ((i - 1) % 6) = 5 - m
  BY <1>2
<1>5. BitString(s, 6)[i] = (s[k] \div 2^(5 - m)) % 2
  BY <1>2, <1>3, <1>4
<1> QED
  BY <1>1, <1>5 DEF i

\* A number is a multiple of three, or not far above one.
LEMMA ByThree ==
  ASSUME NEW n \in Nat
  PROVE  \E q \in Nat : n = 3 * q \/ n = 3 * q + 1 \/ n = 3 * q + 2
<1>1. n \div 3 \in Nat
  OBVIOUS
<1>2. n = 3 * (n \div 3) \/ n = 3 * (n \div 3) + 1 \/ n = 3 * (n \div 3) + 2
  OBVIOUS
<1> QED
  BY <1>1, <1>2

\* A number is a multiple of four, or not far above one.
LEMMA ByFour ==
  ASSUME NEW n \in Nat
  PROVE  \E q \in Nat : n = 4 * q \/ n = 4 * q + 1 \/ n = 4 * q + 2 \/ n = 4 * q + 3
<1>1. n \div 4 \in Nat
  OBVIOUS
<1>2. \/ n = 4 * (n \div 4)
      \/ n = 4 * (n \div 4) + 1
      \/ n = 4 * (n \div 4) + 2
      \/ n = 4 * (n \div 4) + 3
  OBVIOUS
<1> QED
  BY <1>1, <1>2

\* A text has a digit more than it has whole bytes, in every group it begins.
Spells(text, data) ==
  /\ text \in Seq(Digit) /\ data \in Seq(Byte)
  /\ Len(text) = (8 * Len(data) + 5) \div 6
  /\ \A j \in 1..Len(data) : data[j] = ByteAt(text, j)

LEMMA ByteInGroup ==
  ASSUME NEW s, NEW q \in Nat
  PROVE  /\ ByteAt(s, 3 * q + 1) = s[4 * q + 1] * 4 + s[4 * q + 2] \div 16
         /\ ByteAt(s, 3 * q + 2) = (s[4 * q + 2] % 16) * 16 + s[4 * q + 3] \div 4
         /\ ByteAt(s, 3 * q + 3) = (s[4 * q + 3] % 4) * 64 + s[4 * q + 4]
<1>1. ((3 * q + 1) - 1) \div 3 = q /\ ((3 * q + 1) - 1) % 3 = 0
  OBVIOUS
<1>2. ((3 * q + 2) - 1) \div 3 = q /\ ((3 * q + 2) - 1) % 3 = 1
  OBVIOUS
<1>3. ((3 * q + 3) - 1) \div 3 = q /\ ((3 * q + 3) - 1) % 3 = 2
  OBVIOUS
<1>4. ByteAt(s, 3 * q + 1) = s[4 * q + 1] * 4 + s[4 * q + 2] \div 16
  BY <1>1 DEF ByteAt
<1>5. ByteAt(s, 3 * q + 2) = (s[4 * q + 2] % 16) * 16 + s[4 * q + 3] \div 4
  BY <1>2 DEF ByteAt
<1>6. ByteAt(s, 3 * q + 3) = (s[4 * q + 3] % 4) * 64 + s[4 * q + 4]
  BY <1>3 DEF ByteAt
<1> QED
  BY <1>4, <1>5, <1>6

\* Every bit of the data is the bit of the text at its place.
LEMMA SpellsBits ==
  ASSUME NEW text, NEW data, Spells(text, data), NEW i \in 1..(8 * Len(data))
  PROVE  BitString(text, 6)[i] = BitString(data, 8)[i]
<1> USE DEF Spells
<1>1. PICK n \in Nat : n = Len(data) /\ Len(text) = (8 * n + 5) \div 6
  OBVIOUS
<1>2. PICK j \in 1..n, m \in 0..7 : i = 8 * (j - 1) + m + 1
  <2>1. ((i - 1) \div 8) + 1 \in 1..n /\ (i - 1) % 8 \in 0..7
    BY <1>1
  <2>2. i = 8 * (((i - 1) \div 8) + 1 - 1) + ((i - 1) % 8) + 1
    BY <1>1
  <2> QED
    BY <2>1, <2>2
<1>3. PICK q \in Nat : j = 3 * q + 1 \/ j = 3 * q + 2 \/ j = 3 * q + 3
  <2>1. j - 1 \in Nat
    BY <1>1
  <2>2. PICK q \in Nat : j - 1 = 3 * q \/ j - 1 = 3 * q + 1 \/ j - 1 = 3 * q + 2
    BY <2>1, ByThree
  <2>3. CASE j - 1 = 3 * q
    BY <1>1, <2>3
  <2>4. CASE j - 1 = 3 * q + 1
    BY <1>1, <2>4
  <2>5. CASE j - 1 = 3 * q + 2
    BY <1>1, <2>5
  <2> QED
    BY <2>2, <2>3, <2>4, <2>5
<1>4. BitString(data, 8)[i] = (ByteAt(text, j) \div 2^(7 - m)) % 2
  BY <1>1, <1>2, BitOfByte
<1>5. ASSUME NEW k \in 1..Len(text), NEW p \in 0..5, i = 6 * (k - 1) + p + 1
      PROVE  BitString(text, 6)[i] = (text[k] \div 2^(5 - p)) % 2
  BY <1>5, BitOfDigit
<1> DEFINE IsBit(k, e) == BitString(text, 6)[i] = (text[k] \div 2^e) % 2
<1>9. ASSUME NEW k \in 1..Len(text), NEW e \in 0..5, i = 6 * (k - 1) + (5 - e) + 1
      PROVE  IsBit(k, e)
  <2>1. 5 - e \in 0..5 /\ 5 - (5 - e) = e
    OBVIOUS
  <2> QED
    BY <1>5, <1>9, <2>1
<1> HIDE DEF IsBit
<1>6. CASE j = 3 * q + 1
  <2>1. 4 * q + 1 \in 1..Len(text) /\ 4 * q + 2 \in 1..Len(text)
    BY <1>1, <1>6
  <2>2. text[4 * q + 1] \in Digit /\ text[4 * q + 2] \in Digit
    BY <2>1
  <2>3. ByteAt(text, j) = text[4 * q + 1] * 4 + text[4 * q + 2] \div 16
    BY <1>6, ByteInGroup
  <2>4. CASE m < 6
    <3>1. 5 - m \in 0..5 /\ i = 6 * ((4 * q + 1) - 1) + (5 - (5 - m)) + 1
      BY <1>2, <1>6, <2>4
    <3>2. IsBit(4 * q + 1, 5 - m)
      BY <1>9, <2>1, <3>1
    <3> QED
      BY <1>4, <2>2, <2>3, <2>4, <3>2, HighBits, ZenonT(30) DEF IsBit
  <2>5. CASE m >= 6
    <3>1. 11 - m \in 0..5 /\ i = 6 * ((4 * q + 2) - 1) + (5 - (11 - m)) + 1
      BY <1>2, <1>6, <2>5
    <3>2. IsBit(4 * q + 2, 11 - m)
      BY <1>9, <2>1, <3>1
    <3>3. (ByteAt(text, j) \div 2^(7 - m)) % 2 = (text[4 * q + 2] \div 2^(11 - m)) % 2
      <4> DEFINE a == text[4 * q + 1]
                 b == text[4 * q + 2]
      <4>1. a \in Digit /\ b \in Digit /\ ByteAt(text, j) = a * 4 + b \div 16
        BY <2>2, <2>3
      <4> HIDE DEF a, b
      <4>2. ((a * 4 + b \div 16) \div 2^(7 - m)) % 2 = (b \div 2^(11 - m)) % 2
        BY <2>5, <4>1, HighBits
      <4> QED
        BY <4>1, <4>2, Zenon DEF b
    <3> QED
      BY <1>4, <3>2, <3>3 DEF IsBit
  <2> QED
    BY <2>4, <2>5
<1>7. CASE j = 3 * q + 2
  <2>1. 4 * q + 2 \in 1..Len(text) /\ 4 * q + 3 \in 1..Len(text)
    BY <1>1, <1>7
  <2>2. text[4 * q + 2] \in Digit /\ text[4 * q + 3] \in Digit
    BY <2>1
  <2>3. ByteAt(text, j) = (text[4 * q + 2] % 16) * 16 + text[4 * q + 3] \div 4
    BY <1>7, ByteInGroup
  <2>4. CASE m < 4
    <3>1. 3 - m \in 0..5 /\ i = 6 * ((4 * q + 2) - 1) + (5 - (3 - m)) + 1
      BY <1>2, <1>7, <2>4
    <3>2. IsBit(4 * q + 2, 3 - m)
      BY <1>9, <2>1, <3>1
    <3> QED
      BY <1>4, <2>2, <2>3, <2>4, <3>2, MiddleBits, ZenonT(30) DEF IsBit
  <2>5. CASE m >= 4
    <3>1. 9 - m \in 0..5 /\ i = 6 * ((4 * q + 3) - 1) + (5 - (9 - m)) + 1
      BY <1>2, <1>7, <2>5
    <3>2. IsBit(4 * q + 3, 9 - m)
      BY <1>9, <2>1, <3>1
    <3>3. (ByteAt(text, j) \div 2^(7 - m)) % 2 = (text[4 * q + 3] \div 2^(9 - m)) % 2
      <4> DEFINE a == text[4 * q + 2]
                 b == text[4 * q + 3]
      <4>1. a \in Digit /\ b \in Digit /\ ByteAt(text, j) = (a % 16) * 16 + b \div 4
        BY <2>2, <2>3
      <4> HIDE DEF a, b
      <4>2. (((a % 16) * 16 + b \div 4) \div 2^(7 - m)) % 2 = (b \div 2^(9 - m)) % 2
        BY <2>5, <4>1, MiddleBits
      <4> QED
        BY <4>1, <4>2, Zenon DEF b
    <3> QED
      BY <1>4, <3>2, <3>3 DEF IsBit
  <2> QED
    BY <2>4, <2>5
<1>8. CASE j = 3 * q + 3
  <2>1. 4 * q + 3 \in 1..Len(text) /\ 4 * q + 4 \in 1..Len(text)
    BY <1>1, <1>8
  <2>2. text[4 * q + 3] \in Digit /\ text[4 * q + 4] \in Digit
    BY <2>1
  <2>3. ByteAt(text, j) = (text[4 * q + 3] % 4) * 64 + text[4 * q + 4]
    BY <1>8, ByteInGroup
  <2>4. CASE m < 2
    <3>1. 1 - m \in 0..5 /\ i = 6 * ((4 * q + 3) - 1) + (5 - (1 - m)) + 1
      BY <1>2, <1>8, <2>4
    <3>2. IsBit(4 * q + 3, 1 - m)
      BY <1>9, <2>1, <3>1
    <3> QED
      BY <1>4, <2>2, <2>3, <2>4, <3>2, LowBits, ZenonT(30) DEF IsBit
  <2>5. CASE m >= 2
    <3>1. 7 - m \in 0..5 /\ i = 6 * ((4 * q + 4) - 1) + (5 - (7 - m)) + 1
      BY <1>2, <1>8, <2>5
    <3>2. IsBit(4 * q + 4, 7 - m)
      BY <1>9, <2>1, <3>1
    <3>3. (ByteAt(text, j) \div 2^(7 - m)) % 2 = (text[4 * q + 4] \div 2^(7 - m)) % 2
      <4> DEFINE a == text[4 * q + 3]
                 b == text[4 * q + 4]
      <4>1. a \in Digit /\ b \in Digit /\ ByteAt(text, j) = (a % 4) * 64 + b
        BY <2>2, <2>3
      <4> HIDE DEF a, b
      <4>2. (((a % 4) * 64 + b) \div 2^(7 - m)) % 2 = (b \div 2^(7 - m)) % 2
        BY <2>5, <4>1, LowBits
      <4> QED
        BY <4>1, <4>2, Zenon DEF b
    <3> QED
      BY <1>4, <3>2, <3>3 DEF IsBit
  <2> QED
    BY <2>4, <2>5
<1> QED
  BY <1>3, <1>6, <1>7, <1>8

\* So a text that spells data carries it.
LEMMA SpellsCarries ==
  ASSUME NEW text, NEW data, Spells(text, data)
  PROVE  Carries(text, data)
<1>1. /\ text \in Seq(Digit) /\ data \in Seq(Byte)
      /\ Len(text) = (8 * Len(data) + 5) \div 6
  BY DEF Spells
<1> DEFINE n == 8 * Len(data)
           B == BitString(text, 6)
           D == BitString(data, 8)
<1>2. n \in Nat /\ n <= 6 * Len(text)
  BY <1>1
<1>3. B = [i \in 1..(6 * Len(text)) |-> B[i]] /\ D = [i \in 1..n |-> D[i]]
  BY DEF BitString
<1>4. \A i \in 1..n : B[i] = D[i]
  BY SpellsBits
<1>5. SubSeq(B, 1, n) = D
  <2> HIDE DEF B, D, n
  <2>1. 6 * Len(text) \in Nat
    BY <1>1
  <2>2. SubSeq(B, 1, n) = [i \in 1..n |-> B[i]]
    BY <1>2, <1>3, <2>1
  <2> QED
    BY <1>3, <1>4, <2>2
<1> QED
  BY <1>1, <1>5 DEF Carries

-----------------------------------------------------------------------------
(* The encoder.                                                             *)

\* The pieces of a byte that digits are made of.
LEMMA Pieces ==
  ASSUME NEW a \in Byte
  PROVE  /\ \E h \in 0..63, l \in 0..3 : a = 4 * h + l /\ h = a \div 4 /\ l = a % 4
         /\ \E h \in 0..15, l \in 0..15 : a = 16 * h + l /\ h = a \div 16 /\ l = a % 16
         /\ \E h \in 0..3, l \in 0..63 : a = 64 * h + l /\ h = a \div 64 /\ l = a % 64
<1>1. a = 4 * (a \div 4) + (a % 4) /\ a \div 4 \in 0..63 /\ a % 4 \in 0..3
  BY DEF Byte
<1>2. a = 16 * (a \div 16) + (a % 16) /\ a \div 16 \in 0..15 /\ a % 16 \in 0..15
  BY DEF Byte
<1>3. a = 64 * (a \div 64) + (a % 64) /\ a \div 64 \in 0..3 /\ a % 64 \in 0..63
  BY DEF Byte
<1>4. \E h \in 0..63, l \in 0..3 : a = 4 * h + l /\ h = a \div 4 /\ l = a % 4
  BY <1>1
<1>5. \E h \in 0..15, l \in 0..15 : a = 16 * h + l /\ h = a \div 16 /\ l = a % 16
  BY <1>2
<1>6. \E h \in 0..3, l \in 0..63 : a = 64 * h + l /\ h = a \div 64 /\ l = a % 64
  BY <1>3
<1> QED
  BY <1>4, <1>5, <1>6

\* The four digits of three bytes.
LEMMA FourDigits ==
  ASSUME NEW a \in Byte, NEW b \in Byte, NEW c \in Byte,
         NEW n, n = a * 65536 + b * 256 + c
  PROVE  /\ n \div 262144 = a \div 4
         /\ (n \div 4096) % 64 = (a % 4) * 16 + b \div 16
         /\ (n \div 64) % 64 = (b % 16) * 4 + c \div 64
         /\ n % 64 = c % 64
<1>a. PICK a1 \in 0..63, a0 \in 0..3 : a = 4 * a1 + a0 /\ a1 = a \div 4 /\ a0 = a % 4
  BY Pieces
<1>b. PICK b1 \in 0..15, b0 \in 0..15 : b = 16 * b1 + b0 /\ b1 = b \div 16 /\ b0 = b % 16
  BY Pieces
<1>c. PICK c1 \in 0..3, c0 \in 0..63 : c = 64 * c1 + c0 /\ c1 = c \div 64 /\ c0 = c % 64
  BY Pieces
<1>2. n = (4 * a1 + a0) * 65536 + (16 * b1 + b0) * 256 + 64 * c1 + c0
  BY <1>a, <1>b, <1>c
<1>3. n \div 262144 = a1 /\ n % 64 = c0
  BY <1>2
<1>4. (n \div 4096) % 64 = a0 * 16 + b1
  <2>1. n \div 4096 = 64 * a1 + a0 * 16 + b1
    BY <1>2
  <2> QED
    BY <2>1
<1>5. (n \div 64) % 64 = b0 * 4 + c1
  <2>1. n \div 64 = 64 * (64 * a1 + a0 * 16 + b1) + b0 * 4 + c1
    BY <1>2
  <2> QED
    BY <2>1
<1> QED
  BY <1>a, <1>b, <1>c, <1>3, <1>4, <1>5

\* They are digits, and the bytes are in them.
LEMMA ThreeBytes ==
  ASSUME NEW a \in Byte, NEW b \in Byte, NEW c \in Byte
  PROVE  /\ a \div 4 \in Digit /\ (a % 4) * 16 + b \div 16 \in Digit
         /\ (b % 16) * 4 + c \div 64 \in Digit /\ c % 64 \in Digit
         /\ (a \div 4) * 4 + ((a % 4) * 16 + b \div 16) \div 16 = a
         /\ (((a % 4) * 16 + b \div 16) % 16) * 16 + ((b % 16) * 4 + c \div 64) \div 4 = b
         /\ (((b % 16) * 4 + c \div 64) % 4) * 64 + (c % 64) = c
<1>a. PICK a1 \in 0..63, a0 \in 0..3 : a = 4 * a1 + a0 /\ a1 = a \div 4 /\ a0 = a % 4
  BY Pieces
<1>b. PICK b1 \in 0..15, b0 \in 0..15 : b = 16 * b1 + b0 /\ b1 = b \div 16 /\ b0 = b % 16
  BY Pieces
<1>c. PICK c1 \in 0..3, c0 \in 0..63 : c = 64 * c1 + c0 /\ c1 = c \div 64 /\ c0 = c % 64
  BY Pieces
<1>2. /\ a1 \in Digit /\ a0 * 16 + b1 \in Digit /\ b0 * 4 + c1 \in Digit /\ c0 \in Digit
      /\ (a0 * 16 + b1) \div 16 = a0 /\ (a0 * 16 + b1) % 16 = b1
      /\ (b0 * 4 + c1) \div 4 = b0 /\ (b0 * 4 + c1) % 4 = c1
  BY DEF Digit
<1> QED
  BY <1>a, <1>b, <1>c, <1>2

\* A byte of the data, or the zero the encoder takes where there is none.
ByteOr0(data, j) == IF j <= Len(data) THEN data[j] ELSE 0

LEMMA ByteOr0Is ==
  ASSUME NEW data \in Seq(Byte), NEW j \in Nat, j > 0
  PROVE  /\ ByteOr0(data, j) \in Byte
         /\ j <= Len(data) => ByteOr0(data, j) = data[j]
         /\ j > Len(data) => ByteOr0(data, j) = 0
<1>1. CASE j <= Len(data)
  BY <1>1 DEF ByteOr0
<1>2. CASE j > Len(data)
  <2>1. ~(j <= Len(data))
    BY <1>2
  <2>2. 0 \in Byte
    BY DEF Byte
  <2> QED
    BY <2>1, <2>2 DEF ByteOr0
<1> QED
  BY <1>1, <1>2

\* A group of bytes as four digits.
LEMMA GroupIs ==
  ASSUME NEW data \in Seq(Byte), NEW at \in Nat
  PROVE  LET a == ByteOr0(data, at + 1)
             b == ByteOr0(data, at + 2)
             c == ByteOr0(data, at + 3) IN
           /\ a \in Byte /\ b \in Byte /\ c \in Byte
           /\ Group(data, at) = <<a \div 4, (a % 4) * 16 + b \div 16, (b % 16) * 4 + c \div 64, c % 64>>
<1> DEFINE a == ByteOr0(data, at + 1)
           b == ByteOr0(data, at + 2)
           c == ByteOr0(data, at + 3)
           n == a * 65536 + b * 256 + c
<1>1. a \in Byte /\ b \in Byte /\ c \in Byte
  BY ByteOr0Is
<1>2. Group(data, at) = <<n \div 262144, (n \div 4096) % 64, (n \div 64) % 64, n % 64>>
  BY DEF Group, ByteOr0
<1> HIDE DEF a, b, c
<1>3. /\ n \div 262144 = a \div 4
      /\ (n \div 4096) % 64 = (a % 4) * 16 + b \div 16
      /\ (n \div 64) % 64 = (b % 16) * 4 + c \div 64
      /\ n % 64 = c % 64
  BY <1>1, FourDigits
<1> HIDE DEF n
<1> QED
  BY <1>1, <1>2, <1>3 DEF a, b, c

\* A digit of the text by its group.
LEMMA DigitInGroup ==
  ASSUME NEW data \in Seq(Byte), NEW q \in Nat, NEW p \in 1..4,
         4 * q + p <= (4 * Len(data) + 2) \div 3
  PROVE  b64_encode(data)[4 * q + p] = Group(data, 3 * q)[p]
<1>1. (4 * q + p - 1) \div 4 = q /\ ((4 * q + p - 1) % 4) + 1 = p
  OBVIOUS
<1>2. 4 * q + p \in 1..((4 * Len(data) + 2) \div 3)
  OBVIOUS
<1> QED
  BY <1>1, <1>2 DEF b64_encode

\* The digits of a text are those of the groups of three bytes.
LEMMA EncodedDigits ==
  ASSUME NEW data \in Seq(Byte), NEW q \in Nat, NEW text, text = b64_encode(data),
         NEW a, NEW b, NEW c,
         a = ByteOr0(data, 3 * q + 1), b = ByteOr0(data, 3 * q + 2), c = ByteOr0(data, 3 * q + 3)
  PROVE  LET n == (4 * Len(data) + 2) \div 3 IN
         /\ a \in Byte /\ b \in Byte /\ c \in Byte
         /\ 4 * q + 1 <= n => text[4 * q + 1] = a \div 4
         /\ 4 * q + 2 <= n => text[4 * q + 2] = (a % 4) * 16 + b \div 16
         /\ 4 * q + 3 <= n => text[4 * q + 3] = (b % 16) * 4 + c \div 64
         /\ 4 * q + 4 <= n => text[4 * q + 4] = c % 64
<1> DEFINE n == (4 * Len(data) + 2) \div 3
<1>1. 3 * q \in Nat
  OBVIOUS
<1>2. /\ a \in Byte /\ b \in Byte /\ c \in Byte
      /\ Group(data, 3 * q) = <<a \div 4, (a % 4) * 16 + b \div 16, (b % 16) * 4 + c \div 64, c % 64>>
  BY <1>1, GroupIs
<1>3. \A p \in 1..4 : 4 * q + p <= n => text[4 * q + p] = Group(data, 3 * q)[p]
  BY DigitInGroup
<1> HIDE DEF n
<1>4. 1 \in 1..4 /\ 2 \in 1..4 /\ 3 \in 1..4 /\ 4 \in 1..4
  OBVIOUS
<1>5. /\ Group(data, 3 * q)[1] = a \div 4 /\ Group(data, 3 * q)[2] = (a % 4) * 16 + b \div 16
      /\ Group(data, 3 * q)[3] = (b % 16) * 4 + c \div 64 /\ Group(data, 3 * q)[4] = c % 64
  BY <1>2
<1> QED
  BY <1>2, <1>3, <1>4, <1>5 DEF n

\* The length of the text, in bytes and in bits.
LEMMA TextLength ==
  ASSUME NEW n \in Nat
  PROVE  /\ (4 * n + 2) \div 3 \in Nat
         /\ (4 * n + 2) \div 3 = (8 * n + 5) \div 6
<1>1. PICK q \in Nat : n = 3 * q \/ n = 3 * q + 1 \/ n = 3 * q + 2
  BY ByThree
<1> QED
  BY <1>1

\* The text of data spells it in digits.
LEMMA EncodedSpells ==
  ASSUME NEW data \in Seq(Byte)
  PROVE  Spells(b64_encode(data), data)
<1> DEFINE text == b64_encode(data)
           n == Len(data)
           l == (4 * n + 2) \div 3
<1>1. n \in Nat /\ l \in Nat /\ l = (8 * n + 5) \div 6
  BY TextLength
<1>2. text = [k \in 1..l |-> text[k]]
  BY DEF b64_encode
<1> HIDE DEF text, l
<1>3. ASSUME NEW k \in 1..l
      PROVE  text[k] \in Digit
  <2>1. k - 1 \in Nat
    BY <1>1
  <2>2. PICK q \in Nat : \/ k - 1 = 4 * q \/ k - 1 = 4 * q + 1
                         \/ k - 1 = 4 * q + 2 \/ k - 1 = 4 * q + 3
    BY <2>1, ByFour
  <2> DEFINE a == ByteOr0(data, 3 * q + 1)
             b == ByteOr0(data, 3 * q + 2)
             c == ByteOr0(data, 3 * q + 3)
  <2>3. /\ a \in Byte /\ b \in Byte /\ c \in Byte
        /\ 4 * q + 1 <= l => text[4 * q + 1] = a \div 4
        /\ 4 * q + 2 <= l => text[4 * q + 2] = (a % 4) * 16 + b \div 16
        /\ 4 * q + 3 <= l => text[4 * q + 3] = (b % 16) * 4 + c \div 64
        /\ 4 * q + 4 <= l => text[4 * q + 4] = c % 64
    BY EncodedDigits DEF text, l
  <2> HIDE DEF a, b, c
  <2>4. /\ a \div 4 \in Digit /\ (a % 4) * 16 + b \div 16 \in Digit
        /\ (b % 16) * 4 + c \div 64 \in Digit /\ c % 64 \in Digit
    BY <2>3, ThreeBytes
  <2>5. k \in Int /\ k <= l
    BY <1>1
  <2>6. CASE k = 4 * q + 1
    BY <2>3, <2>4, <2>5, <2>6
  <2>7. CASE k = 4 * q + 2
    BY <2>3, <2>4, <2>5, <2>7
  <2>8. CASE k = 4 * q + 3
    BY <2>3, <2>4, <2>5, <2>8
  <2>9. CASE k = 4 * q + 4
    BY <2>3, <2>4, <2>5, <2>9
  <2> QED
    BY <2>2, <2>5, <2>6, <2>7, <2>8, <2>9
<1>4. text \in Seq(Digit) /\ Len(text) = l
  BY <1>1, <1>2, <1>3
<1>5. ASSUME NEW j \in 1..n
      PROVE  data[j] = ByteAt(text, j)
  <2>1. j - 1 \in Nat
    BY <1>1
  <2>2. PICK q \in Nat : j - 1 = 3 * q \/ j - 1 = 3 * q + 1 \/ j - 1 = 3 * q + 2
    BY <2>1, ByThree
  <2> DEFINE a == ByteOr0(data, 3 * q + 1)
             b == ByteOr0(data, 3 * q + 2)
             c == ByteOr0(data, 3 * q + 3)
  <2>3. /\ a \in Byte /\ b \in Byte /\ c \in Byte
        /\ 4 * q + 1 <= l => text[4 * q + 1] = a \div 4
        /\ 4 * q + 2 <= l => text[4 * q + 2] = (a % 4) * 16 + b \div 16
        /\ 4 * q + 3 <= l => text[4 * q + 3] = (b % 16) * 4 + c \div 64
        /\ 4 * q + 4 <= l => text[4 * q + 4] = c % 64
    BY EncodedDigits DEF text, l
  <2>4. /\ 3 * q + 1 <= n => a = data[3 * q + 1]
        /\ 3 * q + 2 <= n => b = data[3 * q + 2]
        /\ 3 * q + 3 <= n => c = data[3 * q + 3]
    BY ByteOr0Is
  <2>5. /\ 3 * q + 1 <= n => 4 * q + 2 <= l
        /\ 3 * q + 2 <= n => 4 * q + 3 <= l
        /\ 3 * q + 3 <= n => 4 * q + 4 <= l
    BY <1>1 DEF l
  <2> HIDE DEF a, b, c
  <2>6. /\ (a \div 4) * 4 + ((a % 4) * 16 + b \div 16) \div 16 = a
        /\ (((a % 4) * 16 + b \div 16) % 16) * 16 + ((b % 16) * 4 + c \div 64) \div 4 = b
        /\ (((b % 16) * 4 + c \div 64) % 4) * 64 + (c % 64) = c
    BY <2>3, ThreeBytes
  <2>7. j \in Int /\ j <= n
    BY <1>1
  <2>8. CASE j = 3 * q + 1
    <3>1. ByteAt(text, j) = text[4 * q + 1] * 4 + text[4 * q + 2] \div 16
      BY <2>8, ByteInGroup
    <3>2. text[4 * q + 1] = a \div 4 /\ text[4 * q + 2] = (a % 4) * 16 + b \div 16
      BY <1>1, <2>3, <2>5, <2>7, <2>8
    <3> QED
      BY <2>4, <2>6, <2>7, <2>8, <3>1, <3>2
  <2>9. CASE j = 3 * q + 2
    <3>1. ByteAt(text, j) = (text[4 * q + 2] % 16) * 16 + text[4 * q + 3] \div 4
      BY <2>9, ByteInGroup
    <3>2. text[4 * q + 2] = (a % 4) * 16 + b \div 16 /\ text[4 * q + 3] = (b % 16) * 4 + c \div 64
      BY <1>1, <2>3, <2>5, <2>7, <2>9
    <3> QED
      BY <2>4, <2>6, <2>7, <2>9, <3>1, <3>2
  <2>10. CASE j = 3 * q + 3
    <3>1. ByteAt(text, j) = (text[4 * q + 3] % 4) * 64 + text[4 * q + 4]
      BY <2>10, ByteInGroup
    <3>2. text[4 * q + 3] = (b % 16) * 4 + c \div 64 /\ text[4 * q + 4] = c % 64
      BY <1>1, <2>3, <2>5, <2>7, <2>10
    <3> QED
      BY <2>4, <2>6, <2>7, <2>10, <3>1, <3>2
  <2> QED
    BY <2>2, <2>7, <2>8, <2>9, <2>10
<1> QED
  BY <1>1, <1>4, <1>5 DEF Spells, text

\* The bits behind those of the data are zero.
LEMMA EncodedFills ==
  ASSUME NEW data \in Seq(Byte), NEW text, text = b64_encode(data),
         NEW i \in (8 * Len(data) + 1)..(6 * Len(text))
  PROVE  BitString(text, 6)[i] = 0
<1>1. PICK n \in Nat : n = Len(data)
  OBVIOUS
<1>2. text \in Seq(Digit) /\ Len(text) = (8 * n + 5) \div 6 /\ (4 * n + 2) \div 3 = Len(text)
  BY <1>1, EncodedSpells, TextLength DEF Spells
<1>3. PICK q \in Nat : n = 3 * q \/ n = 3 * q + 1 \/ n = 3 * q + 2
  BY ByThree
<1> DEFINE a == ByteOr0(data, 3 * q + 1)
           b == ByteOr0(data, 3 * q + 2)
           c == ByteOr0(data, 3 * q + 3)
<1>4. /\ a \in Byte /\ b \in Byte /\ c \in Byte
      /\ 4 * q + 2 <= Len(text) => text[4 * q + 2] = (a % 4) * 16 + b \div 16
      /\ 4 * q + 3 <= Len(text) => text[4 * q + 3] = (b % 16) * 4 + c \div 64
  BY <1>1, <1>2, EncodedDigits, SMTT(20)
<1>5. /\ 3 * q + 2 > n => b = 0
      /\ 3 * q + 3 > n => c = 0
  BY <1>1, ByteOr0Is
<1> HIDE DEF a, b, c
<1> DEFINE IsBit(k, e) == BitString(text, 6)[i] = (text[k] \div 2^e) % 2
<1>6. ASSUME NEW k \in 1..Len(text), NEW e \in 0..5, i = 6 * (k - 1) + (5 - e) + 1
      PROVE  IsBit(k, e)
  <2>1. 5 - e \in 0..5 /\ 5 - (5 - e) = e
    OBVIOUS
  <2> QED
    BY <1>2, <1>6, <2>1, BitOfDigit
<1> HIDE DEF IsBit
<1>7. CASE n = 3 * q
  BY <1>1, <1>2, <1>7
<1>8. CASE n = 3 * q + 1
  <2>1. Len(text) = 4 * q + 2 /\ text[4 * q + 2] = (a % 4) * 16 /\ 4 * q + 2 \in 1..Len(text)
    <3>1. Len(text) = 4 * q + 2 /\ 4 * q + 2 \in 1..Len(text)
      BY <1>2, <1>8
    <3>2. b \div 16 = 0 /\ a % 4 \in Nat
      BY <1>4, <1>5, <1>8 DEF Byte
    <3> QED
      BY <1>4, <3>1, <3>2
  <2>2. PICK e \in 0..3 : i = 6 * ((4 * q + 2) - 1) + (5 - e) + 1
    <3>1. 6 * (4 * q + 2) - i \in 0..3
      BY <1>1, <1>8, <2>1
    <3>2. i = 6 * ((4 * q + 2) - 1) + (5 - (6 * (4 * q + 2) - i)) + 1
      BY <1>1, <1>8, <2>1
    <3> QED
      BY <3>1, <3>2
  <2>3. BitString(text, 6)[i] = (text[4 * q + 2] \div 2^e) % 2
    <3>1. e \in 0..5
      BY <2>2
    <3>2. IsBit(4 * q + 2, e)
      BY <1>6, <2>1, <2>2, <3>1
    <3> QED
      BY <3>2 DEF IsBit
  <2>4. \A x \in 0..3 : \A d \in 0..3 : ((x * 16) \div 2^d) % 2 = 0
    <3> TAKE x \in 0..3
    <3> TAKE d \in 0..3
    <3>0. CASE d = 0
      BY <3>0
    <3>1. CASE d = 1
      BY <3>1
    <3>2. CASE d = 2
      BY <3>2
    <3>3. CASE d = 3
      BY <3>3
    <3> QED
      BY <3>0, <3>1, <3>2, <3>3
  <2>5. a % 4 \in 0..3
    BY <1>4 DEF Byte
  <2> QED
    BY <2>1, <2>2, <2>3, <2>4, <2>5
<1>9. CASE n = 3 * q + 2
  <2>1. Len(text) = 4 * q + 3 /\ text[4 * q + 3] = (b % 16) * 4 /\ 4 * q + 3 \in 1..Len(text)
    <3>1. Len(text) = 4 * q + 3 /\ 4 * q + 3 \in 1..Len(text)
      BY <1>2, <1>9
    <3>2. c \div 64 = 0 /\ b % 16 \in Nat
      BY <1>4, <1>5, <1>9 DEF Byte
    <3> QED
      BY <1>4, <3>1, <3>2
  <2>2. PICK e \in 0..1 : i = 6 * ((4 * q + 3) - 1) + (5 - e) + 1
    <3>1. 6 * (4 * q + 3) - i \in 0..1
      BY <1>1, <1>9, <2>1
    <3>2. i = 6 * ((4 * q + 3) - 1) + (5 - (6 * (4 * q + 3) - i)) + 1
      BY <1>1, <1>9, <2>1
    <3> QED
      BY <3>1, <3>2
  <2>3. BitString(text, 6)[i] = (text[4 * q + 3] \div 2^e) % 2
    <3>1. e \in 0..5
      BY <2>2
    <3>2. IsBit(4 * q + 3, e)
      BY <1>6, <2>1, <2>2, <3>1
    <3> QED
      BY <3>2 DEF IsBit
  <2>4. \A x \in 0..15 : \A d \in 0..1 : ((x * 4) \div 2^d) % 2 = 0
    <3> TAKE x \in 0..15
    <3> TAKE d \in 0..1
    <3>0. CASE d = 0
      BY <3>0
    <3>1. CASE d = 1
      BY <3>1
    <3> QED
      BY <3>0, <3>1
  <2>5. b % 16 \in 0..15
    BY <1>4 DEF Byte
  <2> QED
    BY <2>1, <2>2, <2>3, <2>4, <2>5
<1> QED
  BY <1>3, <1>7, <1>8, <1>9

\* What the encoder writes is base64 of its bytes (b64_encode, protocol.rs:299-309).
THEOREM EncodesBase64 ==
  ASSUME NEW data \in Seq(Byte)
  PROVE  IsBase64Of(b64_encode(data), data)
<1>1. Carries(b64_encode(data), data)
  BY EncodedSpells, SpellsCarries
<1>2. \A i \in (8 * Len(data) + 1)..(6 * Len(b64_encode(data))) : BitString(b64_encode(data), 6)[i] = 0
  BY EncodedFills
<1> QED
  BY <1>1, <1>2 DEF IsBase64Of

-----------------------------------------------------------------------------
(* The decoder.                                                             *)

\* What b64_decode holds between two characters.
DecoderState == [buf : Nat, bits : {0, 2, 4, 6}, out : Seq(Byte)]

LEMMA DivideBuf ==
  ASSUME NEW y \in Nat
  PROVE  /\ y \div 16777216 \in Nat /\ y % 16777216 \in Nat
         /\ y = 16777216 * (y \div 16777216) + (y % 16777216)
BY SMT

\* The buffer with one more digit.
Buffer(buf, v) == (buf * 64 + v) % 2^BufBits

\* It keeps the last two.
LEMMA LastDigits ==
  ASSUME NEW buf \in Nat, NEW v \in Digit
  PROVE  /\ buf % 64 \in Digit
         /\ \E g \in Nat : Buffer(buf, v) = 4096 * g + 64 * (buf % 64) + v
<1> DEFINE x == Buffer(buf, v)
<1>1. PICK h \in Nat, u \in 0..63 : buf = 64 * h + u /\ u = buf % 64
  <2>1. buf \div 64 \in Nat /\ buf = 64 * (buf \div 64) + (buf % 64) /\ buf % 64 \in 0..63
    OBVIOUS
  <2> QED
    BY <2>1
<1>2. PICK y \in Nat : y = 4096 * h + 64 * u + v
  BY SMT DEF Digit
<1>3. x = y % 16777216
  BY <1>1, <1>2, SMT DEF Buffer, BufBits, Digit
<1> HIDE DEF x
<1>4. PICK t \in Nat : x \in Nat /\ y = 16777216 * t + x
  BY <1>3, DivideBuf, SMT
<1>5. h - 4096 * t \in Nat /\ x = 4096 * (h - 4096 * t) + 64 * u + v
  BY <1>2, <1>4, SMT DEF Digit
<1>6. u \in Digit
  BY DEF Digit
<1>7. x = 4096 * (h - 4096 * t) + 64 * (buf % 64) + v
  BY <1>1, <1>5
<1>8. buf % 64 \in Digit
  BY <1>1, <1>6
<1>9. \E g \in Nat : x = 4096 * g + 64 * (buf % 64) + v
  <2> DEFINE g == h - 4096 * t
  <2>1. g \in Nat /\ x = 4096 * g + 64 * (buf % 64) + v
    BY <1>5, <1>7
  <2> HIDE DEF g
  <2> QED
    BY <2>1
<1> QED
  BY <1>8, <1>9 DEF x

\* So what is shifted out does not reach the byte that is written.
LEMMA ShiftedBits ==
  ASSUME NEW u \in Digit, NEW v \in Digit, NEW g \in Nat,
         NEW x, x = 4096 * g + 64 * u + v
  PROVE  /\ x \in Nat /\ x % 64 = v
         /\ (x \div 2^4) % 256 = u * 4 + v \div 16
         /\ (x \div 2^2) % 256 = (u % 16) * 16 + v \div 4
         /\ (x \div 2^0) % 256 = (u % 4) * 64 + v
<1> USE DEF Digit
<1>1. x \in Nat /\ x % 64 = v
  OBVIOUS
<1>2. (x \div 2^4) % 256 = u * 4 + v \div 16
  <2>1. x \div 16 = 256 * g + u * 4 + v \div 16
    OBVIOUS
  <2>2. (256 * g + u * 4 + v \div 16) % 256 = u * 4 + v \div 16
    OBVIOUS
  <2> QED
    BY <2>1, <2>2
<1>3. (x \div 2^2) % 256 = (u % 16) * 16 + v \div 4
  <2>1. PICK k \in 0..3, r \in 0..15 : u = 16 * k + r /\ r = u % 16
    <3>1. u \div 16 \in 0..3 /\ u % 16 \in 0..15 /\ u = 16 * (u \div 16) + (u % 16)
      OBVIOUS
    <3> QED
      BY <3>1
  <2>2. x \div 4 = 1024 * g + 256 * k + 16 * r + v \div 4
    BY <2>1
  <2>3. (1024 * g + 256 * k + 16 * r + v \div 4) % 256 = r * 16 + v \div 4
    BY <2>1
  <2> QED
    BY <2>1, <2>2, <2>3
<1>4. (x \div 2^0) % 256 = (u % 4) * 64 + v
  <2>1. PICK k \in 0..15, r \in 0..3 : u = 4 * k + r /\ r = u % 4
    <3>1. u \div 4 \in 0..15 /\ u % 4 \in 0..3 /\ u = 4 * (u \div 4) + (u % 4)
      OBVIOUS
    <3> QED
      BY <3>1
  <2>2. x % 256 = r * 64 + v
    BY <2>1
  <2>3. x \div 2^0 = x
    <3>1. 2^0 = 1 /\ x \div 1 = x
      BY <1>1
    <3> QED
      BY <3>1
  <2> QED
    BY <2>1, <2>2, <2>3
<1> QED
  BY <1>1, <1>2, <1>3, <1>4

\* One character: six bits more, or a byte more and two bits less.
LEMMA ShiftIs ==
  ASSUME NEW s \in DecoderState, NEW v \in Digit
  PROVE  LET u == s.buf % 64
             t == Shift(s, v) IN
         /\ t \in DecoderState /\ t.buf % 64 = v /\ u \in Digit
         /\ s.bits = 0 => t.bits = 6 /\ t.out = s.out
         /\ s.bits = 6 => t.bits = 4 /\ t.out = Append(s.out, u * 4 + v \div 16)
         /\ s.bits = 4 => t.bits = 2 /\ t.out = Append(s.out, (u % 16) * 16 + v \div 4)
         /\ s.bits = 2 => t.bits = 0 /\ t.out = Append(s.out, (u % 4) * 64 + v)
<1> DEFINE u == s.buf % 64
           t == Shift(s, v)
           x == Buffer(s.buf, v)
           b == s.bits + 6
<1>1. /\ s.buf \in Nat /\ s.bits \in {0, 2, 4, 6} /\ s.out \in Seq(Byte)
  BY DEF DecoderState
<1>2. /\ x \in Nat /\ x % 64 = v /\ u \in Digit
      /\ (x \div 2^4) % 256 = u * 4 + v \div 16
      /\ (x \div 2^2) % 256 = (u % 16) * 16 + v \div 4
      /\ (x \div 2^0) % 256 = (u % 4) * 64 + v
  <2>1. PICK c \in Nat : c = s.buf
    BY <1>1
  <2>2. u = c % 64 /\ x = Buffer(c, v)
    BY <2>1
  <2>3. c % 64 \in Digit /\ \E g \in Nat : Buffer(c, v) = 4096 * g + 64 * (c % 64) + v
    BY LastDigits
  <2> HIDE DEF u, x
  <2>4. u \in Digit /\ \E g \in Nat : x = 4096 * g + 64 * u + v
    BY <2>2, <2>3
  <2> QED
    BY <2>4, ShiftedBits
<1>3. t = IF b >= 8 THEN [buf |-> x, bits |-> b - 8, out |-> Append(s.out, (x \div 2^(b - 8)) % 256)]
               ELSE [buf |-> x, bits |-> b, out |-> s.out]
  BY Zenon DEF Shift, Buffer
<1> HIDE DEF x, u, t
<1>9. ASSUME NEW e, e = b - 8, b >= 8
      PROVE  t = [buf |-> x, bits |-> e, out |-> Append(s.out, (x \div 2^e) % 256)]
  BY <1>3, <1>9
<1>4. /\ u * 4 + v \div 16 \in Byte
      /\ (u % 16) * 16 + v \div 4 \in Byte
      /\ (u % 4) * 64 + v \in Byte
  BY <1>2 DEF Byte, Digit
<1>5. CASE s.bits = 0
  <2>1. t = [buf |-> x, bits |-> 6, out |-> s.out]
    BY <1>3, <1>5
  <2>2. t \in DecoderState /\ t.buf = x /\ t.bits = 6 /\ t.out = s.out
    BY <1>1, <1>2, <2>1 DEF DecoderState
  <2> QED
    BY <1>2, <1>5, <2>2 DEF u, t
<1>6. CASE s.bits = 6
  <2>1. t = [buf |-> x, bits |-> 4, out |-> Append(s.out, u * 4 + v \div 16)]
    <3>1. 4 = b - 8 /\ b >= 8
      BY <1>6
    <3>2. t = [buf |-> x, bits |-> 4, out |-> Append(s.out, (x \div 2^4) % 256)]
      BY <1>9, <3>1
    <3> QED
      BY <1>2, <3>2
  <2>2. t \in DecoderState /\ t.buf = x /\ t.bits = 4 /\ t.out = Append(s.out, u * 4 + v \div 16)
    BY <1>1, <1>2, <1>4, <2>1 DEF DecoderState
  <2> QED
    BY <1>2, <1>6, <2>2 DEF u, t
<1>7. CASE s.bits = 4
  <2>1. t = [buf |-> x, bits |-> 2, out |-> Append(s.out, (u % 16) * 16 + v \div 4)]
    <3>1. 2 = b - 8 /\ b >= 8
      BY <1>7
    <3>2. t = [buf |-> x, bits |-> 2, out |-> Append(s.out, (x \div 2^2) % 256)]
      BY <1>9, <3>1
    <3> QED
      BY <1>2, <3>2
  <2>2. t \in DecoderState /\ t.buf = x /\ t.bits = 2 /\ t.out = Append(s.out, (u % 16) * 16 + v \div 4)
    BY <1>1, <1>2, <1>4, <2>1 DEF DecoderState
  <2> QED
    BY <1>2, <1>7, <2>2 DEF u, t
<1>8. CASE s.bits = 2
  <2>1. t = [buf |-> x, bits |-> 0, out |-> Append(s.out, (u % 4) * 64 + v)]
    <3>1. 0 = b - 8 /\ b >= 8
      BY <1>8
    <3>2. t = [buf |-> x, bits |-> 0, out |-> Append(s.out, (x \div 2^0) % 256)]
      BY <1>9, <3>1
    <3> QED
      BY <1>2, <3>2
  <2>2. t \in DecoderState /\ t.buf = x /\ t.bits = 0 /\ t.out = Append(s.out, (u % 4) * 64 + v)
    BY <1>1, <1>2, <1>4, <2>1 DEF DecoderState
  <2> QED
    BY <1>2, <1>8, <2>2 DEF u, t
<1> QED
  BY <1>1, <1>5, <1>6, <1>7, <1>8

\* Where the loop starts.
Fresh == [buf |-> 0, bits |-> 0, out |-> <<>>]

\* Decoding has the value its recursion says: the states of the loop.
LEMMA DecodingIs ==
  ASSUME NEW s \in Seq(Digit)
  PROVE  /\ Decoding(s)[0] = Fresh
         /\ \A i \in 1..Len(s) : Decoding(s)[i] = Shift(Decoding(s)[i - 1], s[i])
         /\ \A i \in 0..Len(s) : Decoding(s)[i] \in DecoderState
<1>1. PICK n \in Nat : n = Len(s)
  OBVIOUS
<1> DEFINE step == [i \in 1..n |-> [x \in DecoderState |-> Shift(x, s[i])]]
<1>2. \A i \in 1..n : \A x \in DecoderState : Shift(x, s[i]) \in DecoderState
  BY <1>1, ShiftIs
<1>3. step \in [1..n -> [DecoderState -> DecoderState]]
  BY <1>2
<1>4. \A i \in 1..n : \A x \in DecoderState : step[i][x] = Shift(x, s[i])
  OBVIOUS
<1> HIDE DEF step
<1>5. Fresh \in DecoderState
  BY DEF Fresh, DecoderState
<1>6. PICK e \in LoopRuns(n, DecoderState, Fresh, step) : TRUE
  <2>1. LoopRuns(n, DecoderState, Fresh, step) # {}
    BY <1>3, <1>5, LoopStates, Zenon
  <2> QED
    BY <2>1
<1>7. /\ e \in [0..n -> DecoderState] /\ e[0] = Fresh
      /\ \A i \in 1..n : e[i] = Shift(e[i - 1], s[i])
  <2>1. /\ e \in [0..n -> DecoderState] /\ e[0] = Fresh
        /\ \A i \in 1..n : e[i] = step[i][e[i - 1]]
    BY <1>6, Zenon DEF LoopRuns
  <2>2. \A i \in 1..n : e[i - 1] \in DecoderState
    BY <2>1
  <2> QED
    BY <1>4, <2>1, <2>2
<1>8. e = [i \in 0..n |-> IF i = 0 THEN Fresh ELSE Shift(e[i - 1], s[i])]
  BY <1>7
<1> DEFINE D == Decoding(s)
<1>9. D = [i \in 0..n |-> IF i = 0 THEN Fresh ELSE Shift(D[i - 1], s[i])]
  <2>1. \E d : d = [i \in 0..n |-> IF i = 0 THEN Fresh ELSE Shift(d[i - 1], s[i])]
    BY <1>8, Zenon
  <2>2. D = CHOOSE d : d = [i \in 0..n |-> IF i = 0 THEN Fresh ELSE Shift(d[i - 1], s[i])]
    BY <1>1, Zenon DEF Decoding, Fresh
  <2> HIDE DEF D
  <2> QED
    BY <2>1, <2>2, Zenon
<1> HIDE DEF D
<1>10. D[0] = Fresh /\ \A i \in 1..n : D[i] = Shift(D[i - 1], s[i])
  BY <1>9
<1>11. \A i \in 0..n : D[i] \in DecoderState
  <2> DEFINE T == {i \in Nat : i <= n => D[i] \in DecoderState}
  <2>1. 0 \in T
    BY <1>5, <1>10
  <2>2. ASSUME NEW i \in Nat, i \in T
        PROVE  i + 1 \in T
    <3> SUFFICES ASSUME i + 1 <= n
                 PROVE  D[i + 1] \in DecoderState
      OBVIOUS
    <3>1. D[i] \in DecoderState /\ i + 1 \in 1..n
      BY <2>2
    <3>2. D[i + 1] = Shift(D[i], s[i + 1])
      BY <1>10, <3>1
    <3> QED
      BY <1>2, <3>1, <3>2
  <2>3. \A i \in Nat : i \in T
    <3> HIDE DEF T
    <3> QED
      BY <2>1, <2>2, InductionRule
  <2> QED
    BY <2>3
<1> QED
  BY <1>1, <1>10, <1>11 DEF D

\* After n digits there are six times as many bits, of which whole bytes are
\* written.
ReadSoFar(s, n) ==
  /\ Decoding(s)[n].bits = (6 * n) % 8
  /\ Len(Decoding(s)[n].out) = (6 * n) \div 8
  /\ n > 0 => Decoding(s)[n].buf % 64 = s[n]
  /\ \A j \in 1..((6 * n) \div 8) : Decoding(s)[n].out[j] = ByteAt(s, j)

\* One more element.
LEMMA AppendedByte ==
  ASSUME NEW out \in Seq(Byte), NEW b \in Byte, NEW s, NEW l \in Nat, Len(out) = l,
         \A j \in 1..l : out[j] = ByteAt(s, j),
         b = ByteAt(s, l + 1)
  PROVE  /\ Len(Append(out, b)) = l + 1
         /\ \A j \in 1..(l + 1) : Append(out, b)[j] = ByteAt(s, j)
<1>1. Len(Append(out, b)) = l + 1
  OBVIOUS
<1>2. ASSUME NEW j \in 1..(l + 1)
      PROVE  Append(out, b)[j] = ByteAt(s, j)
  <2>1. CASE j = l + 1
    BY <2>1
  <2>2. CASE j \in 1..l
    BY <2>2
  <2> QED
    BY <2>1, <2>2
<1> QED
  BY <1>1, <1>2

\* A digit more leaves what was read, and adds the byte it completes.
LEMMA ReadStep ==
  ASSUME NEW s \in Seq(Digit), NEW n \in 0..(Len(s) - 1), ReadSoFar(s, n)
  PROVE  ReadSoFar(s, n + 1)
<1> DEFINE x == Decoding(s)[n]
           y == Decoding(s)[n + 1]
           u == x.buf % 64
           v == s[n + 1]
           l == (6 * n) \div 8
<1>1. n \in Nat /\ n + 1 \in 1..Len(s) /\ n \in 0..Len(s) /\ (n + 1) - 1 = n
  OBVIOUS
<1>2. x \in DecoderState /\ v \in Digit /\ y = Shift(x, v)
  <2>1. x \in DecoderState /\ v \in Digit
    BY <1>1, DecodingIs
  <2>2. y = Shift(Decoding(s)[(n + 1) - 1], v)
    BY <1>1, DecodingIs
  <2> QED
    BY <1>1, <2>1, <2>2
<1>3. /\ x.bits = (6 * n) % 8 /\ Len(x.out) = l
      /\ n > 0 => u = s[n]
      /\ \A j \in 1..l : x.out[j] = ByteAt(s, j)
  BY DEF ReadSoFar
<1> HIDE DEF x, y, u, v, l
<1>4. /\ y \in DecoderState /\ y.buf % 64 = v /\ u \in Digit
      /\ x.bits = 0 => y.bits = 6 /\ y.out = x.out
      /\ x.bits = 6 => y.bits = 4 /\ y.out = Append(x.out, u * 4 + v \div 16)
      /\ x.bits = 4 => y.bits = 2 /\ y.out = Append(x.out, (u % 16) * 16 + v \div 4)
      /\ x.bits = 2 => y.bits = 0 /\ y.out = Append(x.out, (u % 4) * 64 + v)
  <2>1. /\ Shift(x, v) \in DecoderState /\ Shift(x, v).buf % 64 = v /\ u \in Digit
        /\ x.bits = 0 => Shift(x, v).bits = 6 /\ Shift(x, v).out = x.out
        /\ x.bits = 6 => Shift(x, v).bits = 4 /\ Shift(x, v).out = Append(x.out, u * 4 + v \div 16)
        /\ x.bits = 4 => Shift(x, v).bits = 2 /\ Shift(x, v).out = Append(x.out, (u % 16) * 16 + v \div 4)
        /\ x.bits = 2 => Shift(x, v).bits = 0 /\ Shift(x, v).out = Append(x.out, (u % 4) * 64 + v)
    BY <1>2, ShiftIs, Zenon DEF u
  <2> QED
    BY <1>2, <2>1, Zenon
<1>5. x.out \in Seq(Byte) /\ y.out \in Seq(Byte)
  BY <1>2, <1>4 DEF DecoderState
<1>6. PICK q \in Nat : n = 4 * q \/ n = 4 * q + 1 \/ n = 4 * q + 2 \/ n = 4 * q + 3
  BY <1>1, ByFour
<1>7. SUFFICES /\ y.bits = (6 * (n + 1)) % 8
               /\ Len(y.out) = (6 * (n + 1)) \div 8
               /\ \A j \in 1..((6 * (n + 1)) \div 8) : y.out[j] = ByteAt(s, j)
  BY <1>1, <1>4 DEF ReadSoFar, y, v
<1>8. CASE n = 4 * q
  <2>1. l = 3 * q /\ (6 * n) % 8 = 0 /\ (6 * (n + 1)) \div 8 = 3 * q /\ (6 * (n + 1)) % 8 = 6
    BY <1>8 DEF l
  <2> QED
    BY <1>3, <1>4, <2>1
<1>9. CASE n = 4 * q + 1
  <2> DEFINE b == u * 4 + v \div 16
  <2>1. l = 3 * q /\ (6 * n) % 8 = 6 /\ (6 * (n + 1)) \div 8 = 3 * q + 1 /\ (6 * (n + 1)) % 8 = 4
    BY <1>9 DEF l
  <2>2. u = s[4 * q + 1] /\ v = s[4 * q + 2]
    BY <1>1, <1>3, <1>9 DEF v
  <2>3. b = ByteAt(s, l + 1) /\ b \in Byte
    <3>1. b \in Byte
      BY <1>2, <1>4 DEF Byte, Digit
    <3> QED
      BY <2>1, <2>2, <3>1, ByteInGroup
  <2>4. y.bits = 4 /\ y.out = Append(x.out, b)
    BY <1>3, <1>4, <2>1
  <2>5. l \in Nat /\ l + 1 = 3 * q + 1
    BY <2>1
  <2> HIDE DEF b
  <2>6. Len(y.out) = l + 1 /\ \A j \in 1..(l + 1) : y.out[j] = ByteAt(s, j)
    BY <1>3, <1>5, <2>3, <2>4, <2>5, AppendedByte
  <2> QED
    BY <2>1, <2>4, <2>5, <2>6
<1>10. CASE n = 4 * q + 2
  <2> DEFINE b == (u % 16) * 16 + v \div 4
  <2>1. l = 3 * q + 1 /\ (6 * n) % 8 = 4 /\ (6 * (n + 1)) \div 8 = 3 * q + 2 /\ (6 * (n + 1)) % 8 = 2
    BY <1>10 DEF l
  <2>2. u = s[4 * q + 2] /\ v = s[4 * q + 3]
    BY <1>1, <1>3, <1>10 DEF v
  <2>3. b = ByteAt(s, l + 1) /\ b \in Byte
    <3>1. b \in Byte
      BY <1>2, <1>4 DEF Byte, Digit
    <3> QED
      BY <2>1, <2>2, <3>1, ByteInGroup
  <2>4. y.bits = 2 /\ y.out = Append(x.out, b)
    BY <1>3, <1>4, <2>1
  <2>5. l \in Nat /\ l + 1 = 3 * q + 2
    BY <2>1
  <2> HIDE DEF b
  <2>6. Len(y.out) = l + 1 /\ \A j \in 1..(l + 1) : y.out[j] = ByteAt(s, j)
    BY <1>3, <1>5, <2>3, <2>4, <2>5, AppendedByte
  <2> QED
    BY <2>1, <2>4, <2>5, <2>6
<1>11. CASE n = 4 * q + 3
  <2> DEFINE b == (u % 4) * 64 + v
  <2>1. l = 3 * q + 2 /\ (6 * n) % 8 = 2 /\ (6 * (n + 1)) \div 8 = 3 * q + 3 /\ (6 * (n + 1)) % 8 = 0
    BY <1>11 DEF l
  <2>2. u = s[4 * q + 3] /\ v = s[4 * q + 4]
    BY <1>1, <1>3, <1>11 DEF v
  <2>3. b = ByteAt(s, l + 1) /\ b \in Byte
    <3>1. b \in Byte
      BY <1>2, <1>4 DEF Byte, Digit
    <3> QED
      BY <2>1, <2>2, <3>1, ByteInGroup
  <2>4. y.bits = 0 /\ y.out = Append(x.out, b)
    BY <1>3, <1>4, <2>1
  <2>5. l \in Nat /\ l + 1 = 3 * q + 3
    BY <2>1
  <2> HIDE DEF b
  <2>6. Len(y.out) = l + 1 /\ \A j \in 1..(l + 1) : y.out[j] = ByteAt(s, j)
    BY <1>3, <1>5, <2>3, <2>4, <2>5, AppendedByte
  <2> QED
    BY <2>1, <2>4, <2>5, <2>6
<1> QED
  BY <1>6, <1>8, <1>9, <1>10, <1>11

\* So at the end all whole bytes are read.
LEMMA ReadAll ==
  ASSUME NEW s \in Seq(Digit)
  PROVE  ReadSoFar(s, Len(s))
<1> DEFINE T == {n \in Nat : n <= Len(s) => ReadSoFar(s, n)}
<1>1. 0 \in T
  BY DecodingIs DEF ReadSoFar, Fresh
<1>2. ASSUME NEW n \in Nat, n \in T
      PROVE  n + 1 \in T
  <2> SUFFICES ASSUME n + 1 <= Len(s)
               PROVE  ReadSoFar(s, n + 1)
    OBVIOUS
  <2>1. n \in 0..(Len(s) - 1) /\ ReadSoFar(s, n)
    BY <1>2
  <2> QED
    BY <2>1, ReadStep
<1>3. \A n \in Nat : n \in T
  <2> HIDE DEF T
  <2> QED
    BY <1>1, <1>2, InductionRule
<1> QED
  BY <1>3

\* A text of a length an encoder produces spells what the decoder reads in it.
LEMMA DecodedSpells ==
  ASSUME NEW s \in Seq(Digit), Len(s) % 4 # 1
  PROVE  Spells(s, Decoding(s)[Len(s)].out)
<1> DEFINE out == Decoding(s)[Len(s)].out
<1>1. PICK n \in Nat : n = Len(s)
  OBVIOUS
<1>2. out \in Seq(Byte)
  <2>1. Len(s) \in 0..Len(s)
    OBVIOUS
  <2> QED
    BY <2>1, DecodingIs DEF DecoderState
<1>3. Len(out) = (6 * n) \div 8 /\ \A j \in 1..((6 * n) \div 8) : out[j] = ByteAt(s, j)
  BY <1>1, ReadAll DEF ReadSoFar
<1> HIDE DEF out
<1>4. PICK q \in Nat : n = 4 * q \/ n = 4 * q + 1 \/ n = 4 * q + 2 \/ n = 4 * q + 3
  BY ByFour
<1>5. n = (8 * ((6 * n) \div 8) + 5) \div 6
  BY <1>1, <1>4
<1> QED
  BY <1>1, <1>2, <1>3, <1>5 DEF Spells, out

-----------------------------------------------------------------------------
(* The '=' at the end of a text.                                            *)

\* Of a text whose '=' are all behind its n-th character, these n are left.
LEMMA TrimmedIs ==
  ASSUME NEW text \in Seq(Char), NEW n \in 0..Len(text),
         \A i \in 1..Len(text) : text[i] = Pad <=> i > n
  PROVE  Trimmed(text) = SubSeq(text, 1, n) /\ Digits(text) = SubSeq(text, 1, n)
<1>1. Max({0} \cup {i \in 1..Len(text) : text[i] # Pad}) = n
  <2>1. {0} \cup {i \in 1..Len(text) : text[i] # Pad} = 0..n
    OBVIOUS
  <2>2. n \in 0..n /\ \A y \in 0..n : n >= y
    OBVIOUS
  <2>3. Max(0..n) \in 0..n /\ \A y \in 0..n : Max(0..n) >= y
    BY <2>2, Zenon DEF Max
  <2>4. Max(0..n) = n
    BY <2>2, <2>3
  <2> QED
    BY <2>1, <2>4, Zenon
<1> DEFINE t == Trimmed(text)
<1>2. t = SubSeq(text, 1, n)
  BY <1>1 DEF Trimmed
<1>3. Len(t) = n /\ t \in Seq(Char) /\ \A j \in 1..n : t[j] = text[j]
  BY <1>2
<1>4. Digits(text) = SubSeq(t, 1, Min({Len(t)} \cup {i - 1 : i \in {j \in 1..Len(t) : t[j] = Pad}}))
  BY Zenon DEF Digits
<1> HIDE DEF t
<1>5. {j \in 1..Len(t) : t[j] = Pad} = {}
  BY <1>3
<1>6. {Len(t)} \cup {i - 1 : i \in {j \in 1..Len(t) : t[j] = Pad}} = {n}
  BY <1>3, <1>5
<1>7. Min({n}) = n
  <2>1. \E x \in {n} : \A y \in {n} : x =< y
    OBVIOUS
  <2>2. Min({n}) \in {n}
    BY <2>1, Zenon DEF Min
  <2> QED
    BY <2>2
<1>8. Digits(text) = SubSeq(t, 1, n)
  BY <1>4, <1>6, <1>7
<1>9. SubSeq(t, 1, n) = t
  BY <1>3
<1> QED
  BY <1>2, <1>8, <1>9 DEF t

\* Of a text of digits nothing is trimmed.
LEMMA DigitsOnly ==
  ASSUME NEW text \in Seq(Digit)
  PROVE  /\ Trimmed(text) = text /\ Digits(text) = text
         /\ Undecodable(text) <=> Len(text) % 4 = 1
<1>1. text \in Seq(Char) /\ Len(text) \in 0..Len(text) /\ SubSeq(text, 1, Len(text)) = text
  BY DEF Digit, Char
<1>2. \A i \in 1..Len(text) : text[i] # Pad /\ text[i] # Alien
  <2>1. \A d \in Digit : d # Pad /\ d # Alien
    BY DEF Digit, Pad, Alien
  <2> QED
    BY <2>1
<1>3. \A i \in 1..Len(text) : text[i] = Pad <=> i > Len(text)
  BY <1>2
<1>4. Trimmed(text) = text /\ Digits(text) = text
  BY <1>1, <1>3, TrimmedIs
<1>5. ~Contains(text, Alien)
  BY <1>2, Zenon DEF Contains
<1> QED
  BY <1>4, <1>5 DEF Undecodable

\* An encoder's text is decoded, and is empty only for no bytes.
LEMMA EncodedDecodable ==
  ASSUME NEW data \in Seq(Byte)
  PROVE  /\ b64_encode(data) \in Seq(Digit)
         /\ ~Undecodable(b64_encode(data))
         /\ b64_encode(data) = <<>> <=> data = <<>>
<1> DEFINE text == b64_encode(data)
<1>1. PICK n \in Nat : n = Len(data)
  OBVIOUS
<1>2. text \in Seq(Digit) /\ Len(text) = (8 * n + 5) \div 6
  BY <1>1, EncodedSpells DEF Spells
<1> HIDE DEF text
<1>3. PICK q \in Nat : n = 3 * q \/ n = 3 * q + 1 \/ n = 3 * q + 2
  BY ByThree
<1>4. Len(text) % 4 # 1 /\ (Len(text) = 0 <=> n = 0)
  BY <1>2, <1>3
<1>5. ~Undecodable(text)
  BY <1>2, <1>4, DigitsOnly
<1>6. text = <<>> <=> Len(text) = 0
  BY <1>2
<1>7. data = <<>> <=> n = 0
  BY <1>1
<1> QED
  BY <1>2, <1>4, <1>5, <1>6, <1>7 DEF text

\* A text spells one sequence of bytes only.
LEMMA SpellsOne ==
  ASSUME NEW text, NEW data, NEW other, Spells(text, data), Spells(text, other)
  PROVE  data = other
<1>1. data \in Seq(Byte) /\ other \in Seq(Byte)
  BY DEF Spells
<1>2. PICK m \in Nat, n \in Nat : m = Len(data) /\ n = Len(other)
  BY <1>1
<1>3. (8 * m + 5) \div 6 = (8 * n + 5) \div 6
  BY <1>2 DEF Spells
<1>4. m = n
  BY <1>3
<1>5. \A j \in 1..m : data[j] = other[j]
  BY <1>2, <1>4 DEF Spells
<1>6. data = [j \in 1..m |-> data[j]] /\ other = [j \in 1..m |-> other[j]]
  <2>1. /\ data = [j \in 1..Len(data) |-> data[j]]
        /\ other = [j \in 1..Len(other) |-> other[j]]
    BY <1>1
  <2> QED
    BY <1>2, <1>4, <2>1, Zenon
<1> QED
  BY <1>5, <1>6, Zenon

\* What b64_decode reads in the text of b64_encode are the bytes it was given,
\* whatever their number (b64_encode, b64_decode).
THEOREM Base64RoundTrip ==
  ASSUME NEW data \in Seq(Byte)
  PROVE  b64_decode(b64_encode(data)) = data
<1> DEFINE text == b64_encode(data)
<1>1. text \in Seq(Digit) /\ ~Undecodable(text)
  BY EncodedDecodable
<1>2. Spells(text, data)
  BY EncodedSpells
<1> HIDE DEF text
<1>3. Digits(text) = text /\ Len(text) % 4 # 1
  BY <1>1, DigitsOnly
<1>4. Spells(text, b64_decode(text))
  BY <1>1, <1>3, DecodedSpells DEF b64_decode
<1> QED
  BY <1>2, <1>4, SpellsOne DEF text

\* A well-formed text: its '=' are its last characters, at most two, and what
\* precedes them has a length an encoder produces.
LEMMA WellFormedIs ==
  ASSUME NEW text \in Seq(Char), WellFormedText(text)
  PROVE  \E m \in 1..Len(text) :
           /\ m % 4 # 1
           /\ \A i \in 1..Len(text) : (text[i] = Pad <=> i > m) /\ text[i] # Alien
           /\ Unpadded(text) = SubSeq(text, 1, m)
<1> DEFINE pads == {i \in 1..Len(text) : text[i] = Pad}
           n == Cardinality(pads)
<1>1. n \in Nat
  <2>1. IsFiniteSet(1..Len(text)) /\ pads \in SUBSET (1..Len(text))
    BY FS_Interval
  <2> QED
    BY <2>1, FS_Subset, FS_CardinalityType
<1>2. /\ Len(text) > n
      /\ \A i \in 1..Len(text) : (text[i] = Pad <=> i > Len(text) - n) /\ text[i] # Alien
      /\ n = 0 => Len(text) % 4 # 1
      /\ n # 0 => Len(text) % 4 = 0 /\ n <= 2
  BY Zenon DEF WellFormedText
<1>3. Unpadded(text) = SubSeq(text, 1, Len(text) - n)
  BY Zenon DEF Unpadded
<1> HIDE DEF n
<1>4. PICK m \in 1..Len(text) : m = Len(text) - n
  BY <1>1, <1>2
<1>5. m % 4 # 1
  BY <1>1, <1>2, <1>4
<1> QED
  BY <1>2, <1>3, <1>4, <1>5

\* It is decoded, to the bytes whose bits it has.
LEMMA WellFormedDecodes ==
  ASSUME NEW text \in Seq(Char), WellFormedText(text)
  PROVE  text # <<>> /\ ~Undecodable(text) /\ Carries(Unpadded(text), b64_decode(text))
<1>1. PICK m \in 1..Len(text) :
        /\ m % 4 # 1
        /\ \A i \in 1..Len(text) : (text[i] = Pad <=> i > m) /\ text[i] # Alien
        /\ Unpadded(text) = SubSeq(text, 1, m)
  BY WellFormedIs
<1> DEFINE s == SubSeq(text, 1, m)
<1>2. Trimmed(text) = s /\ Digits(text) = s
  <2>1. m \in 0..Len(text) /\ \A i \in 1..Len(text) : text[i] = Pad <=> i > m
    BY <1>1
  <2> QED
    BY <2>1, TrimmedIs
<1>3. Len(s) = m /\ \A i \in 1..m : s[i] = text[i]
  OBVIOUS
<1>4. s \in Seq(Digit)
  <2>1. \A d \in Char : d # Pad /\ d # Alien => d \in Digit
    BY DEF Char, Digit, Pad, Alien
  <2>2. ASSUME NEW i \in 1..m
        PROVE  text[i] \in Digit
    <3>1. i \in 1..Len(text) /\ ~(i > m)
      OBVIOUS
    <3>2. text[i] \in Char
      BY <3>1
    <3> QED
      BY <1>1, <2>1, <3>1, <3>2
  <2>3. s = [i \in 1..m |-> text[i]]
    OBVIOUS
  <2> QED
    BY <2>2, <2>3
<1> HIDE DEF s
<1>5. ~Undecodable(text)
  <2>1. ~Contains(s, Alien)
    BY <1>4, DigitsOnly, <1>1, <1>3 DEF Undecodable
  <2> QED
    BY <1>1, <1>2, <1>3, <2>1 DEF Undecodable
<1>6. b64_decode(text) = Decoding(s)[Len(s)].out
  BY <1>2, Zenon DEF b64_decode
<1>7. Carries(s, b64_decode(text))
  BY <1>1, <1>3, <1>4, <1>6, DecodedSpells, SpellsCarries
<1>8. text # <<>>
  OBVIOUS
<1> QED
  BY <1>1, <1>5, <1>7, <1>8 DEF s

\* Without a '=', only a well-formed text is decoded.
LEMMA DecodedWellFormed ==
  ASSUME NEW text \in Seq(Char), text # <<>>, ~Undecodable(text), ~Contains(text, Pad)
  PROVE  WellFormedText(text)
<1> DEFINE pads == {i \in 1..Len(text) : text[i] = Pad}
<1>1. \A i \in 1..Len(text) : text[i] # Pad
  BY Zenon DEF Contains
<1>2. Cardinality(pads) = 0
  BY <1>1, FS_EmptySet
<1>3. Len(text) > 0
  OBVIOUS
<1>4. Trimmed(text) = text /\ Digits(text) = text
  <2>1. Len(text) \in 0..Len(text) /\ SubSeq(text, 1, Len(text)) = text
    OBVIOUS
  <2>2. \A i \in 1..Len(text) : text[i] = Pad <=> i > Len(text)
    BY <1>1
  <2> QED
    BY <2>1, <2>2, TrimmedIs
<1>5. Len(text) % 4 # 1 /\ \A i \in 1..Len(text) : text[i] # Alien
  BY <1>4, Zenon DEF Undecodable, Contains
<1> DEFINE n == Cardinality(pads)
<1>6. n = 0
  BY <1>2
<1>7. WellFormedText(text) <=>
        /\ Len(text) > n
        /\ \A i \in 1..Len(text) : (text[i] = Pad <=> i > Len(text) - n) /\ text[i] # Alien
        /\ IF n = 0 THEN Len(text) % 4 # 1 ELSE Len(text) % 4 = 0 /\ n <= 2
  BY Zenon DEF WellFormedText
<1> HIDE DEF n
<1> QED
  BY <1>1, <1>3, <1>5, <1>6, <1>7

\* So what is read is what is well-formed, and some more with a '=' in it.
LEMMA ReadTexts ==
  ASSUME NEW text \in Seq(Char)
  PROVE  text # <<>> /\ ~Undecodable(text) <=>
           WellFormedText(text) \/ (Contains(text, Pad) /\ ~Undecodable(text))
<1>1. Contains(text, Pad) => text # <<>>
  BY DEF Contains
<1> QED
  BY <1>1, WellFormedDecodes, DecodedWellFormed

-----------------------------------------------------------------------------
(* The elements of a sequence at some of its indexes.                       *)

\* FlattenSeq joins one sequence after the other.
LEMMA FlattenIs ==
  ASSUME NEW S, NEW n \in Nat, NEW ps \in Seq(Seq(S)), Len(ps) = n
  PROVE  \E e \in [0..n -> Seq(S)] :
           /\ e[0] = <<>> /\ \A i \in 1..n : e[i] = e[i - 1] \o ps[i]
           /\ FlattenSeq(ps) = e[n]
<1>1. \A i \in 1..n : ps[i] \in Seq(S)
  OBVIOUS
<1> DEFINE step == [i \in 1..n |-> [x \in Seq(S) |-> x \o ps[i]]]
<1>2. step \in [1..n -> [Seq(S) -> Seq(S)]] /\ <<>> \in Seq(S)
  BY <1>1
<1>3. \A i \in 1..n : \A x \in Seq(S) : step[i][x] = x \o ps[i]
  OBVIOUS
<1> HIDE DEF step
<1>4. PICK e \in LoopRuns(n, Seq(S), <<>>, step) : TRUE
  <2>1. LoopRuns(n, Seq(S), <<>>, step) # {}
    BY <1>2, LoopStates, Zenon
  <2> QED
    BY <2>1
<1>5. /\ e \in [0..n -> Seq(S)] /\ e[0] = <<>>
      /\ \A i \in 1..n : e[i] = e[i - 1] \o ps[i]
  <2>1. /\ e \in [0..n -> Seq(S)] /\ e[0] = <<>>
        /\ \A i \in 1..n : e[i] = step[i][e[i - 1]]
    BY <1>4, Zenon DEF LoopRuns
  <2>2. \A i \in 1..n : i - 1 \in 0..n
    OBVIOUS
  <2>3. \A i \in 1..n : e[i - 1] \in Seq(S)
    BY <2>1, <2>2, Zenon
  <2> QED
    BY <1>3, <2>1, <2>3, Zenon
<1>6. CASE n = 0
  <2>1. FlattenSeq(ps) = ps
    BY <1>6, Zenon DEF FlattenSeq
  <2>2. ps = <<>>
    BY <1>6
  <2> QED
    BY <1>5, <1>6, <2>1, <2>2
<1>7. CASE n # 0
  <2> DEFINE Flat(d) == [i \in 1..n |-> IF i = 1 THEN ps[i] ELSE d[i - 1] \o ps[i]]
             d == CHOOSE d : d = Flat(d)
  <2>1. FlattenSeq(ps) = d[n]
    BY <1>7, Zenon DEF FlattenSeq
  <2>2. \E x : x = Flat(x)
    <3>1. e[1] = ps[1]
      <4>1. 1 \in 1..n /\ 1 - 1 = 0
        BY <1>7
      <4>2. e[1] = <<>> \o ps[1] /\ ps[1] \in Seq(S)
        BY <1>1, <1>5, <4>1
      <4> QED
        BY <4>2
    <3> DEFINE x == [i \in 1..n |-> e[i]]
    <3>2. ASSUME NEW i \in 1..n
          PROVE  x[i] = IF i = 1 THEN ps[i] ELSE x[i - 1] \o ps[i]
      <4>1. x[i] = e[i]
        OBVIOUS
      <4>2. CASE i = 1
        BY <3>1, <4>1, <4>2
      <4>3. CASE i # 1
        <5>1. i - 1 \in 1..n
          BY <4>3
        <5>2. x[i - 1] = e[i - 1]
          BY <5>1
        <5> QED
          BY <1>5, <4>1, <4>3, <5>2, Zenon
      <4> QED
        BY <4>2, <4>3
    <3>3. x = Flat(x)
      <4>1. x = [i \in 1..n |-> x[i]]
        BY Zenon
      <4> HIDE DEF x
      <4> QED
        BY <3>2, <4>1, Zenon
    <3> QED
      BY <3>3
  <2>3. d = Flat(d)
    <3> HIDE DEF Flat
    <3> QED
      BY <2>2, Zenon
  <2> HIDE DEF d
  <2> DEFINE T == {i \in Nat : i + 1 <= n => d[i + 1] = e[i + 1]}
  <2>4. 0 \in T
    <3>1. 1 \in 1..n /\ 1 - 1 = 0
      BY <1>7
    <3>2. d[1] = ps[1]
      BY <2>3, <3>1
    <3>3. e[1] = <<>> \o ps[1] /\ ps[1] \in Seq(S)
      BY <1>1, <1>5, <3>1
    <3> QED
      BY <3>2, <3>3
  <2>5. ASSUME NEW i \in Nat, i \in T
        PROVE  i + 1 \in T
    <3> SUFFICES ASSUME (i + 1) + 1 <= n
                 PROVE  d[(i + 1) + 1] = e[(i + 1) + 1]
      OBVIOUS
    <3>1. d[i + 1] = e[i + 1]
      BY <2>5
    <3>2. (i + 1) + 1 \in 1..n /\ (i + 1) + 1 # 1 /\ ((i + 1) + 1) - 1 = i + 1
      OBVIOUS
    <3>3. d[(i + 1) + 1] = d[i + 1] \o ps[(i + 1) + 1]
      BY <2>3, <3>2
    <3>4. e[(i + 1) + 1] = e[i + 1] \o ps[(i + 1) + 1]
      BY <1>5, <3>2
    <3> QED
      BY <3>1, <3>3, <3>4
  <2>6. \A i \in Nat : i \in T
    <3> HIDE DEF T
    <3> QED
      BY <2>4, <2>5, InductionRule
  <2>7. d[n] = e[n]
    <3>1. n - 1 \in Nat /\ (n - 1) + 1 = n
      BY <1>7
    <3>2. n - 1 \in T
      BY <2>6, <3>1
    <3> QED
      BY <3>1, <3>2
  <2> QED
    BY <1>5, <2>1, <2>7
<1> QED
  BY <1>6, <1>7

\* An index after the other, its element is appended or left out.
Collects(e, s, I, n) ==
  /\ e[0] = <<>>
  /\ \A i \in 1..n : e[i] = IF i \in I THEN Append(e[i - 1], s[i]) ELSE e[i - 1]

LEMMA OnlyIs ==
  ASSUME NEW S, NEW s \in Seq(S), NEW I
  PROVE  \E e \in [0..Len(s) -> Seq(S)] : Collects(e, s, I, Len(s)) /\ Only(s, I) = e[Len(s)]
<1>0. PICK n \in Nat : n = Len(s)
  OBVIOUS
<1> DEFINE ps == [i \in 1..Len(s) |-> IF i \in I THEN <<s[i]>> ELSE <<>>]
<1>1. \A i \in 1..n : s[i] \in S
  BY <1>0
<1>2. ps \in Seq(Seq(S)) /\ Len(ps) = n /\ \A i \in 1..n : ps[i] = IF i \in I THEN <<s[i]>> ELSE <<>>
  BY <1>0, <1>1
<1>3. Only(s, I) = FlattenSeq(ps)
  BY Zenon DEF Only
<1> HIDE DEF ps
<1>4. PICK e \in [0..n -> Seq(S)] :
        /\ e[0] = <<>> /\ \A i \in 1..n : e[i] = e[i - 1] \o ps[i]
        /\ FlattenSeq(ps) = e[n]
  <2>1. ps \in Seq(Seq(S)) /\ Len(ps) = n /\ n \in Nat
    BY <1>2, Zenon
  <2> QED
    BY <2>1, FlattenIs, ZenonT(30)
<1>5. ASSUME NEW i \in 1..n
      PROVE  e[i] = IF i \in I THEN Append(e[i - 1], s[i]) ELSE e[i - 1]
  <2>1. e[i - 1] \in Seq(S) /\ e[i] = e[i - 1] \o ps[i] /\ s[i] \in S
    <3>1. i - 1 \in 0..n
      OBVIOUS
    <3> QED
      BY <1>1, <1>4, <3>1, Zenon
  <2>2. CASE i \in I
    <3>1. ps[i] = <<s[i]>>
      BY <1>2, <2>2
    <3> QED
      BY <2>1, <2>2, <3>1
  <2>3. CASE i \notin I
    <3>1. ps[i] = <<>>
      BY <1>2, <2>3
    <3> QED
      BY <2>1, <2>3, <3>1
  <2> QED
    BY <2>2, <2>3
<1>6. \A i \in 1..n : e[i] = IF i \in I THEN Append(e[i - 1], s[i]) ELSE e[i - 1]
  BY <1>5, Zenon
<1>7. Collects(e, s, I, n) /\ Only(s, I) = e[n]
  BY <1>3, <1>4, <1>6, Zenon DEF Collects
<1>8. e \in [0..n -> Seq(S)]
  OBVIOUS
<1> QED
  BY <1>0, <1>7, <1>8

\* The element at the end.
LEMMA AppendIs ==
  ASSUME NEW S, NEW q \in Seq(S), NEW x \in S, NEW l \in Nat, l = Len(q)
  PROVE  /\ Len(Append(q, x)) = l + 1 /\ Append(q, x)[l + 1] = x
         /\ \A j \in 1..l : Append(q, x)[j] = q[j]
  OBVIOUS

\* The same indexes of two sequences pick their elements in pairs.
LEMMA OnlyTogether ==
  ASSUME NEW S, NEW s \in Seq(S), NEW U, NEW t \in Seq(U), NEW I, Len(s) = Len(t)
  PROVE  /\ Only(s, I) \in Seq(S) /\ Only(t, I) \in Seq(U)
         /\ Len(Only(s, I)) = Len(Only(t, I))
         /\ \A j \in 1..Len(Only(s, I)) :
              \E i \in 1..Len(s) : i \in I /\ Only(s, I)[j] = s[i] /\ Only(t, I)[j] = t[i]
<1>1. PICK n \in Nat : Len(s) = n /\ Len(t) = n
  OBVIOUS
<1>2. PICK e \in [0..n -> Seq(S)] : Collects(e, s, I, n) /\ Only(s, I) = e[n]
  <2>1. \E e \in [0..Len(s) -> Seq(S)] : Collects(e, s, I, Len(s)) /\ Only(s, I) = e[Len(s)]
    BY OnlyIs
  <2> QED
    BY <1>1, <2>1
<1>3. PICK d \in [0..n -> Seq(U)] : Collects(d, t, I, n) /\ Only(t, I) = d[n]
  <2>1. \E d \in [0..Len(t) -> Seq(U)] : Collects(d, t, I, Len(t)) /\ Only(t, I) = d[Len(t)]
    BY OnlyIs
  <2> QED
    BY <1>1, <2>1
<1> DEFINE Both(a, b) == /\ Len(a) = Len(b)
                         /\ \A j \in 1..Len(a) : \E i \in 1..n : i \in I /\ a[j] = s[i] /\ b[j] = t[i]
           T == {k \in Nat : k <= n => Both(e[k], d[k])}
<1>4. 0 \in T
  BY <1>2, <1>3 DEF Collects
<1>5. ASSUME NEW k \in Nat, k \in T
      PROVE  k + 1 \in T
  <2> SUFFICES ASSUME k + 1 <= n
               PROVE  Both(e[k + 1], d[k + 1])
    OBVIOUS
  <2>1. Both(e[k], d[k])
    BY <1>5
  <2>2. k + 1 \in 1..n /\ k \in 0..n /\ (k + 1) - 1 = k
    OBVIOUS
  <2>3. /\ e[k] \in Seq(S) /\ d[k] \in Seq(U)
        /\ e[k + 1] = IF k + 1 \in I THEN Append(e[k], s[k + 1]) ELSE e[k]
        /\ d[k + 1] = IF k + 1 \in I THEN Append(d[k], t[k + 1]) ELSE d[k]
    BY <1>2, <1>3, <2>2 DEF Collects
  <2>4. CASE k + 1 \notin I
    <3> HIDE DEF Both
    <3> QED
      BY <2>1, <2>3, <2>4
  <2>5. CASE k + 1 \in I
    <3>1. PICK l \in Nat : l = Len(e[k]) /\ l = Len(d[k])
      BY <2>1, <2>3
    <3> DEFINE a == e[k + 1]
               b == d[k + 1]
    <3>2. a = Append(e[k], s[k + 1]) /\ b = Append(d[k], t[k + 1])
      BY <2>3, <2>5, Zenon
    <3>3. s[k + 1] \in S /\ t[k + 1] \in U
      BY <1>1, <2>2
    <3>4. /\ Len(a) = l + 1 /\ a[l + 1] = s[k + 1] /\ \A j \in 1..l : a[j] = e[k][j]
      <4> DEFINE q == e[k]
      <4>1. q \in Seq(S) /\ l = Len(q) /\ a = Append(q, s[k + 1])
        BY <2>3, <3>1, <3>2, Zenon
      <4> HIDE DEF q, a
      <4>2. /\ Len(a) = l + 1 /\ a[l + 1] = s[k + 1] /\ \A j \in 1..l : a[j] = q[j]
        BY <3>3, <4>1, AppendIs
      <4> QED
        BY <4>2 DEF q
    <3>5. /\ Len(b) = l + 1 /\ b[l + 1] = t[k + 1] /\ \A j \in 1..l : b[j] = d[k][j]
      <4> DEFINE q == d[k]
      <4>1. q \in Seq(U) /\ l = Len(q) /\ b = Append(q, t[k + 1])
        BY <2>3, <3>1, <3>2, Zenon
      <4> HIDE DEF q, b
      <4>2. /\ Len(b) = l + 1 /\ b[l + 1] = t[k + 1] /\ \A j \in 1..l : b[j] = q[j]
        BY <3>3, <4>1, AppendIs
      <4> QED
        BY <4>2 DEF q
    <3> HIDE DEF a, b
    <3>6. ASSUME NEW j \in 1..(l + 1)
          PROVE  \E i \in 1..n : i \in I /\ a[j] = s[i] /\ b[j] = t[i]
      <4>1. CASE j = l + 1
        BY <2>2, <2>5, <3>4, <3>5, <4>1
      <4>2. CASE j \in 1..l
        <5>1. PICK i \in 1..n : i \in I /\ e[k][j] = s[i] /\ d[k][j] = t[i]
          BY <2>1, <3>1, <4>2
        <5> QED
          BY <3>4, <3>5, <4>2, <5>1
      <4> QED
        BY <4>1, <4>2
    <3>7. Both(a, b)
      BY <3>4, <3>5, <3>6
    <3> QED
      BY <3>7 DEF a, b
  <2> QED
    BY <2>4, <2>5
<1>6. n \in T
  <2> HIDE DEF T
  <2> QED
    BY <1>4, <1>5, InductionRule
<1>7. Both(e[n], d[n]) /\ e[n] \in Seq(S) /\ d[n] \in Seq(U)
  BY <1>2, <1>3, <1>6
<1> QED
  BY <1>1, <1>2, <1>3, <1>7

-----------------------------------------------------------------------------
(* Details and entries.                                                     *)

\* Of entries made of details only one without a type or a value is left out,
\* and the others are read as they were (wire_details, parse_wire_details).
THEOREM DetailsRoundTrip ==
  ASSUME NEW X, NEW details \in Seq([type : X, value : Seq(Byte)])
  PROVE  parse_wire_details(wire_details(details)) =
           Only(details, {i \in 1..Len(details) : details[i].type # NoType /\ details[i].value # <<>>})
<1> DEFINE D == [type : X, value : Seq(Byte)]
           E == [type : X, text : Seq(Digit)]
           w == wire_details(details)
           I == {i \in 1..Len(details) : details[i].type # NoType /\ details[i].value # <<>>}
<1>1. PICK n \in Nat : n = Len(details)
  OBVIOUS
<1>2. \A i \in 1..n : details[i] \in D
  <2>1. details \in Seq(D)
    OBVIOUS
  <2> HIDE DEF D
  <2> QED
    BY <1>1, <2>1
<1>3. w = [i \in 1..n |-> Entry(details[i].type, b64_encode(details[i].value))]
  BY <1>1, Zenon DEF wire_details
<1> HIDE DEF w
<1>4. ASSUME NEW i \in 1..n
      PROVE  /\ w[i] \in E /\ w[i].type = details[i].type
             /\ w[i].text = b64_encode(details[i].value)
             /\ ~Skipped(w[i]) <=> i \in I
             /\ Detail(w[i].type, b64_decode(w[i].text)) = details[i]
  <2>1. details[i].value \in Seq(Byte) /\ details[i].type \in X
    BY <1>2
  <2>2. b64_encode(details[i].value) \in Seq(Digit)
    BY <2>1, EncodedDecodable
  <2>3. w[i] = [type |-> details[i].type, text |-> b64_encode(details[i].value)]
    BY <1>3, Zenon DEF Entry
  <2>4. w[i].type = details[i].type /\ w[i].text = b64_encode(details[i].value)
    BY <2>3
  <2>5. ~Undecodable(w[i].text) /\ (w[i].text = <<>> <=> details[i].value = <<>>)
    BY <2>1, <2>4, EncodedDecodable
  <2>6. ~Skipped(w[i]) <=> i \in I
    BY <1>1, <2>4, <2>5, Zenon DEF Skipped
  <2>7. b64_decode(w[i].text) = details[i].value
    BY <2>1, <2>4, Base64RoundTrip
  <2>8. Detail(w[i].type, b64_decode(w[i].text)) = details[i]
    <3>1. details[i] = [type |-> details[i].type, value |-> details[i].value]
      BY <1>2
    <3> QED
      BY <2>4, <2>7, <3>1, Zenon DEF Detail
  <2>9. w[i] \in E
    BY <2>1, <2>2, <2>3
  <2> QED
    BY <2>4, <2>6, <2>8, <2>9
<1>5. w \in Seq(E) /\ Len(w) = n
  <2>1. \A i \in 1..n : w[i] \in E
    BY <1>4
  <2>2. w = [i \in 1..n |-> w[i]]
    BY <1>3
  <2> HIDE DEF E
  <2> QED
    BY <2>1, <2>2
<1>6. {i \in 1..Len(w) : ~Skipped(w[i])} = I
  BY <1>1, <1>4, <1>5
<1> DEFINE read == WellFormed(w)
           out == Only(details, I)
<1>7. read = Only(w, I)
  BY <1>6, Zenon DEF WellFormed
<1>8. parse_wire_details(w) = [j \in 1..Len(read) |-> Detail(read[j].type, b64_decode(read[j].text))]
  BY Zenon DEF parse_wire_details
<1> HIDE DEF D, E, I
<1>9. /\ out \in Seq(D) /\ Len(out) = Len(read)
      /\ \A j \in 1..Len(out) : \E i \in 1..n : out[j] = details[i] /\ read[j] = w[i]
  <2>1. details \in Seq(D) /\ Len(details) = Len(w)
    BY <1>1, <1>5 DEF D
  <2>2. /\ Only(details, I) \in Seq(D)
        /\ Len(Only(details, I)) = Len(Only(w, I))
        /\ \A j \in 1..Len(Only(details, I)) :
             \E i \in 1..Len(details) : i \in I /\ Only(details, I)[j] = details[i] /\ Only(w, I)[j] = w[i]
    BY <1>5, <2>1, OnlyTogether
  <2> QED
    BY <1>1, <1>7, <2>2
<1> HIDE DEF read, out
<1>10. ASSUME NEW j \in 1..Len(out)
       PROVE  Detail(read[j].type, b64_decode(read[j].text)) = out[j]
  <2>1. PICK i \in 1..n : out[j] = details[i] /\ read[j] = w[i]
    BY <1>9
  <2> QED
    BY <1>4, <2>1, Zenon
<1>11. out = [j \in 1..Len(out) |-> out[j]]
  <2>1. out \in Seq(D)
    BY <1>9, Zenon
  <2> QED
    BY <2>1
<1>12. parse_wire_details(w) = out
  BY <1>8, <1>9, <1>10, <1>11, Zenon
<1> QED
  BY <1>12 DEF w, out, I

\* Of any entries are read those with a type and a text that is well-formed, or
\* has a '=' and can be read; a well-formed one as the bytes it stands for
\* (parse_wire_details).
THEOREM EntriesRead ==
  ASSUME NEW X, NEW entries \in Seq([type : X, text : Seq(Char)])
  PROVE  LET taken == Only(entries, {i \in 1..Len(entries) :
                        /\ entries[i].type # NoType
                        /\ \/ WellFormedText(entries[i].text)
                           \/ Contains(entries[i].text, Pad) /\ ~Undecodable(entries[i].text)})
             read == parse_wire_details(entries) IN
           /\ Len(read) = Len(taken)
           /\ \A i \in 1..Len(taken) :
                /\ read[i].type = taken[i].type
                /\ WellFormedText(taken[i].text) => Carries(Unpadded(taken[i].text), read[i].value)
<1> DEFINE E == [type : X, text : Seq(Char)]
           I == {i \in 1..Len(entries) :
                        /\ entries[i].type # NoType
                        /\ \/ WellFormedText(entries[i].text)
                           \/ Contains(entries[i].text, Pad) /\ ~Undecodable(entries[i].text)}
           taken == Only(entries, I)
           read == parse_wire_details(entries)
<1>0. entries \in Seq(E)
  OBVIOUS
<1>1. \A i \in 1..Len(entries) : entries[i].text \in Seq(Char)
  <2> HIDE DEF E
  <2>1. \A i \in 1..Len(entries) : entries[i] \in E
    BY <1>0
  <2>2. \A e \in E : e.text \in Seq(Char)
    BY DEF E
  <2> QED
    BY <2>1, <2>2, Zenon
<1>2. {i \in 1..Len(entries) : ~Skipped(entries[i])} = I
  <2>1. ASSUME NEW i \in 1..Len(entries)
        PROVE  ~Skipped(entries[i]) <=> i \in I
    <3>1. entries[i].text # <<>> /\ ~Undecodable(entries[i].text) <=>
            WellFormedText(entries[i].text) \/ (Contains(entries[i].text, Pad) /\ ~Undecodable(entries[i].text))
      BY <1>1, ReadTexts
    <3> QED
      BY <3>1, Zenon DEF Skipped
  <2> HIDE DEF I
  <2>2. I \subseteq 1..Len(entries)
    BY DEF I
  <2> QED
    BY <2>1, <2>2
<1>3. WellFormed(entries) = taken
  BY <1>2, Zenon DEF WellFormed
<1>4. read = [i \in 1..Len(taken) |-> Detail(taken[i].type, b64_decode(taken[i].text))]
  BY <1>3, Zenon DEF parse_wire_details
<1> HIDE DEF I, read
<1>5. taken \in Seq(E)
  <2> HIDE DEF E
  <2> QED
    BY <1>0, OnlyTogether
<1> HIDE DEF taken
<1>6. Len(read) = Len(taken)
  BY <1>4, <1>5
<1>7. ASSUME NEW i \in 1..Len(taken)
      PROVE  /\ read[i].type = taken[i].type
             /\ WellFormedText(taken[i].text) => Carries(Unpadded(taken[i].text), read[i].value)
  <2>1. taken[i].text \in Seq(Char)
    <3> HIDE DEF E
    <3>1. taken[i] \in E
      BY <1>5
    <3>2. \A e \in E : e.text \in Seq(Char)
      BY DEF E
    <3> QED
      BY <3>1, <3>2, Zenon
  <2>2. read[i] = [type |-> taken[i].type, value |-> b64_decode(taken[i].text)]
    BY <1>4, Zenon DEF Detail
  <2>3. read[i].type = taken[i].type /\ read[i].value = b64_decode(taken[i].text)
    BY <2>2
  <2> QED
    BY <2>1, <2>3, WellFormedDecodes
<1> QED
  BY <1>6, <1>7 DEF I, read, taken

\* The text of each entry is the base64 of its detail's value (wire_details).
LEMMA EntriesWritten ==
  ASSUME NEW X, NEW details \in Seq([type : X, value : Seq(Byte)]), NEW i \in 1..Len(details)
  PROVE  IsBase64Of(wire_details(details)[i].text, details[i].value)
<1> DEFINE D == [type : X, value : Seq(Byte)]
<1>1. details[i].value \in Seq(Byte)
  <2>1. details \in Seq(D)
    OBVIOUS
  <2> HIDE DEF D
  <2>2. details[i] \in D
    BY <2>1
  <2> QED
    BY <2>2 DEF D
<1>2. wire_details(details)[i] = [type |-> details[i].type, text |-> b64_encode(details[i].value)]
  BY Zenon DEF wire_details, Entry
<1>3. wire_details(details)[i].text = b64_encode(details[i].value)
  BY <1>2
<1> QED
  BY <1>1, <1>3, EncodesBase64

\* No entries, no details.
LEMMA NothingRead == parse_wire_details(<<>>) = <<>>
<1> DEFINE I == {i \in 1..Len(<<>>) : ~Skipped(<<>>[i])}
           ps == [i \in 1..Len(<<>>) |-> IF i \in I THEN <<<<>>[i]>> ELSE <<>>]
           read == Only(<<>>, I)
<1>1. ps = <<>>
  OBVIOUS
<1>2. read = FlattenSeq(ps)
  BY Zenon DEF Only
<1>3. read = <<>>
  <2>1. FlattenSeq(<<>>) = <<>>
    BY DEF FlattenSeq
  <2> QED
    BY <1>1, <1>2, <2>1, Zenon
<1>4. parse_wire_details(<<>>) = [i \in 1..Len(read) |-> Detail(read[i].type, b64_decode(read[i].text))]
  BY Zenon DEF parse_wire_details, WellFormed
<1> HIDE DEF read
<1> QED
  BY <1>3, <1>4
=============================================================================
