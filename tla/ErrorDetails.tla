---------------------------- MODULE ErrorDetails ----------------------------
(***************************************************************************)
(* The structured details of an error, on their way through the JSON of a  *)
(* unary error body or of an END frame: a list of entries, each a type and *)
(* a value in base64.                                                      *)
(***************************************************************************)
EXTENDS Integers, SequencesExt

\* The elements of a sequence at some of its indexes, in their order.
Only(s, indexes) == FlattenSeq([i \in 1..Len(s) |-> IF i \in indexes THEN <<s[i]>> ELSE <<>>])

Byte == 0..255

\* A character of the alphabet is its index there; two more stand for '=' and
\* for any character outside the alphabet.
Pad   == 64
Alien == 65
Char  == 0..65

-----------------------------------------------------------------------------
\* The group of up to three bytes behind the first `at`, as four characters.
Group(data, at) ==
  LET byte(i) == IF at + i <= Len(data) THEN data[at + i] ELSE 0
      n == byte(1) * 65536 + byte(2) * 256 + byte(3) IN
    <<n \div 262144, (n \div 4096) % 64, (n \div 64) % 64, n % 64>>

\* Every group gives four characters, the last one a character more than it has
\* bytes.
b64_encode(data) ==
  [i \in 1..((4 * Len(data) + 2) \div 3) |-> Group(data, 3 * ((i - 1) \div 4))[((i - 1) % 4) + 1]]

\* The bits read and not yet written are the low ones of `buf`, a u32 that loses
\* what is shifted out of it (here at 24 bits, as TLC's integers end at 2^31).
BufBits == 24

Shift(s, v) ==
  LET buf  == (s.buf * 64 + v) % 2^BufBits
      bits == s.bits + 6 IN
    IF bits >= 8
      THEN [buf |-> buf, bits |-> bits - 8,
            out |-> Append(s.out, (buf \div 2^(bits - 8)) % 256)]
      ELSE [buf |-> buf, bits |-> bits, out |-> s.out]

\* The text without the '=' at its end, and the part ahead of a '=' inside.
Trimmed(text) ==
  SubSeq(text, 1, Max({0} \cup {i \in 1..Len(text) : text[i] # Pad}))
Digits(text) ==
  LET t == Trimmed(text) IN
    SubSeq(t, 1, Min({Len(t)} \cup {i - 1 : i \in {j \in 1..Len(t) : t[j] = Pad}}))

\* What b64_decode refuses: a length no encoder produces, and a character that is
\* not in the alphabet.
Undecodable(text) == Len(Trimmed(text)) % 4 = 1 \/ Contains(Digits(text), Alien)

\* What the loop holds after each character.
Decoding(s) ==
  LET after[n \in 0..Len(s)] ==
        IF n = 0 THEN [buf |-> 0, bits |-> 0, out |-> <<>>] ELSE Shift(after[n - 1], s[n])
  IN after

b64_decode(text) == Decoding(Digits(text))[Len(Digits(text))].out

-----------------------------------------------------------------------------
\* A detail is a type and a value of bytes; an entry has its text instead.
Detail(type, value) == [type |-> type, value |-> value]
Entry(type, text)   == [type |-> type, text |-> text]
NoType == ""

wire_details(details) ==
  [i \in 1..Len(details) |-> Entry(details[i].type, b64_encode(details[i].value))]

\* An entry that cannot be read is left out.  (Before it: one that ends the list.)
Skipped(e) == e.type = NoType \/ e.text = <<>> \/ Undecodable(e.text)

UpToMalformed(entries) ==
  SubSeq(entries, 1, Min({Len(entries)} \cup {i - 1 : i \in {j \in 1..Len(entries) : Skipped(entries[j])}}))
WellFormed(entries) == Only(entries, {i \in 1..Len(entries) : ~Skipped(entries[i])})

parse_wire_details(entries) ==
  LET read == WellFormed(entries) IN
    [i \in 1..Len(read) |-> Detail(read[i].type, b64_decode(read[i].text))]

-----------------------------------------------------------------------------
(* The reference: base64 moves bits (RFC 4648, unpadded).                    *)

\* The bits of numbers of some width, the high one first.
BitString(s, width) ==
  [i \in 1..(width * Len(s)) |-> (s[((i - 1) \div width) + 1] \div 2^(width - 1 - ((i - 1) % width))) % 2]

\* The text is as long as the data needs and begins with its bits; an encoder fills
\* it up with zero bits.
Carries(text, data) ==
  /\ Len(text) = (8 * Len(data) + 5) \div 6
  /\ SubSeq(BitString(text, 6), 1, 8 * Len(data)) = BitString(data, 8)

IsBase64Of(text, data) ==
  /\ Carries(text, data)
  /\ \A i \in (8 * Len(data) + 1)..(6 * Len(text)) : BitString(text, 6)[i] = 0

\* What RFC 4648 takes for base64, with or without the padding to groups of four.
WellFormedText(text) ==
  LET n == Cardinality({i \in 1..Len(text) : text[i] = Pad}) IN
    /\ Len(text) > n
    /\ \A i \in 1..Len(text) : (text[i] = Pad <=> i > Len(text) - n) /\ text[i] # Alien
    /\ IF n = 0 THEN Len(text) % 4 # 1 ELSE Len(text) % 4 = 0 /\ n <= 2

Unpadded(text) == SubSeq(text, 1, Len(text) - Cardinality({i \in 1..Len(text) : text[i] = Pad}))
=============================================================================
