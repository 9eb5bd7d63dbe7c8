------------------------ MODULE Base64url_bits_proofs ------------------------
(***************************************************************************)
(* What base64url.c computes, for inputs of every length: the encoder      *)
(* writes the characters the RFC defines, and the decoder takes what it    *)
(* does not refuse back to the bytes.  The loops are the induction: the    *)
(* invariants say what has been computed when the indices stand at i, j.   *)
(***************************************************************************)
EXTENDS Base64url_proofs

\* The byte at index n, as the bits of the reference see it: 0 behind the input.
Byte(n) == IF n < Len(in) THEN in[n+1] ELSE 0

R == (8 * Len(in) + 5) \div 6   \* the characters of the reference

\* The encoder has written the reference so far, and all of it at the end.
EncodeInv ==
  /\ pc \in {"encode", "tail"} => \A m \in 1..Len(chars) : chars[m] = Sextet(m - 1)
  /\ pc = "encoded" => chars = Reference \o <<NUL>>

\* The text is the reference, or is padded to a multiple of four.
TextInv ==
  /\ Len(text) = R \/ (R <= Len(text) /\ Len(text) % 4 = 0 /\ Len(text) < R + 4)
  /\ \A k \in 1..R : text[k] = Sextet(k - 1)
  /\ \A k \in R+1 .. Len(text) : text[k] = PAD

\* What n characters have of byte m, which the last of them begins.
Begun(n, m) ==
  CASE n % 4 = 1 -> (Byte(m) \div 4) * 4
    [] n % 4 = 2 -> (Byte(m) \div 16) * 16
    [] n % 4 = 3 -> (Byte(m) \div 64) * 64

\* The decoder has the bytes before j, and of byte j what has been read, unless the
\* padding told it that there is none.
BytesInv ==
  /\ i \in 0..R
  /\ j = (3 * i) \div 4
  /\ Len(out) = IF i % 4 = 0 \/ (i = R /\ R < Len(text)) THEN j ELSE j + 1
  /\ \A k \in 1..j : out[k] = Byte(k - 1)
  /\ Len(out) = j + 1 => out[j+1] = Begun(i, j)

ContentInv ==
  /\ EncodeInv
  /\ pc = "decode" => TextInv /\ BytesInv
  /\ pc = "decoded" => DecodesBytes
  /\ pc # "decoded" => result = "none"

------------------------------------------------------------------------------
(* The bits of a byte, and the sextets of a group of three bytes.          *)

LEMMA ByteType ==
  ASSUME in \in Seq(0..255), NEW n \in Nat
  PROVE  Byte(n) \in 0..255
<1>1. CASE n < Len(in)
  <2>1. n + 1 \in 1..Len(in)
    BY <1>1
  <2>. QED  BY <1>1, <2>1, Elements DEF Byte
<1>2. CASE ~(n < Len(in))
  BY <1>2 DEF Byte
<1>. QED  BY <1>1, <1>2

LEMMA BitOfByte ==
  ASSUME in \in Seq(0..255), NEW n \in Nat, NEW b \in 0..7,
         NEW w \in {1, 2, 4, 8, 16, 32, 64, 128}, 2 ^ (7 - b) = w
  PROVE  Bit(8 * n + b) = (Byte(n) \div w) % 2
<1> DEFINE k == 8 * n + b
<1>1. k \div 8 = n /\ k % 8 = b /\ Len(in) \in Nat
  BY LenProperties
<1> HIDE DEF k
<1>2. CASE n < Len(in)
  <2>1. Bit(k) = (in[n+1] \div (2 ^ (7 - b))) % 2
    <3>1. ~(k \div 8 >= Len(in))
      BY <1>1, <1>2
    <3>. QED  BY <1>1, <3>1, Zenon DEF Bit
  <2>. QED  BY <1>2, <2>1 DEF Byte, k
<1>3. CASE n >= Len(in)
  <2>1. Bit(k) = 0 /\ Byte(n) = 0
    BY <1>1, <1>3 DEF Bit, Byte
  <2>2. (0 \div w) % 2 = 0
    OBVIOUS
  <2>. QED  BY <2>1, <2>2 DEF k
<1>. QED  BY <1>1, <1>2, <1>3

\* The bits from k on are those of the byte v.
BitsAt(k, v) ==
  /\ Bit(k) = (v \div 128) % 2    /\ Bit(k + 1) = (v \div 64) % 2
  /\ Bit(k + 2) = (v \div 32) % 2 /\ Bit(k + 3) = (v \div 16) % 2
  /\ Bit(k + 4) = (v \div 8) % 2  /\ Bit(k + 5) = (v \div 4) % 2
  /\ Bit(k + 6) = (v \div 2) % 2  /\ Bit(k + 7) = v % 2

LEMMA BitsOfByte ==
  ASSUME in \in Seq(0..255), NEW n \in Nat
  PROVE  BitsAt(8 * n, Byte(n))
<1>1. Byte(n) \in 0..255
  BY ByteType
<1>2. /\ 2 ^ (7 - 0) = 128 /\ 2 ^ (7 - 1) = 64 /\ 2 ^ (7 - 2) = 32 /\ 2 ^ (7 - 3) = 16
      /\ 2 ^ (7 - 4) = 8 /\ 2 ^ (7 - 5) = 4 /\ 2 ^ (7 - 6) = 2 /\ 2 ^ (7 - 7) = 1
  BY SMT
<1>3. Bit(8 * n + 0) = (Byte(n) \div 128) % 2
  BY <1>2, BitOfByte
<1>4. Bit(8 * n + 1) = (Byte(n) \div 64) % 2
  BY <1>2, BitOfByte
<1>5. Bit(8 * n + 2) = (Byte(n) \div 32) % 2
  BY <1>2, BitOfByte
<1>6. Bit(8 * n + 3) = (Byte(n) \div 16) % 2
  BY <1>2, BitOfByte
<1>7. Bit(8 * n + 4) = (Byte(n) \div 8) % 2
  BY <1>2, BitOfByte
<1>8. Bit(8 * n + 5) = (Byte(n) \div 4) % 2
  BY <1>2, BitOfByte
<1>9. Bit(8 * n + 6) = (Byte(n) \div 2) % 2
  BY <1>2, BitOfByte
<1>10. Bit(8 * n + 7) = (Byte(n) \div 1) % 2
  BY <1>2, BitOfByte
<1>11. 8 * n + 0 = 8 * n /\ \A v \in 0..255 : v \div 1 = v
  OBVIOUS
<1>12. Bit(8 * n) = (Byte(n) \div 128) % 2 /\ Bit(8 * n + 7) = Byte(n) % 2
  <2>1. Byte(n) \div 1 = Byte(n)
    BY <1>1, <1>11, Zenon
  <2>. QED  BY <1>3, <1>10, <1>11, <2>1
<1>. QED  BY <1>4, <1>5, <1>6, <1>7, <1>8, <1>9, <1>12 DEF BitsAt

\* The sums of bits by which a byte is cut.
LEMMA BitSums ==
  ASSUME NEW b \in 0..255
  PROVE  /\ 32 * ((b \div 128) % 2) + 16 * ((b \div 64) % 2) + 8 * ((b \div 32) % 2)
            + 4 * ((b \div 16) % 2) + 2 * ((b \div 8) % 2) + ((b \div 4) % 2) = b \div 4
         /\ 2 * ((b \div 2) % 2) + (b % 2) = b % 4
         /\ 8 * ((b \div 128) % 2) + 4 * ((b \div 64) % 2) + 2 * ((b \div 32) % 2)
            + ((b \div 16) % 2) = b \div 16
         /\ 8 * ((b \div 8) % 2) + 4 * ((b \div 4) % 2) + 2 * ((b \div 2) % 2) + (b % 2) = b % 16
         /\ 2 * ((b \div 128) % 2) + ((b \div 64) % 2) = b \div 64
         /\ 32 * ((b \div 32) % 2) + 16 * ((b \div 16) % 2) + 8 * ((b \div 8) % 2)
            + 4 * ((b \div 4) % 2) + 2 * ((b \div 2) % 2) + (b % 2) = b % 64
  BY SMT

\* A group of three bytes is four sextets.
LEMMA SextetsOfGroup ==
  ASSUME in \in Seq(0..255), NEW g \in Nat
  PROVE  /\ Sextet(4 * g) = Byte(3 * g) \div 4
         /\ Sextet(4 * g + 1) = (Byte(3 * g) % 4) * 16 + Byte(3 * g + 1) \div 16
         /\ Sextet(4 * g + 2) = (Byte(3 * g + 1) % 16) * 4 + Byte(3 * g + 2) \div 64
         /\ Sextet(4 * g + 3) = Byte(3 * g + 2) % 64
<1> DEFINE a == Byte(3 * g)  b == Byte(3 * g + 1)  c == Byte(3 * g + 2)
<1>1. a \in 0..255 /\ b \in 0..255 /\ c \in 0..255
  <2>1. 3 * g \in Nat /\ 3 * g + 1 \in Nat /\ 3 * g + 2 \in Nat
    OBVIOUS
  <2>. QED  BY <2>1, ByteType
<1>2. BitsAt(24 * g, a) /\ BitsAt(24 * g + 8, b) /\ BitsAt(24 * g + 16, c)
  <2>1. /\ 8 * (3 * g) = 24 * g /\ 8 * (3 * g + 1) = 24 * g + 8 /\ 8 * (3 * g + 2) = 24 * g + 16
        /\ 3 * g \in Nat /\ 3 * g + 1 \in Nat /\ 3 * g + 2 \in Nat
    OBVIOUS
  <2>2. BitsAt(8 * (3 * g), a) /\ BitsAt(8 * (3 * g + 1), b) /\ BitsAt(8 * (3 * g + 2), c)
    BY <2>1, BitsOfByte
  <2>. QED  BY <2>1, <2>2
<1>3. \A m \in Nat : \A k \in Nat : 6 * m = k =>
        Sextet(m) = 32 * Bit(k) + 16 * Bit(k + 1) + 8 * Bit(k + 2)
                    + 4 * Bit(k + 3) + 2 * Bit(k + 4) + Bit(k + 5)
  BY DEF Sextet
<1> HIDE DEF a, b, c
<1>6. Sextet(4 * g) = a \div 4
  <2>1. 4 * g \in Nat /\ 24 * g \in Nat /\ 6 * (4 * g) = 24 * g
    OBVIOUS
  <2>2. Sextet(4 * g) = 32 * Bit(24 * g) + 16 * Bit(24 * g + 1) + 8 * Bit(24 * g + 2)
           + 4 * Bit(24 * g + 3) + 2 * Bit(24 * g + 4) + Bit(24 * g + 5)
    BY <2>1, <1>3, Zenon
  <2>4. /\ Bit(24 * g) = (a \div 128) % 2
        /\ Bit(24 * g + 1) = (a \div 64) % 2
        /\ Bit(24 * g + 2) = (a \div 32) % 2
        /\ Bit(24 * g + 3) = (a \div 16) % 2
        /\ Bit(24 * g + 4) = (a \div 8) % 2
        /\ Bit(24 * g + 5) = (a \div 4) % 2
    BY <1>2 DEF BitsAt
  <2>. QED  BY <1>1, <2>2, <2>4, BitSums
<1>7. Sextet(4 * g + 1) = (a % 4) * 16 + b \div 16
  <2>1. 4 * g + 1 \in Nat /\ 24 * g + 6 \in Nat /\ 6 * (4 * g + 1) = 24 * g + 6
    OBVIOUS
  <2>2. Sextet(4 * g + 1) = 32 * Bit(24 * g + 6) + 16 * Bit(24 * g + 6 + 1) + 8 * Bit(24 * g + 6 + 2)
           + 4 * Bit(24 * g + 6 + 3) + 2 * Bit(24 * g + 6 + 4) + Bit(24 * g + 6 + 5)
    BY <2>1, <1>3, Zenon
  <2>3. /\ 24 * g + 6 + 1 = 24 * g + 7
        /\ 24 * g + 6 + 2 = 24 * g + 8
        /\ 24 * g + 6 + 3 = 24 * g + 8 + 1
        /\ 24 * g + 6 + 4 = 24 * g + 8 + 2
        /\ 24 * g + 6 + 5 = 24 * g + 8 + 3
    OBVIOUS
  <2>4. /\ Bit(24 * g + 6) = (a \div 2) % 2
        /\ Bit(24 * g + 6 + 1) = a % 2
        /\ Bit(24 * g + 6 + 2) = (b \div 128) % 2
        /\ Bit(24 * g + 6 + 3) = (b \div 64) % 2
        /\ Bit(24 * g + 6 + 4) = (b \div 32) % 2
        /\ Bit(24 * g + 6 + 5) = (b \div 16) % 2
    BY <1>2, <2>3 DEF BitsAt
  <2>5. /\ 2 * ((a \div 2) % 2) + (a % 2) = a % 4
        /\ 8 * ((b \div 128) % 2) + 4 * ((b \div 64) % 2) + 2 * ((b \div 32) % 2)
           + ((b \div 16) % 2) = b \div 16
    BY <1>1, BitSums
  <2>6. Sextet(4 * g + 1) = 32 * ((a \div 2) % 2) + 16 * (a % 2) + 8 * ((b \div 128) % 2)
            + 4 * ((b \div 64) % 2) + 2 * ((b \div 32) % 2) + ((b \div 16) % 2)
    BY <2>2, <2>4
  <2>. QED  BY <1>1, <2>5, <2>6
<1>8. Sextet(4 * g + 2) = (b % 16) * 4 + c \div 64
  <2>1. 4 * g + 2 \in Nat /\ 24 * g + 12 \in Nat /\ 6 * (4 * g + 2) = 24 * g + 12
    OBVIOUS
  <2>2. Sextet(4 * g + 2) = 32 * Bit(24 * g + 12) + 16 * Bit(24 * g + 12 + 1) + 8 * Bit(24 * g + 12 + 2)
           + 4 * Bit(24 * g + 12 + 3) + 2 * Bit(24 * g + 12 + 4) + Bit(24 * g + 12 + 5)
    BY <2>1, <1>3, Zenon
  <2>3. /\ 24 * g + 12 = 24 * g + 8 + 4
        /\ 24 * g + 12 + 1 = 24 * g + 8 + 5
        /\ 24 * g + 12 + 2 = 24 * g + 8 + 6
        /\ 24 * g + 12 + 3 = 24 * g + 8 + 7
        /\ 24 * g + 12 + 4 = 24 * g + 16
        /\ 24 * g + 12 + 5 = 24 * g + 16 + 1
    OBVIOUS
  <2>4. /\ Bit(24 * g + 12) = (b \div 8) % 2
        /\ Bit(24 * g + 12 + 1) = (b \div 4) % 2
        /\ Bit(24 * g + 12 + 2) = (b \div 2) % 2
        /\ Bit(24 * g + 12 + 3) = b % 2
        /\ Bit(24 * g + 12 + 4) = (c \div 128) % 2
        /\ Bit(24 * g + 12 + 5) = (c \div 64) % 2
    BY <1>2, <2>3 DEF BitsAt
  <2>5. /\ 8 * ((b \div 8) % 2) + 4 * ((b \div 4) % 2) + 2 * ((b \div 2) % 2) + (b % 2) = b % 16
        /\ 2 * ((c \div 128) % 2) + ((c \div 64) % 2) = c \div 64
    BY <1>1, BitSums
  <2>6. Sextet(4 * g + 2) = 32 * ((b \div 8) % 2) + 16 * ((b \div 4) % 2) + 8 * ((b \div 2) % 2)
            + 4 * (b % 2) + 2 * ((c \div 128) % 2) + ((c \div 64) % 2)
    BY <2>2, <2>4
  <2>. QED  BY <1>1, <2>5, <2>6
<1>9. Sextet(4 * g + 3) = c % 64
  <2>1. 4 * g + 3 \in Nat /\ 24 * g + 18 \in Nat /\ 6 * (4 * g + 3) = 24 * g + 18
    OBVIOUS
  <2>2. Sextet(4 * g + 3) = 32 * Bit(24 * g + 18) + 16 * Bit(24 * g + 18 + 1) + 8 * Bit(24 * g + 18 + 2)
           + 4 * Bit(24 * g + 18 + 3) + 2 * Bit(24 * g + 18 + 4) + Bit(24 * g + 18 + 5)
    BY <2>1, <1>3, Zenon
  <2>3. /\ 24 * g + 18 = 24 * g + 16 + 2
        /\ 24 * g + 18 + 1 = 24 * g + 16 + 3
        /\ 24 * g + 18 + 2 = 24 * g + 16 + 4
        /\ 24 * g + 18 + 3 = 24 * g + 16 + 5
        /\ 24 * g + 18 + 4 = 24 * g + 16 + 6
        /\ 24 * g + 18 + 5 = 24 * g + 16 + 7
    OBVIOUS
  <2>4. /\ Bit(24 * g + 18) = (c \div 32) % 2
        /\ Bit(24 * g + 18 + 1) = (c \div 16) % 2
        /\ Bit(24 * g + 18 + 2) = (c \div 8) % 2
        /\ Bit(24 * g + 18 + 3) = (c \div 4) % 2
        /\ Bit(24 * g + 18 + 4) = (c \div 2) % 2
        /\ Bit(24 * g + 18 + 5) = c % 2
    BY <1>2, <2>3 DEF BitsAt
  <2>. QED  BY <1>1, <2>2, <2>4, BitSums
<1>. QED  BY <1>6, <1>7, <1>8, <1>9 DEF a, b, c

------------------------------------------------------------------------------
(* The encoder writes the reference.                                       *)

\* The bytes an index and the one before it stand for.
LEMMA ByteIn ==
  ASSUME in \in Seq(0..255), NEW n \in Nat, n < Len(in)
  PROVE  in[n+1] = Byte(n) /\ in[n+1] \in 0..255
<1>1. n + 1 \in 1..Len(in)
  BY LenProperties
<1>. QED  BY <1>1, Elements DEF Byte

\* A turn writes the next characters of the reference.
LEMMA TurnWrites ==
  ASSUME IInv, pc = "encode", i < Len(in)
  PROVE  \A m \in 1..Len(Turn) : Turn[m] = Sextet(j + m - 1)
<1>1. in \in Seq(0..255) /\ i \in Nat /\ j = Before3(i)
  BY LenProperties DEF IInv
<1> DEFINE g == i \div 3
<1>2. g \in Nat /\ i = 3 * g + (i % 3) /\ i % 3 \in 0..2
  BY <1>1
<1> HIDE DEF g
<1>3. in[i+1] = Byte(i)
  BY <1>1, ByteIn
<1>4. CASE i % 3 = 0
  <2>1. i = 3 * g /\ j = 4 * g /\ j + 1 - 1 = 4 * g
    BY <1>1, <1>2, <1>4 DEF Before3, g
  <2>2. Turn = <<Byte(3 * g) \div 4>>
    BY <1>3, <1>4, <2>1 DEF Turn
  <2>3. Sextet(j + 1 - 1) = Byte(3 * g) \div 4
    BY <1>1, <1>2, <2>1, SextetsOfGroup
  <2>. QED  BY <2>2, <2>3
<1>5. CASE i % 3 = 1
  <2>1. i = 3 * g + 1 /\ j = 4 * g + 1 /\ j + 1 - 1 = 4 * g + 1
    BY <1>1, <1>2, <1>5 DEF Before3, g
  <2>2. in[i] = Byte(3 * g)
    <3>1. 3 * g \in Nat /\ 3 * g < Len(in) /\ 3 * g + 1 = i
      BY <1>1, <1>2, <2>1, LenProperties
    <3>. QED  BY <1>1, <3>1, ByteIn
  <2>3. Turn = <<(Byte(3 * g) % 4) * 16 + Byte(3 * g + 1) \div 16>>
    BY <1>3, <1>5, <2>1, <2>2 DEF Turn
  <2>4. Sextet(j + 1 - 1) = (Byte(3 * g) % 4) * 16 + Byte(3 * g + 1) \div 16
    BY <1>1, <1>2, <2>1, SextetsOfGroup
  <2>. QED  BY <2>3, <2>4
<1>6. CASE i % 3 = 2
  <2>1. i = 3 * g + 2 /\ j = 4 * g + 2 /\ j + 1 - 1 = 4 * g + 2 /\ j + 2 - 1 = 4 * g + 3
    BY <1>1, <1>2, <1>6 DEF Before3, g
  <2>2. in[i] = Byte(3 * g + 1)
    <3>1. 3 * g + 1 \in Nat /\ 3 * g + 1 < Len(in) /\ (3 * g + 1) + 1 = i
      BY <1>1, <1>2, <2>1, LenProperties
    <3>. QED  BY <1>1, <3>1, ByteIn
  <2>3. Turn = <<(Byte(3 * g + 1) % 16) * 4 + Byte(3 * g + 2) \div 64, Byte(3 * g + 2) % 64>>
    BY <1>3, <1>6, <2>1, <2>2 DEF Turn
  <2>4. /\ Sextet(j + 1 - 1) = (Byte(3 * g + 1) % 16) * 4 + Byte(3 * g + 2) \div 64
        /\ Sextet(j + 2 - 1) = Byte(3 * g + 2) % 64
    BY <1>1, <1>2, <2>1, SextetsOfGroup
  <2>5. Len(Turn) = 2 /\ \A m \in 1..2 : m = 1 \/ m = 2
    BY <2>3
  <2>. QED  BY <2>3, <2>4, <2>5
<1>. QED  BY <1>2, <1>4, <1>5, <1>6

\* The end writes the last one, whose missing bits are 0, and there are no more.
LEMMA RestWrites ==
  ASSUME IInv, pc = "tail"
  PROVE  /\ \A m \in 1..Len(Rest) : Rest[m] = Sextet(j + m - 1)
         /\ j + Len(Rest) = R
<1>1. /\ in \in Seq(0..255) /\ Len(in) \in Nat /\ i \in Nat /\ i = Len(in) - 1
      /\ j = Before3(i + 1)
  BY LenProperties DEF IInv
<1> DEFINE g == i \div 3
<1>2. g \in Nat /\ i = 3 * g + (i % 3) /\ i % 3 \in 0..2
  <2>1. \A a \in Nat : a \div 3 \in Nat /\ a = 3 * (a \div 3) + (a % 3) /\ a % 3 \in 0..2
    OBVIOUS
  <2>. QED  BY <1>1, <2>1, Zenon
<1> HIDE DEF g
<1>3. in[i+1] = Byte(i) /\ Byte(i) \in 0..255
  <2>1. i < Len(in)
    BY <1>1
  <2>. QED  BY <1>1, <2>1, ByteIn
<1>4. Byte(i + 1) = 0
  BY <1>1 DEF Byte
<1>5. CASE i % 3 = 0
  <2>1. i = 3 * g /\ j = 4 * g + 1 /\ j + 1 - 1 = 4 * g + 1 /\ R = 4 * g + 2
    BY <1>1, <1>2, <1>5 DEF Before3, R
  <2>2. Rest = <<(Byte(3 * g) % 4) * 16>>
    BY <1>3, <1>5, <2>1 DEF Rest
  <2>3. Sextet(4 * g + 1) = (Byte(3 * g) % 4) * 16 + Byte(3 * g + 1) \div 16
    BY <1>1, <1>2, SextetsOfGroup
  <2>4. Byte(3 * g + 1) = 0 /\ \A x \in Nat : (x % 4) * 16 + 0 \div 16 = (x % 4) * 16
    BY <1>4, <2>1
  <2>5. Sextet(j + 1 - 1) = (Byte(3 * g) % 4) * 16
    BY <1>3, <2>1, <2>3, <2>4
  <2>6. Len(Rest) = 1 /\ \A m \in 1..1 : m = 1
    BY <2>2
  <2>7. j + Len(Rest) = R
    BY <1>2, <2>1, <2>6
  <2>8. \A m \in 1..Len(Rest) : Rest[m] = Sextet(j + m - 1)
    BY <2>2, <2>5, <2>6
  <2>. QED  BY <2>7, <2>8
<1>6. CASE i % 3 = 1
  <2>1. i = 3 * g + 1 /\ j = 4 * g + 2 /\ j + 1 - 1 = 4 * g + 2 /\ R = 4 * g + 3
    BY <1>1, <1>2, <1>6 DEF Before3, R
  <2>2. Rest = <<(Byte(3 * g + 1) % 16) * 4>>
    BY <1>3, <1>6, <2>1 DEF Rest
  <2>3. Sextet(4 * g + 2) = (Byte(3 * g + 1) % 16) * 4 + Byte(3 * g + 2) \div 64
    BY <1>1, <1>2, SextetsOfGroup
  <2>4. Byte(3 * g + 2) = 0 /\ \A x \in Nat : (x % 16) * 4 + 0 \div 64 = (x % 16) * 4
    <3>1. (3 * g + 1) + 1 = 3 * g + 2
      BY <1>2
    <3>. QED  BY <1>4, <2>1, <3>1
  <2>5. Sextet(j + 1 - 1) = (Byte(3 * g + 1) % 16) * 4
    BY <1>3, <2>1, <2>3, <2>4
  <2>6. Len(Rest) = 1 /\ \A m \in 1..1 : m = 1
    BY <2>2
  <2>7. j + Len(Rest) = R
    BY <1>2, <2>1, <2>6
  <2>8. \A m \in 1..Len(Rest) : Rest[m] = Sextet(j + m - 1)
    BY <2>2, <2>5, <2>6
  <2>. QED  BY <2>7, <2>8
<1>7. CASE i % 3 = 2
  <2>1. j = 4 * g + 4 /\ R = 4 * g + 4
    BY <1>1, <1>2, <1>7 DEF Before3, R
  <2>2. Rest = <<>>
    BY <1>7 DEF Rest
  <2>. QED  BY <2>1, <2>2
<1>. QED  BY <1>2, <1>5, <1>6, <1>7

\* What is appended to a prefix of the reference extends it.
LEMMA Extends ==
  ASSUME NEW s \in Seq(0..NUL), NEW t \in Seq(0..NUL),
         \A m \in 1..Len(s) : s[m] = Sextet(m - 1),
         \A m \in 1..Len(t) : t[m] = Sextet(Len(s) + m - 1)
  PROVE  \A m \in 1..Len(s \o t) : (s \o t)[m] = Sextet(m - 1)
<1>1. Len(s) \in Nat /\ Len(t) \in Nat /\ Len(s \o t) = Len(s) + Len(t)
  BY LenProperties, ConcatProperties
<1> SUFFICES ASSUME NEW m \in 1 .. Len(s) + Len(t)
             PROVE  (s \o t)[m] = Sextet(m - 1)
  BY <1>1
<1>2. CASE m <= Len(s)
  <2>1. (s \o t)[m] = s[m] /\ m \in 1..Len(s)
    BY <1>1, <1>2, ConcatProperties
  <2>. QED  BY <2>1
<1>3. CASE m > Len(s)
  <2>1. (s \o t)[m] = t[m - Len(s)] /\ m - Len(s) \in 1..Len(t)
    BY <1>1, <1>3, ConcatProperties
  <2>2. Len(s) + (m - Len(s)) - 1 = m - 1
    BY <1>1
  <2>. QED  BY <2>1, <2>2
<1>. QED  BY <1>1, <1>2, <1>3

LEMMA SextetType ==
  ASSUME in \in Seq(0..255), NEW m \in Nat
  PROVE  Sextet(m) \in 0..63
<1> DEFINE g == m \div 4
<1>1. g \in Nat /\ m = 4 * g + (m % 4) /\ m % 4 \in 0..3
  OBVIOUS
<1> HIDE DEF g
<1>2. 3 * g \in Nat /\ 3 * g + 1 \in Nat /\ 3 * g + 2 \in Nat
  BY <1>1
<1>3. Byte(3 * g) \in 0..255 /\ Byte(3 * g + 1) \in 0..255 /\ Byte(3 * g + 2) \in 0..255
  BY <1>2, ByteType
<1> DEFINE a == Byte(3 * g)  b == Byte(3 * g + 1)  c == Byte(3 * g + 2)
<1>4. /\ Sextet(4 * g) \in 0..63 /\ Sextet(4 * g + 1) \in 0..63
      /\ Sextet(4 * g + 2) \in 0..63 /\ Sextet(4 * g + 3) \in 0..63
  <2>1. /\ Sextet(4 * g) = a \div 4 /\ Sextet(4 * g + 1) = (a % 4) * 16 + b \div 16
        /\ Sextet(4 * g + 2) = (b % 16) * 4 + c \div 64 /\ Sextet(4 * g + 3) = c % 64
    BY <1>1, SextetsOfGroup
  <2>2. a \in 0..255 /\ b \in 0..255 /\ c \in 0..255
    BY <1>3
  <2> HIDE DEF a, b, c
  <2>3. /\ a \div 4 \in 0..63 /\ (a % 4) * 16 + b \div 16 \in 0..63
        /\ (b % 16) * 4 + c \div 64 \in 0..63 /\ c % 64 \in 0..63
    BY <2>2
  <2>. QED  BY <2>1, <2>3, Zenon
<1>5. m = 4 * g \/ m = 4 * g + 1 \/ m = 4 * g + 2 \/ m = 4 * g + 3
  BY <1>1
<1>. QED  BY <1>4, <1>5

\* A sequence of that length with those characters is the reference.
LEMMA IsReference ==
  ASSUME in \in Seq(0..255), NEW s \in Seq(0..NUL), Len(s) = R,
         \A m \in 1..Len(s) : s[m] = Sextet(m - 1)
  PROVE  s = Reference
<1>1. s \in [1..R -> 0..NUL]
  BY LenProperties
<1>. QED  BY <1>1 DEF Reference, R

LEMMA NextEncodeInv ==
  ASSUME IInv, EncodeInv, [Next]_vars
  PROVE  EncodeInv'
<1>1. CASE EncodeByte
  <2>1. /\ pc = "encode" /\ i < Len(in) /\ chars' = chars \o Turn
        /\ pc' = "encode" /\ in' = in
    BY <1>1 DEF EncodeByte
  <2>2. chars \in Seq(0..NUL) /\ Turn \in Seq(0..NUL) /\ j = Len(chars)
    BY <2>1, TurnLength DEF IInv
  <2>3. \A m \in 1..Len(chars \o Turn) : (chars \o Turn)[m] = Sextet(m - 1)
    BY <2>1, <2>2, TurnWrites, Extends DEF EncodeInv
  <2>4. \A m : Sextet(m)' = Sextet(m)
    BY <2>1 DEF Sextet, Bit
  <2>. QED  BY <2>1, <2>3, <2>4 DEF EncodeInv
<1>2. CASE MoveBack
  BY <1>2 DEF MoveBack, EncodeInv, Sextet, Bit
<1>3. CASE EncodeTail
  <2>1. /\ pc = "tail" /\ chars' = chars \o Rest \o <<NUL>>
        /\ pc' = "encoded" /\ in' = in
    BY <1>3 DEF EncodeTail
  <2>2. /\ chars \in Seq(0..NUL) /\ Rest \in Seq(0..NUL) /\ j = Len(chars)
        /\ in \in Seq(0..255)
    BY <2>1, RestLength DEF IInv
  <2>3. \A m \in 1..Len(chars \o Rest) : (chars \o Rest)[m] = Sextet(m - 1)
    BY <2>1, <2>2, RestWrites, Extends DEF EncodeInv
  <2>4. chars \o Rest \in Seq(0..NUL) /\ Len(chars \o Rest) = R
    BY <2>1, <2>2, RestWrites, ConcatProperties
  <2>5. chars \o Rest = Reference
    BY <2>2, <2>3, <2>4, IsReference
  <2>6. Reference' = Reference
    BY <2>1 DEF Reference, Sextet, Bit
  <2>. QED  BY <2>1, <2>5, <2>6 DEF EncodeInv
<1>4. CASE Decode \/ DecodeChar \/ DecodeReturn
  BY <1>4 DEF Decode, DecodeChar, DecodeReturn, EncodeInv
<1>5. CASE UNCHANGED vars
  <2>1. Reference' = Reference /\ \A m : Sextet(m)' = Sextet(m)
    BY <1>5 DEF vars, Reference, Sextet, Bit
  <2>. QED  BY <1>5, <2>1 DEF vars, EncodeInv
<1>. QED  BY <1>1, <1>2, <1>3, <1>4, <1>5 DEF Next

\* base64url_encode writes the encoding of the RFC, bit by bit, for inputs of every
\* length, and no padding.
THEOREM EncodesTheorem == Spec => []EncodesBits
<1>1. Init => EncodeInv
  BY DEF Init, EncodeInv
<1>2. IInv /\ EncodeInv /\ [Next]_vars => EncodeInv'
  BY NextEncodeInv
<1>3. EncodeInv => EncodesBits
  BY DEF EncodeInv, EncodesBits
<1>. QED  BY <1>1, <1>2, <1>3, Invariance, PTL DEF Spec

------------------------------------------------------------------------------
(* The decoder takes the reference back.                                   *)

\* How many characters stand for how many bytes.
LEMMA Lengths ==
  ASSUME in \in Seq(0..255)
  PROVE  /\ Len(in) \in Nat /\ R \in Nat /\ R % 4 # 1
         /\ (3 * R) \div 4 = Len(in)
<1>1. Len(in) \in Nat
  BY LenProperties
<1>2. \A n \in Nat : /\ (8 * n + 5) \div 6 \in Nat
                     /\ ((8 * n + 5) \div 6) % 4 # 1
                     /\ (3 * ((8 * n + 5) \div 6)) \div 4 = n
  <2> SUFFICES ASSUME NEW n \in Nat
               PROVE  /\ (8 * n + 5) \div 6 \in Nat
                      /\ ((8 * n + 5) \div 6) % 4 # 1
                      /\ (3 * ((8 * n + 5) \div 6)) \div 4 = n
    OBVIOUS
  <2> DEFINE g == n \div 3
  <2>1. g \in Nat /\ (n = 3 * g \/ n = 3 * g + 1 \/ n = 3 * g + 2)
    OBVIOUS
  <2> HIDE DEF g
  <2>2. CASE n = 3 * g
    <3>1. (8 * n + 5) \div 6 = 4 * g
      BY <2>1, <2>2
    <3>. QED  BY <2>1, <2>2, <3>1
  <2>3. CASE n = 3 * g + 1
    <3>1. (8 * n + 5) \div 6 = 4 * g + 2
      BY <2>1, <2>3
    <3>. QED  BY <2>1, <2>3, <3>1
  <2>4. CASE n = 3 * g + 2
    <3>1. (8 * n + 5) \div 6 = 4 * g + 3
      BY <2>1, <2>4
    <3>. QED  BY <2>1, <2>4, <3>1
  <2>. QED  BY <2>1, <2>2, <2>3, <2>4
<1>. QED  BY <1>1, <1>2 DEF R

LEMMA ReferenceType ==
  ASSUME in \in Seq(0..255)
  PROVE  /\ Reference \in Seq(0..PAD) /\ Len(Reference) = R
         /\ \A k \in 1..R : Reference[k] = Sextet(k - 1)
<1>1. R \in Nat /\ Reference = [m \in 1..R |-> Sextet(m - 1)]
  BY Lengths DEF R, Reference
<1>2. \A m \in 1..R : Sextet(m - 1) \in 0..PAD
  <2> SUFFICES ASSUME NEW m \in 1..R PROVE Sextet(m - 1) \in 0..PAD
    OBVIOUS
  <2>1. m - 1 \in Nat
    BY <1>1
  <2>2. Sextet(m - 1) \in 0..63
    BY <2>1, SextetType
  <2>. QED  BY <2>2 DEF PAD
<1> HIDE DEF R
<1>3. Reference \in [1..R -> 0..PAD]
  BY <1>1, <1>2
<1>. QED  BY <1>1, <1>3

\* What is handed to the decoder.
LEMMA TextToDecode ==
  ASSUME IInv, EncodeInv, pc = "encoded", NEW t \in {Unended, Unended \o Padding}
  PROVE  /\ Len(t) = R \/ (R <= Len(t) /\ Len(t) % 4 = 0 /\ Len(t) < R + 4)
         /\ \A k \in 1..R : t[k] = Sextet(k - 1)
         /\ \A k \in R+1 .. Len(t) : t[k] = PAD
<1>1. /\ in \in Seq(0..255) /\ R \in Nat /\ chars = Reference \o <<NUL>>
  BY Lengths DEF IInv, EncodeInv
<1>2. /\ Reference \in Seq(0..PAD) /\ Len(Reference) = R
      /\ \A k \in 1..R : Reference[k] = Sextet(k - 1)
  BY <1>1, ReferenceType
<1>3. Unended = Reference
  <2>1. <<NUL>> \in Seq(0..PAD) /\ Len(<<NUL>>) = 1
    BY DEF NUL, PAD
  <2>2. /\ Len(chars) = R + 1 /\ chars \in Seq(0..PAD)
        /\ \A k \in 1..R : chars[k] = Reference[k]
    BY <1>1, <1>2, <2>1, ConcatProperties
  <2>3. Unended = SubSeq(chars, 1, R)
    <3>1. Len(chars) - 1 = R
      BY <1>1, <2>2
    <3>. QED  BY <3>1 DEF Unended
  <2>4. \A k \in 1..R : chars[k] \in 0..PAD
    BY <1>2, <2>2, Elements
  <2>5. /\ 1 \in Int /\ R \in Int /\ (IF 1 <= R THEN R - 1 + 1 ELSE 0) = R
        /\ R - 1 + 1 = R /\ \A k \in 1..R : 1 + k - 1 = k
    BY <1>1
  <2>6. /\ Unended \in Seq(0..PAD) /\ Len(Unended) = R
        /\ \A k \in 1..R : Unended[k] = chars[1 + k - 1]
    BY <2>3, <2>4, <2>5, SubSeqProperties
  <2>. QED  BY <1>2, <2>2, <2>5, <2>6, SeqEqual
<1> DEFINE p == (4 - (R % 4)) % 4
<1>4. p \in 0..3 /\ (R + p) % 4 = 0
  BY <1>1
<1>5. Padding = [k \in 1..p |-> PAD]
  BY <1>2, <1>3 DEF Padding
<1> HIDE DEF p
<1>6. Padding \in Seq(0..PAD) /\ Len(Padding) = p /\ \A k \in 1..p : Padding[k] = PAD
  BY <1>4, <1>5 DEF PAD
<1>7. CASE t = Unended
  BY <1>1, <1>2, <1>3, <1>7
<1>8. CASE t = Unended \o Padding
  <2>1. /\ Len(t) = R + p
        /\ \A k \in 1 .. R + p : t[k] = IF k <= R THEN Reference[k] ELSE Padding[k - R]
    BY <1>2, <1>3, <1>6, <1>8, ConcatProperties
  <2>2. \A k \in 1..R : t[k] = Sextet(k - 1)
    BY <1>1, <1>2, <1>4, <2>1
  <2>3. ASSUME NEW k \in R+1 .. Len(t) PROVE t[k] = PAD
    <3>1. k \in 1 .. R + p /\ ~(k <= R) /\ k - R \in 1..p
      BY <1>1, <1>4, <2>1
    <3>. QED  BY <1>6, <2>1, <3>1
  <2>. QED  BY <1>1, <1>4, <2>1, <2>2, <2>3
<1>. QED  BY <1>7, <1>8

------------------------------------------------------------------------------
\* A character that is not a padding is one of the reference.
LEMMA CharIsSextet ==
  ASSUME in \in Seq(0..255), TextInv, i \in 0..R, i < Len(text), text[i+1] # PAD, Len(text) \in Nat
  PROVE  i < R /\ text[i+1] = Sextet(i)
<1>1. R \in Nat
  BY Lengths
<1>2. i # R
  BY <1>1 DEF TextInv
<1>3. i < R /\ i + 1 \in 1..R /\ (i + 1) - 1 = i
  BY <1>1, <1>2
<1>4. text[i+1] = Sextet((i + 1) - 1)
  BY <1>3 DEF TextInv
<1>. QED  BY <1>3, <1>4

\* Only behind the reference is a padding.
LEMMA PaddingBehind ==
  ASSUME in \in Seq(0..255), TextInv, Len(text) \in Nat, NEW k \in 1..Len(text)
  PROVE  text[k] = PAD <=> k > R
<1>1. R \in Nat
  BY Lengths
<1>2. CASE k > R
  BY <1>1, <1>2 DEF TextInv
<1>3. CASE k <= R
  <2>1. k \in 1..R /\ k - 1 \in Nat
    BY <1>1, <1>3
  <2>2. text[k] = Sextet(k - 1)
    <3>1. \A m \in 1..R : text[m] = Sextet(m - 1)
      BY DEF TextInv
    <3>. QED  BY <2>1, <3>1, Zenon
  <2>3. Sextet(k - 1) \in 0..63
    BY <2>1, SextetType
  <2>4. text[k] # PAD
    <3>1. \A v \in 0..63 : v # PAD
      BY DEF PAD
    <3>. QED  BY <2>2, <2>3, <3>1, Zenon
  <2>. QED  BY <1>1, <1>3, <2>4
<1>. QED  BY <1>1, <1>2, <1>3

\* The test for a padding is true but for the last character before one.
LEMMA OpensUnlessLast ==
  ASSUME in \in Seq(0..255), TextInv, Len(text) \in Nat, i \in Nat, i < R,
         NEW k \in {2, 3}, i % 4 = 4 - k
  PROVE  OpensByte(k) <=> ~(i + 1 = R /\ R < Len(text))
<1>1. R \in Nat /\ R <= Len(text)
  BY Lengths DEF TextInv
<1> DEFINE n == Len(text)
<1>2. CASE i + 1 = R /\ R < n
  <2>1. n % 4 = 0 /\ n < i + 5 /\ n > i + 1
    BY <1>1, <1>2 DEF TextInv
  <2>2. \A a, m \in Nat : /\ a % 4 = 1 /\ m % 4 = 0 /\ m < a + 5 /\ m > a + 1 => m = a + 3
                          /\ a % 4 = 2 /\ m % 4 = 0 /\ m < a + 5 /\ m > a + 1 => m = a + 2
    OBVIOUS
  <2>3. n = i + k
    <3>1. CASE k = 2
      <4>1. i % 4 = 2
        BY <3>1
      <4>2. n = i + 2
        BY <2>1, <2>2, <4>1, Zenon
      <4>. QED  BY <3>1, <4>2
    <3>2. CASE k = 3
      <4>1. i % 4 = 1
        BY <3>2
      <4>2. n = i + 3
        BY <2>1, <2>2, <4>1, Zenon
      <4>. QED  BY <3>2, <4>2
    <3>. QED  BY <3>1, <3>2
  <2>4. n - k + 2 \in 1..n /\ n - k + 2 > R /\ ~(n < k) /\ ~(i < n - k)
    BY <1>1, <1>2, <2>3
  <2>5. text[n - k + 2] = PAD
    BY <2>4, PaddingBehind
  <2>. QED  BY <1>2, <2>4, <2>5 DEF OpensByte, Before
<1>3. CASE ~OpensByte(k)
  <2>1. ~(n < k) /\ ~(i < n - k) /\ text[n - k + 2] = PAD
    BY <1>3 DEF OpensByte, Before
  <2>2. n - k + 2 \in 1..n
    BY <2>1
  <2>3. n - k + 2 > R
    BY <2>1, <2>2, PaddingBehind
  <2>4. i + 1 = R /\ R < n
    BY <1>1, <2>1, <2>3
  <2>. QED  BY <1>3, <2>4
<1>. QED  BY <1>2, <1>3

------------------------------------------------------------------------------
(* A turn on a character.                                                  *)

LEMMA SmallByte == \A a \in 0..255 : a % 256 = a
  BY SMT

\* The rest of the byte under way is added, and then, perhaps, a byte begun.
LEMMA Finish ==
  ASSUME out \in Seq(0..255), j \in Nat, Len(out) = j + 1,
         NEW b \in Nat, out[j+1] + b = Byte(j), Byte(j) \in 0..255,
         \A k \in 1..j : out[k] = Byte(k - 1)
  PROVE  /\ Add(b) \in Seq(0..255) /\ Len(Add(b)) = j + 1
         /\ \A k \in 1 .. j+1 : Add(b)[k] = Byte(k - 1)
<1>1. Add(b) = [out EXCEPT ![j+1] = Byte(j)]
  <2>1. (out[j+1] + b) % 256 = Byte(j)
    BY SmallByte, Zenon
  <2>2. j < Len(out)
    OBVIOUS
  <2>. QED  BY <2>1, <2>2 DEF Add, Write
<1>2. j + 1 \in 1..Len(out)
  OBVIOUS
<1>3. /\ Add(b) \in Seq(0..255) /\ Len(Add(b)) = j + 1
      /\ \A k \in 1 .. j+1 : Add(b)[k] = IF k = j + 1 THEN Byte(j) ELSE out[k]
  BY <1>1, <1>2, ExceptSeq
<1>4. ASSUME NEW k \in 1 .. j+1 PROVE Add(b)[k] = Byte(k - 1)
  <2>1. CASE k = j + 1
    <3>1. k - 1 = j
      BY <2>1
    <3>. QED  BY <1>3, <2>1, <3>1
  <2>2. CASE k # j + 1
    <3>1. k \in 1..j
      BY <2>2
    <3>. QED  BY <1>3, <2>2, <3>1
  <2>. QED  BY <2>1, <2>2
<1>. QED  BY <1>3, <1>4

LEMMA Begin ==
  ASSUME NEW o \in Seq(0..255), NEW n \in Nat, Len(o) = n, NEW c \in 0..255,
         \A k \in 1..n : o[k] = Byte(k - 1)
  PROVE  /\ Len(Write(o, n, c)) = n + 1 /\ Write(o, n, c)[n+1] = c
         /\ \A k \in 1..n : Write(o, n, c)[k] = Byte(k - 1)
<1>1. Write(o, n, c) = Append(o, c)
  BY DEF Write
<1>2. /\ Len(Append(o, c)) = n + 1 /\ Append(o, c)[n+1] = c
      /\ \A k \in 1..n : Append(o, c)[k] = o[k]
  BY AppendProperties
<1>. QED  BY <1>1, <1>2

\* Case 1 and 2 of the loop: b ends byte j, and c begins the next one unless the
\* padding comes next.
LEMMA AddOpenContent ==
  ASSUME in \in Seq(0..255), TextInv, Len(text) \in Nat, i \in Nat, i < R,
         NEW k \in {2, 3}, i % 4 = 4 - k,
         out \in Seq(0..255), j \in Nat, Len(out) = j + 1,
         \A m \in 1..j : out[m] = Byte(m - 1),
         NEW b \in Nat, NEW c \in 0..255, out[j+1] + b = Byte(j), AddOpen(b, k, c)
  PROVE  /\ j' = j + 1
         /\ Len(out') = IF i + 1 = R /\ R < Len(text) THEN j' ELSE j' + 1
         /\ \A m \in 1..j' : out'[m] = Byte(m - 1)
         /\ Len(out') = j' + 1 => out'[j'+1] = c
<1>1. j' = j + 1 /\ out' = IF OpensByte(k) THEN Write(Add(b), j + 1, c) ELSE Add(b)
  BY DEF AddOpen
<1>2. /\ Add(b) \in Seq(0..255) /\ Len(Add(b)) = j + 1 /\ j + 1 \in Nat
      /\ \A m \in 1 .. j+1 : Add(b)[m] = Byte(m - 1)
  <2>1. Byte(j) \in 0..255
    BY ByteType
  <2>. QED  BY <2>1, Finish
<1>3. OpensByte(k) <=> ~(i + 1 = R /\ R < Len(text))
  BY OpensUnlessLast
<1>4. CASE OpensByte(k)
  <2>1. /\ Len(out') = j + 2 /\ out'[j+2] = c
        /\ \A m \in 1 .. j+1 : out'[m] = Byte(m - 1)
    <3>1. /\ Len(Write(Add(b), j + 1, c)) = (j + 1) + 1 /\ Write(Add(b), j + 1, c)[(j+1)+1] = c
          /\ \A m \in 1 .. j+1 : Write(Add(b), j + 1, c)[m] = Byte(m - 1)
      BY <1>2, Begin
    <3>2. (j + 1) + 1 = j + 2
      OBVIOUS
    <3>. QED  BY <1>1, <1>4, <3>1, <3>2
  <2>2. j' + 1 = j + 2
    BY <1>1
  <2>. QED  BY <1>1, <1>3, <1>4, <2>1, <2>2
<1>5. CASE ~OpensByte(k)
  <2>1. Len(out') = j + 1 /\ j + 1 # j' + 1 /\ \A m \in 1 .. j+1 : out'[m] = Byte(m - 1)
    BY <1>1, <1>2, <1>5
  <2>. QED  BY <1>1, <1>3, <1>5, <2>1
<1>. QED  BY <1>4, <1>5

\* Where the indices stand.
LEMMA IndexOfByte ==
  ASSUME NEW n \in Nat
  PROVE  /\ n \div 4 \in Nat /\ (3 * n) \div 4 \in Nat
         /\ n % 4 = 0 => n = 4 * (n \div 4) /\ (3 * n) \div 4 = 3 * (n \div 4)
         /\ n % 4 = 1 => n = 4 * (n \div 4) + 1 /\ (3 * n) \div 4 = 3 * (n \div 4)
         /\ n % 4 = 2 => n = 4 * (n \div 4) + 2 /\ (3 * n) \div 4 = 3 * (n \div 4) + 1
         /\ n % 4 = 3 => n = 4 * (n \div 4) + 3 /\ (3 * n) \div 4 = 3 * (n \div 4) + 2
         /\ n % 4 = 0 => (n + 1) % 4 = 1 /\ (3 * (n + 1)) \div 4 = (3 * n) \div 4
         /\ n % 4 # 0 => (n + 1) % 4 = (IF n % 4 = 3 THEN 0 ELSE (n % 4) + 1)
                         /\ (3 * (n + 1)) \div 4 = (3 * n) \div 4 + 1
<1> DEFINE g == n \div 4
<1>1. g \in Nat /\ (n = 4 * g \/ n = 4 * g + 1 \/ n = 4 * g + 2 \/ n = 4 * g + 3)
  OBVIOUS
<1> SUFFICES g \in Nat /\ (n = 4 * g \/ n = 4 * g + 1 \/ n = 4 * g + 2 \/ n = 4 * g + 3)
    => /\ g \in Nat /\ (3 * n) \div 4 \in Nat
       /\ n % 4 = 0 => n = 4 * g /\ (3 * n) \div 4 = 3 * g
       /\ n % 4 = 1 => n = 4 * g + 1 /\ (3 * n) \div 4 = 3 * g
       /\ n % 4 = 2 => n = 4 * g + 2 /\ (3 * n) \div 4 = 3 * g + 1
       /\ n % 4 = 3 => n = 4 * g + 3 /\ (3 * n) \div 4 = 3 * g + 2
       /\ n % 4 = 0 => (n + 1) % 4 = 1 /\ (3 * (n + 1)) \div 4 = (3 * n) \div 4
       /\ n % 4 # 0 => (n + 1) % 4 = (IF n % 4 = 3 THEN 0 ELSE (n % 4) + 1)
                       /\ (3 * (n + 1)) \div 4 = (3 * n) \div 4 + 1
  BY <1>1
<1>. QED  OBVIOUS

\* How the value of a character is cut into what ends a byte and what begins one.
LEMMA Cuts ==
  ASSUME NEW a \in 0..255, NEW b \in 0..255
  PROVE  /\ (a \div 4) * 4 + (((a % 4) * 16 + b \div 16) \div 16) = a
         /\ (((a % 4) * 16 + b \div 16) % 16) * 16 = (b \div 16) * 16
         /\ (a \div 16) * 16 + (((a % 16) * 4 + b \div 64) \div 4) = a
         /\ (((a % 16) * 4 + b \div 64) % 4) * 64 = (b \div 64) * 64
         /\ (a \div 64) * 64 + (a % 64) = a
  BY SMT

LEMMA CharContent ==
  ASSUME IInv, DecodeInv, pc = "decode", TextInv, BytesInv, DecodeChar
  PROVE  TextInv' /\ BytesInv'
<1>1. /\ in \in Seq(0..255) /\ text \in Seq(0..PAD) /\ Len(text) \in Nat
      /\ out \in Seq(0..255) /\ i \in Nat /\ j \in Nat /\ R \in Nat /\ R % 4 # 1
  BY Lengths, LenProperties DEF IInv, DecodeInv
<1>2. /\ i < Len(text) /\ text[i+1] # PAD /\ De(text[i+1]) # -1
      /\ i' = i + 1 /\ UNCHANGED <<pc, in, chars, text, result>>
  BY DEF DecodeChar
<1>3. i < R /\ text[i+1] = Sextet(i)
  BY <1>1, <1>2, CharIsSextet DEF BytesInv
<1> DEFINE c == De(text[i+1])
<1>4. c = Sextet(i) /\ c \in 0..63
  <2>1. Sextet(i) \in 0..63
    BY <1>1, SextetType
  <2>2. c = text[i+1]
    BY <1>2 DEF De
  <2>. QED  BY <1>3, <2>1, <2>2
<1> HIDE DEF c
<1>5. /\ j = (3 * i) \div 4
      /\ Len(out) = IF i % 4 = 0 THEN j ELSE j + 1
      /\ \A k \in 1..j : out[k] = Byte(k - 1)
      /\ Len(out) = j + 1 => out[j+1] = Begun(i, j)
  BY <1>1, <1>3 DEF BytesInv
<1> DEFINE g == i \div 4
<1>6. g \in Nat /\ 3 * g \in Nat /\ 3 * g + 1 \in Nat /\ 3 * g + 2 \in Nat
  BY <1>1
<1>7. Byte(3 * g) \in 0..255 /\ Byte(3 * g + 1) \in 0..255 /\ Byte(3 * g + 2) \in 0..255
  BY <1>1, <1>6, ByteType
<1> DEFINE Extended ==
      /\ j' = (3 * (i + 1)) \div 4
      /\ Len(out') = IF (i + 1) % 4 = 0 \/ (i + 1 = R /\ R < Len(text)) THEN j' ELSE j' + 1
      /\ \A k \in 1..j' : out'[k] = Byte(k - 1)
      /\ Len(out') = j' + 1 => out'[j'+1] = Begun(i + 1, j')
<1>8. ASSUME i % 4 = 0 PROVE Extended
  <2>1. out' = Write(out, j, c * 4) /\ j' = j /\ Len(out) = j
    BY <1>5, <1>8 DEF DecodeChar, c
  <2>2. i = 4 * g /\ j = 3 * g /\ (i + 1) % 4 = 1 /\ (3 * (i + 1)) \div 4 = j
    BY <1>1, <1>5, <1>8, IndexOfByte
  <2> HIDE DEF g
  <2>3. c = Byte(j) \div 4
    BY <1>1, <1>4, <1>6, <2>2, SextetsOfGroup
  <2>4. c * 4 \in 0..255
    BY <1>4
  <2>5. Len(out') = j + 1 /\ out'[j+1] = c * 4 /\ \A k \in 1..j : out'[k] = Byte(k - 1)
    BY <1>1, <1>5, <2>1, <2>4, Begin
  <2>6. ~((i + 1) % 4 = 0) /\ ~(i + 1 = R)
    <3>1. (i + 1) % 4 # 0
      BY <2>2
    <3>. QED  BY <1>1, <2>2, <3>1, Zenon
  <2>7. Begun(i + 1, j) = c * 4
    BY <2>2, <2>3 DEF Begun
  <2>. QED  BY <2>1, <2>2, <2>5, <2>6, <2>7
<1>9. ASSUME i % 4 = 1 PROVE Extended
  <2>1. AddOpen(c \div 16, 3, (c % 16) * 16) /\ Len(out) = j + 1
    BY <1>5, <1>9 DEF DecodeChar, c
  <2>2. i = 4 * g + 1 /\ j = 3 * g /\ (i + 1) % 4 = 2 /\ (3 * (i + 1)) \div 4 = j + 1
    BY <1>1, <1>5, <1>9, IndexOfByte
  <2> HIDE DEF g
  <2>3. c = (Byte(3 * g) % 4) * 16 + Byte(3 * g + 1) \div 16
    BY <1>1, <1>4, <1>6, <2>2, SextetsOfGroup
  <2>4. out[j+1] = (Byte(3 * g) \div 4) * 4
    BY <1>5, <1>9, <2>1, <2>2 DEF Begun
  <2>5. /\ out[j+1] + (c \div 16) = Byte(j)
        /\ (c % 16) * 16 = (Byte(3 * g + 1) \div 16) * 16
    <3> DEFINE a == Byte(3 * g)  b == Byte(3 * g + 1)
    <3>1. /\ (a \div 4) * 4 + (((a % 4) * 16 + b \div 16) \div 16) = a
          /\ (((a % 4) * 16 + b \div 16) % 16) * 16 = (b \div 16) * 16
      BY <1>7, Cuts
    <3>. QED  BY <2>2, <2>3, <2>4, <3>1
  <2>6. c \div 16 \in Nat /\ (c % 16) * 16 \in 0..255 /\ 3 \in {2, 3} /\ i % 4 = 4 - 3
    BY <1>4, <1>9
  <2>7. /\ j' = j + 1
        /\ Len(out') = IF i + 1 = R /\ R < Len(text) THEN j' ELSE j' + 1
        /\ \A k \in 1..j' : out'[k] = Byte(k - 1)
        /\ Len(out') = j' + 1 => out'[j'+1] = (c % 16) * 16
    BY <1>1, <1>3, <1>5, <2>1, <2>5, <2>6, AddOpenContent
  <2>8. j' = 3 * g + 1 /\ Begun(i + 1, j') = (c % 16) * 16
    BY <2>2, <2>5, <2>7 DEF Begun
  <2>9. j' = (3 * (i + 1)) \div 4 /\ (i + 1) % 4 # 0
    <3>1. (i + 1) % 4 = 2 /\ (3 * (i + 1)) \div 4 = j + 1 /\ j' = j + 1
      BY <2>2, <2>7, Zenon
    <3>. QED  BY <3>1
  <2>10. Len(out') = IF (i + 1) % 4 = 0 \/ (i + 1 = R /\ R < Len(text)) THEN j' ELSE j' + 1
    BY <2>7, <2>9, Zenon
  <2>11. Len(out') = j' + 1 => out'[j'+1] = Begun(i + 1, j')
    BY <2>7, <2>8, Zenon
  <2>. QED  BY <2>7, <2>9, <2>10, <2>11, Zenon
<1>10. ASSUME i % 4 = 2 PROVE Extended
  <2>1. AddOpen(c \div 4, 2, (c % 4) * 64) /\ Len(out) = j + 1
    BY <1>5, <1>10 DEF DecodeChar, c
  <2>2. i = 4 * g + 2 /\ j = 3 * g + 1 /\ (i + 1) % 4 = 3 /\ (3 * (i + 1)) \div 4 = j + 1
    BY <1>1, <1>5, <1>10, IndexOfByte
  <2> HIDE DEF g
  <2>3. c = (Byte(3 * g + 1) % 16) * 4 + Byte(3 * g + 2) \div 64
    BY <1>1, <1>4, <1>6, <2>2, SextetsOfGroup
  <2>4. out[j+1] = (Byte(3 * g + 1) \div 16) * 16
    BY <1>5, <1>10, <2>1, <2>2 DEF Begun
  <2>5. /\ out[j+1] + (c \div 4) = Byte(j)
        /\ (c % 4) * 64 = (Byte(3 * g + 2) \div 64) * 64
    <3> DEFINE a == Byte(3 * g + 1)  b == Byte(3 * g + 2)
    <3>1. /\ (a \div 16) * 16 + (((a % 16) * 4 + b \div 64) \div 4) = a
          /\ (((a % 16) * 4 + b \div 64) % 4) * 64 = (b \div 64) * 64
      BY <1>7, Cuts
    <3>. QED  BY <2>2, <2>3, <2>4, <3>1
  <2>6. c \div 4 \in Nat /\ (c % 4) * 64 \in 0..255 /\ 2 \in {2, 3} /\ i % 4 = 4 - 2
    BY <1>4, <1>10
  <2>7. /\ j' = j + 1
        /\ Len(out') = IF i + 1 = R /\ R < Len(text) THEN j' ELSE j' + 1
        /\ \A k \in 1..j' : out'[k] = Byte(k - 1)
        /\ Len(out') = j' + 1 => out'[j'+1] = (c % 4) * 64
    BY <1>1, <1>3, <1>5, <2>1, <2>5, <2>6, AddOpenContent
  <2>8. j' = 3 * g + 2 /\ Begun(i + 1, j') = (c % 4) * 64
    BY <1>6, <2>2, <2>5, <2>7 DEF Begun
  <2>9. j' = (3 * (i + 1)) \div 4 /\ (i + 1) % 4 # 0
    <3>1. (i + 1) % 4 = 3 /\ (3 * (i + 1)) \div 4 = j + 1 /\ j' = j + 1
      BY <2>2, <2>7, Zenon
    <3>. QED  BY <3>1
  <2>10. Len(out') = IF (i + 1) % 4 = 0 \/ (i + 1 = R /\ R < Len(text)) THEN j' ELSE j' + 1
    BY <2>7, <2>9, Zenon
  <2>11. Len(out') = j' + 1 => out'[j'+1] = Begun(i + 1, j')
    BY <2>7, <2>8, Zenon
  <2>. QED  BY <2>7, <2>9, <2>10, <2>11, Zenon
<1>11. ASSUME i % 4 = 3 PROVE Extended
  <2>1. out' = Add(c) /\ j' = j + 1 /\ Len(out) = j + 1
    BY <1>5, <1>11 DEF DecodeChar, c
  <2>2. i = 4 * g + 3 /\ j = 3 * g + 2 /\ (i + 1) % 4 = 0 /\ (3 * (i + 1)) \div 4 = j + 1
    BY <1>1, <1>5, <1>11, IndexOfByte
  <2> HIDE DEF g
  <2>3. c = Byte(j) % 64
    BY <1>1, <1>4, <1>6, <2>2, SextetsOfGroup
  <2>4. out[j+1] = (Byte(j) \div 64) * 64
    BY <1>5, <1>11, <2>1 DEF Begun
  <2>5. out[j+1] + c = Byte(j) /\ Byte(j) \in 0..255 /\ c \in Nat
    BY <1>4, <1>7, <2>2, <2>3, <2>4, Cuts
  <2>6. Len(out') = j + 1 /\ \A k \in 1 .. j+1 : out'[k] = Byte(k - 1)
    BY <1>1, <1>5, <2>1, <2>5, Finish
  <2>7. j + 1 # (j + 1) + 1
    BY <1>1
  <2>. QED  BY <2>1, <2>2, <2>6, <2>7
<1>12. Extended
  <2>1. i % 4 \in 0..3
    BY <1>1
  <2> HIDE DEF Extended
  <2>2. i % 4 = 0 \/ i % 4 = 1 \/ i % 4 = 2 \/ i % 4 = 3
    BY <2>1
  <2>. QED  BY <1>8, <1>9, <1>10, <1>11, <2>2
<1>13. /\ R' = R /\ Len(text') = Len(text) /\ i + 1 \in 0..R
       /\ \A m : Byte(m)' = Byte(m) /\ Sextet(m)' = Sextet(m)
  <2>1. i + 1 \in 0..R
    BY <1>1, <1>3
  <2>2. R' = R /\ \A m : Byte(m)' = Byte(m) /\ Sextet(m)' = Sextet(m)
    BY <1>2 DEF R, Byte, Sextet, Bit
  <2>. QED  BY <1>2, <2>1, <2>2
<1>14. BytesInv'
  <2>1. i' \in 0..R' /\ j' = (3 * i') \div 4
    BY <1>2, <1>12, <1>13
  <2>2. Len(out') = IF i' % 4 = 0 \/ (i' = R' /\ R' < Len(text')) THEN j' ELSE j' + 1
    BY <1>2, <1>12, <1>13
  <2>3. \A k \in 1..j' : out'[k] = Byte(k - 1)'
    BY <1>12, <1>13
  <2>4. Len(out') = j' + 1 => out'[j'+1] = Begun(i, j)'
    BY <1>2, <1>12, <1>13 DEF Begun
  <2>. QED  BY <2>1, <2>2, <2>3, <2>4 DEF BytesInv
<1>. QED  BY <1>2, <1>13, <1>14 DEF TextInv

------------------------------------------------------------------------------
\* Behind the last character all bytes are there.
LEMMA ReturnContent ==
  ASSUME IInv, DecodeInv, pc = "decode", TextInv, BytesInv,
         (i < Len(text) /\ text[i+1] = PAD) \/ i = Len(text)
  PROVE  /\ SubSeq(out, 1, Len(in)) = in
         /\ Len(out) = IF Len(text) % 4 = 0 THEN Len(in) ELSE Len(in) + 1
         /\ Len(out) > DecodeOutSize <=> Len(text) % 4 # 0
<1> DEFINE N == Len(in)
<1>1. /\ in \in Seq(0..255) /\ N \in Nat /\ R \in Nat /\ (3 * R) \div 4 = N
      /\ Len(text) \in Nat /\ out \in Seq(0..255) /\ i \in 0..R
  BY Lengths, LenProperties DEF IInv, DecodeInv, BytesInv
<1>2. i = R
  <2>1. R <= Len(text)
    BY <1>1 DEF TextInv
  <2>2. CASE i < Len(text) /\ text[i+1] = PAD
    <3>1. i + 1 \in 1..Len(text)
      BY <1>1, <2>2
    <3>2. i + 1 > R
      BY <1>1, <2>2, <3>1, PaddingBehind
    <3>. QED  BY <1>1, <3>2
  <2>. QED  BY <1>1, <2>1, <2>2
<1>3. /\ Len(out) = IF R % 4 = 0 \/ R < Len(text) THEN N ELSE N + 1
      /\ \A k \in 1..N : out[k] = Byte(k - 1)
  BY <1>1, <1>2 DEF BytesInv
<1>4. /\ Len(out) = IF Len(text) % 4 = 0 THEN N ELSE N + 1
      /\ R <= Len(text) /\ (Len(text) % 4 # 0 => Len(text) = R)
  <2>1. R <= Len(text) /\ (Len(text) = R \/ Len(text) % 4 = 0)
    BY <1>1 DEF TextInv
  <2>2. CASE Len(text) = R
    BY <1>1, <1>3, <2>1, <2>2
  <2>3. CASE R < Len(text)
    BY <1>3, <2>1, <2>3
  <2>4. Len(text) = R \/ R < Len(text)
    BY <1>1, <2>1
  <2>. QED  BY <2>1, <2>2, <2>3, <2>4
<1>5. SubSeq(out, 1, N) = in
  <2>1. Len(out) >= N /\ \A k \in 1..N : out[k] \in 0..255
    <3>1. Len(out) >= N /\ \A k \in 1..N : k \in 1..Len(out)
      BY <1>1, <1>3
    <3>. QED  BY <1>1, <3>1, Elements
  <2>2. /\ 1 \in Int /\ N \in Int /\ (IF 1 <= N THEN N - 1 + 1 ELSE 0) = N
        /\ N - 1 + 1 = N /\ \A k \in 1..N : 1 + k - 1 = k
    BY <1>1
  <2>3. /\ SubSeq(out, 1, N) \in Seq(0..255) /\ Len(SubSeq(out, 1, N)) = N
        /\ \A k \in 1..N : SubSeq(out, 1, N)[k] = out[1 + k - 1]
    BY <2>1, <2>2, SubSeqProperties
  <2>4. ASSUME NEW k \in 1..N PROVE out[k] = in[k]
    <3>1. k - 1 \in Nat /\ k - 1 < N /\ (k - 1) + 1 = k
      BY <1>1
    <3>2. in[(k - 1) + 1] = Byte(k - 1)
      BY <1>1, <3>1, ByteIn
    <3>. QED  BY <1>3, <3>1, <3>2
  <2>. QED  BY <1>1, <2>2, <2>3, <2>4, SeqEqual
<1>6. Len(out) > DecodeOutSize <=> Len(text) % 4 # 0
  <2>1. \A r, t \in Nat :
          /\ r <= t /\ t % 4 = 0 => (3 * r) \div 4 <= (t \div 4) * 3
          /\ r % 4 # 0 => (3 * r) \div 4 + 1 > (r \div 4) * 3
    OBVIOUS
  <2>2. CASE Len(text) % 4 = 0
    <3>1. N <= (Len(text) \div 4) * 3 /\ Len(out) = N
      BY <1>1, <1>4, <2>1, <2>2
    <3>. QED  BY <1>1, <2>2, <3>1 DEF DecodeOutSize
  <2>3. CASE Len(text) % 4 # 0
    <3>1. N + 1 > (Len(text) \div 4) * 3 /\ Len(out) = N + 1
      BY <1>1, <1>4, <2>1, <2>3
    <3>. QED  BY <2>3, <3>1 DEF DecodeOutSize
  <2>. QED  BY <2>2, <2>3
<1>. QED  BY <1>4, <1>5, <1>6

LEMMA NextContentInv ==
  ASSUME IInv, DecodeInv, ContentInv, [Next]_vars
  PROVE  ContentInv'
<1>1. EncodeInv'
  BY NextEncodeInv DEF ContentInv
<1>2. CASE EncodeByte \/ MoveBack \/ EncodeTail
  BY <1>1, <1>2 DEF ContentInv, EncodeByte, MoveBack, EncodeTail
<1>3. CASE Decode
  <2>1. /\ pc = "encoded" /\ pc' = "decode" /\ text' \in {Unended, Unended \o Padding}
        /\ i' = 0 /\ j' = 0 /\ UNCHANGED <<in, chars, out, result>>
    BY <1>3 DEF Decode
  <2>2. out' = <<>> /\ Len(out') = 0 /\ R \in Nat
    BY <2>1, Lengths DEF DecodeInv, IInv
  <2>3. R' = R /\ \A m : Sextet(m)' = Sextet(m)
    BY <2>1 DEF R, Sextet, Bit
  <2>4. TextInv'
    <3>1. /\ Len(text') = R \/ (R <= Len(text') /\ Len(text') % 4 = 0 /\ Len(text') < R + 4)
          /\ \A k \in 1..R : text'[k] = Sextet(k - 1)
          /\ \A k \in R+1 .. Len(text') : text'[k] = PAD
      BY <2>1, TextToDecode DEF ContentInv
    <3>. QED  BY <2>3, <3>1 DEF TextInv
  <2>5. BytesInv'
    <3>1. 0 \in 0..R /\ (3 * 0) \div 4 = 0 /\ 0 % 4 = 0 /\ 0 # 0 + 1 /\ \A k \in 1..0 : FALSE
      BY <2>2
    <3>. QED  BY <2>1, <2>2, <2>3, <3>1 DEF BytesInv
  <2>. QED  BY <1>1, <2>1, <2>4, <2>5 DEF ContentInv
<1>4. CASE DecodeChar
  <2>1. pc = "decode" /\ pc' = "decode" /\ result' = result
    BY <1>4 DEF DecodeChar
  <2>2. TextInv' /\ BytesInv'
    BY <1>4, <2>1, CharContent DEF ContentInv
  <2>. QED  BY <1>1, <2>1, <2>2 DEF ContentInv
<1>5. CASE DecodeReturn
  <2>1. /\ pc = "decode" /\ pc' = "decoded" /\ UNCHANGED <<in, text, out>>
        /\ result' = "BASE64_OK" => (i < Len(text) /\ text[i+1] = PAD) \/ i = Len(text)
    BY <1>5 DEF DecodeReturn
  <2>2. DecodesBytes'
    BY <2>1, ReturnContent DEF ContentInv, DecodesBytes, DecodeOutSize
  <2>. QED  BY <1>1, <2>1, <2>2 DEF ContentInv
<1>6. CASE UNCHANGED vars
  <2>1. /\ R' = R /\ \A m : Sextet(m)' = Sextet(m) /\ Byte(m)' = Byte(m)
        /\ DecodesBytes' = DecodesBytes
    BY <1>6 DEF vars, R, Sextet, Bit, Byte, DecodesBytes, DecodeOutSize
  <2>2. TextInv => TextInv'
    BY <1>6, <2>1 DEF vars, TextInv
  <2>3. BytesInv => BytesInv'
    BY <1>6, <2>1 DEF vars, BytesInv, Begun
  <2>. QED  BY <1>1, <1>6, <2>1, <2>2, <2>3 DEF vars, ContentInv
<1>. QED  BY <1>2, <1>3, <1>4, <1>5, <1>6 DEF Next

\* What both loops have computed at every turn.
THEOREM ContentInvariance == Spec => [](IInv /\ DecodeInv /\ ContentInv)
<1>1. Init => ContentInv
  BY DEF Init, ContentInv, EncodeInv
<1>2. IInv /\ DecodeInv /\ ContentInv /\ [Next]_vars => ContentInv'
  BY NextContentInv
<1>. QED  BY <1>1, <1>2, Invariance, InitDecodeInv, NextDecodeInv, PTL DEF Spec

\* base64url_decode takes what base64url_encode wrote, padded or not, back to the bytes
\* that were encoded, for inputs of every length, unless it refuses a character.
THEOREM DecodesTheorem == Spec => []DecodesBytes
<1>1. ContentInv => DecodesBytes
  BY DEF ContentInv, DecodesBytes
<1>. QED  BY <1>1, ContentInvariance, PTL

\* Only a character that the two tables disagree on is refused: the finding of the run
\* base64_decode is the only way in which a round trip fails.
RefusedIsUnknown == result = "BASE64_INVALID" => \E m \in 0 .. R-1 : Sextet(m) \in {62, 63}

THEOREM RefusesTheorem == Spec => []RefusedIsUnknown
<1>1. Init => RefusedIsUnknown
  BY DEF Init, RefusedIsUnknown
<1>2. IInv /\ DecodeInv /\ ContentInv /\ RefusedIsUnknown /\ [Next]_vars => RefusedIsUnknown'
  <2> SUFFICES ASSUME IInv, DecodeInv, ContentInv, RefusedIsUnknown, [Next]_vars,
                      result' = "BASE64_INVALID"
               PROVE  \E m \in 0 .. R'-1 : Sextet(m)' \in {62, 63}
    BY DEF RefusedIsUnknown
  <2>1. R' = R /\ \A m : Sextet(m)' = Sextet(m)
    <3>1. in' = in
      BY DEF Next, EncodeByte, MoveBack, EncodeTail, Decode, DecodeChar, DecodeReturn, vars
    <3>. QED  BY <3>1 DEF R, Sextet, Bit
  <2>2. CASE result = "BASE64_INVALID"
    BY <2>1, <2>2 DEF RefusedIsUnknown
  <2>3. CASE result # "BASE64_INVALID"
    <3>1. pc = "decode" /\ i < Len(text) /\ text[i+1] # PAD /\ De(text[i+1]) = -1
      BY <2>3 DEF Next, EncodeByte, MoveBack, EncodeTail, Decode, DecodeChar, DecodeReturn, vars
    <3>2. in \in Seq(0..255) /\ Len(text) \in Nat /\ R \in Nat /\ i \in 0..R /\ TextInv
      BY <3>1, Lengths, LenProperties DEF IInv, DecodeInv, ContentInv, BytesInv
    <3>3. i < R /\ text[i+1] = Sextet(i)
      BY <3>1, <3>2, CharIsSextet
    <3>4. Sextet(i) \in 0..63
      <4>1. i \in Nat
        BY <3>2
      <4>. QED  BY <3>2, <4>1, SextetType
    <3>5. ~(Sextet(i) < 62)
      <4>1. \A v \in 0..63 : v < 62 => De(v) # -1
        BY DEF De
      <4>. QED  BY <3>1, <3>3, <3>4, <4>1
    <3>6. i \in 0 .. R-1 /\ Sextet(i) \in {62, 63}
      <4>1. \A v \in 0..63 : ~(v < 62) => v = 62 \/ v = 63
        OBVIOUS
      <4>2. i \in 0 .. R-1
        BY <3>2, <3>3
      <4>. QED  BY <3>4, <3>5, <4>1, <4>2
    <3>. QED  BY <2>1, <3>6
  <2>. QED  BY <2>2, <2>3
<1>. QED  BY <1>1, <1>2, ContentInvariance, PTL DEF Spec
==============================================================================
