--------------------------- MODULE Base64url_proofs ---------------------------
(***************************************************************************)
(* The room the encoder needs, and the bytes the decoder begins, for       *)
(* inputs of every length: where the two indices stand at each turn.       *)
(***************************************************************************)
EXTENDS Base64url, SequenceTheorems, TLAPS

\* The characters written before byte k is looked at.
Before3(k) == k + k \div 3

IInv ==
  /\ in \in Seq(0..255) /\ Len(in) > 0
  /\ chars \in Seq(0..NUL)
  /\ pc \in {"encode", "tail", "encoded", "decode", "decoded"}
  /\ pc = "encode" =>
       i \in 0..Len(in) /\ j = Before3(i) /\ Len(chars) = j
  /\ pc = "tail" =>
       i = Len(in) - 1 /\ j = Before3(Len(in)) /\ Len(chars) = j
  /\ pc = "encoded" =>
       j = Len(chars) /\ j <= OutSize + 1 /\ (j > OutSize <=> Len(in) % 3 = 0)

\* Three bytes make a group of four characters.
LEMMA GroupOfThree ==
  ASSUME NEW k \in Nat
  PROVE  /\ k % 3 = 2 => (k + 1) \div 3 = k \div 3 + 1
         /\ k % 3 # 2 => (k + 1) \div 3 = k \div 3
         /\ k % 3 \in 0..2
         /\ k \div 3 \in Nat
  BY SMT

\* The room of a last group, which writes r characters more: it is filled if the
\* group is full.
LEMMA LastGroup ==
  ASSUME NEW k \in Nat, NEW r \in {0, 1}, r = 0 <=> k % 3 = 2
  PROVE  /\ (k + 1) + (k + 1) \div 3 + r <= ((k + 3) \div 3) * 4
         /\ (k + 1) + (k + 1) \div 3 + r = ((k + 3) \div 3) * 4 <=> (k + 1) % 3 = 0
<1>1. (k + 3) \div 3 = k \div 3 + 1 /\ k = 3 * (k \div 3) + (k % 3)
  BY SMT
<1>2. (k + 1) % 3 = 0 <=> k % 3 = 2
  BY SMT
<1>3. CASE k % 3 = 2
  BY <1>1, <1>2, <1>3, GroupOfThree
<1>4. CASE k % 3 # 2
  BY <1>1, <1>2, <1>4, GroupOfThree
<1> QED
  BY <1>3, <1>4

\* The shifts and masks of one byte and of the byte before it.
LEMMA Shifts ==
  ASSUME NEW b \in 0..255, NEW a \in 0..255
  PROVE  /\ b \div 4 \in 0..64
         /\ (a % 4) * 16 + b \div 16 \in 0..64
         /\ (a % 16) * 4 + b \div 64 \in 0..64
         /\ b % 64 \in 0..64
         /\ (b % 4) * 16 \in 0..64
         /\ (b % 16) * 4 \in 0..64
<1>1. a % 4 \in 0..3 /\ b % 4 \in 0..3 /\ a % 16 \in 0..15 /\ b % 16 \in 0..15
  BY SMT
<1>2. b \div 4 \in 0..63 /\ b \div 16 \in 0..15 /\ b \div 64 \in 0..3 /\ b % 64 \in 0..63
  BY SMT
<1> QED
  BY <1>1, <1>2

LEMMA Elements ==
  ASSUME NEW S, NEW s \in Seq(S)
  PROVE  Len(s) \in Nat /\ \A k \in 1..Len(s) : s[k] \in S
BY ElementOfSeq, LenProperties

LEMMA InitIInv == Init => IInv
<1> SUFFICES ASSUME Init PROVE IInv
  OBVIOUS
<1>1. in \in Seq(0..255) /\ Len(in) > 0
  <2>1. PICK n \in 1..MaxLen : in \in [1..n -> Bytes]
    BY DEF Init, Inputs
  <2>2. in \in [1..n -> 0..255]
    BY <2>1, BytesAssumption
  <2>3. in \in Seq(0..255) /\ Len(in) = n
    BY <2>2, MaxLenAssumption
  <2> QED
    BY <2>1, <2>3, MaxLenAssumption
<1> QED
  BY <1>1 DEF Init, IInv, Before3

\* A turn writes one character, and two for the last byte of a group.
LEMMA TurnLength ==
  ASSUME IInv, pc = "encode", i < Len(in)
  PROVE  /\ Turn \in Seq(0..NUL)
         /\ i % 3 # 2 => Len(Turn) = 1
         /\ i % 3 = 2 => Len(Turn) = 2
<1> DEFINE byte == in[i+1]  last == in[i]
<1>0. i \in Nat /\ Len(in) \in Nat /\ byte \in 0..255
  <2>1. in \in Seq(0..255) /\ i \in 0..Len(in)
    BY DEF IInv
  <2>2. Len(in) \in Nat /\ i + 1 \in 1..Len(in)
    BY <2>1, Elements
  <2> QED
    BY <2>1, <2>2, Elements
<1>1. CASE i % 3 = 0
  <2>1. Turn = <<byte \div 4>>
    BY <1>1 DEF Turn
  <2>2. byte \div 4 \in 0..NUL
    BY <1>0, Shifts DEF NUL
  <2> QED
    BY <1>1, <2>1, <2>2
<1>2. CASE i % 3 = 1
  <2>1. Turn = <<(last % 4) * 16 + byte \div 16>>
    BY <1>2 DEF Turn
  <2>2. last \in 0..255
    <3>1. in \in Seq(0..255) /\ i \in 1..Len(in)
      BY <1>0, <1>2, GroupOfThree DEF IInv
    <3> QED
      BY <3>1, Elements
  <2>3. (last % 4) * 16 + byte \div 16 \in 0..NUL
    BY <1>0, <2>2, Shifts DEF NUL
  <2> QED
    BY <1>2, <2>1, <2>3
<1>3. CASE i % 3 = 2
  <2>1. Turn = <<(last % 16) * 4 + byte \div 64, byte % 64>>
    BY <1>3 DEF Turn
  <2>2. last \in 0..255
    <3>1. in \in Seq(0..255) /\ i \in 1..Len(in)
      BY <1>0, <1>3, GroupOfThree DEF IInv
    <3> QED
      BY <3>1, Elements
  <2>3. (last % 16) * 4 + byte \div 64 \in 0..NUL /\ byte % 64 \in 0..NUL
    BY <1>0, <2>2, Shifts DEF NUL
  <2> QED
    BY <1>3, <2>1, <2>3
<1> QED
  BY <1>0, <1>1, <1>2, <1>3, GroupOfThree

\* So does the end, unless the last group is full.
LEMMA RestLength ==
  ASSUME IInv, pc = "tail"
  PROVE  /\ Rest \in Seq(0..NUL)
         /\ i % 3 # 2 => Len(Rest) = 1
         /\ i % 3 = 2 => Len(Rest) = 0
<1>0. i \in Nat /\ in[i+1] \in 0..255
  <2>1. in \in Seq(0..255) /\ Len(in) > 0 /\ i = Len(in) - 1
    BY DEF IInv
  <2>2. i \in Nat /\ i + 1 \in 1..Len(in)
    BY <2>1, Elements
  <2> QED
    BY <2>1, <2>2, Elements
<1>1. CASE i % 3 = 0
  <2>1. Rest = <<(in[i+1] % 4) * 16>>
    BY <1>1 DEF Rest
  <2>2. (in[i+1] % 4) * 16 \in 0..NUL
    BY <1>0, Shifts DEF NUL
  <2> QED
    BY <1>1, <2>1, <2>2
<1>2. CASE i % 3 = 1
  <2>1. Rest = <<(in[i+1] % 16) * 4>>
    BY <1>2 DEF Rest
  <2>2. (in[i+1] % 16) * 4 \in 0..NUL
    BY <1>0, Shifts DEF NUL
  <2> QED
    BY <1>2, <2>1, <2>2
<1>3. CASE i % 3 = 2
  <2>1. Rest = <<>>
    BY <1>3 DEF Rest
  <2> QED
    BY <1>3, <2>1
<1> QED
  BY <1>0, <1>1, <1>2, <1>3, GroupOfThree

LEMMA NextIInv == IInv /\ [Next]_vars => IInv'
<1> SUFFICES ASSUME IInv, [Next]_vars PROVE IInv'
  OBVIOUS
<1>1. CASE EncodeByte
  <2>1. i \in Nat /\ i < Len(in) /\ i + 1 \in 0..Len(in) /\ j = Before3(i) /\ Len(chars) = j
    BY <1>1 DEF IInv, EncodeByte
  <2>2. chars' \in Seq(0..NUL) /\ Len(chars') = Len(chars) + Len(Turn)
    BY <1>1, TurnLength DEF IInv, EncodeByte
  <2>3. Before3(i + 1) = Before3(i) + Len(Turn)
    <3>1. /\ i % 3 # 2 => Len(Turn) = 1
          /\ i % 3 = 2 => Len(Turn) = 2
      BY <1>1, TurnLength DEF EncodeByte
    <3>2. /\ i % 3 # 2 => (i + 1) \div 3 = i \div 3
          /\ i % 3 = 2 => (i + 1) \div 3 = i \div 3 + 1
          /\ i \div 3 \in Nat
      BY <2>1, GroupOfThree
    <3>3. CASE i % 3 = 2
      <4>1. Len(Turn) = 2 /\ (i + 1) \div 3 = i \div 3 + 1
        BY <3>1, <3>2, <3>3
      <4> QED
        BY <2>1, <3>2, <4>1 DEF Before3
    <3>4. CASE i % 3 # 2
      <4>1. Len(Turn) = 1 /\ (i + 1) \div 3 = i \div 3
        BY <3>1, <3>2, <3>4
      <4> QED
        BY <2>1, <3>2, <4>1 DEF Before3
    <3> QED
      BY <3>3, <3>4
  <2> QED
    BY <1>1, <2>1, <2>2, <2>3 DEF IInv, EncodeByte
<1>2. CASE MoveBack
  BY <1>2 DEF IInv, MoveBack
<1>3. CASE EncodeTail
  <2>1. i \in Nat /\ i = Len(in) - 1 /\ j = Before3(Len(in)) /\ Len(chars) = j
    BY <1>3 DEF IInv, EncodeTail
  <2>2. /\ chars' \in Seq(0..NUL)
        /\ Len(chars') = Len(chars) + Len(Rest) + 1
    BY <1>3, RestLength DEF IInv, EncodeTail, NUL
  <2>3. j + Len(Rest) <= OutSize /\ (j + Len(Rest) = OutSize <=> Len(in) % 3 = 0)
    <3>1. /\ Before3(i + 1) + Len(Rest) <= ((i + 3) \div 3) * 4
          /\ Before3(i + 1) + Len(Rest) = ((i + 3) \div 3) * 4 <=> (i + 1) % 3 = 0
      <4>1. Len(Rest) \in {0, 1} /\ (Len(Rest) = 0 <=> i % 3 = 2)
        <5>1. /\ i % 3 # 2 => Len(Rest) = 1
              /\ i % 3 = 2 => Len(Rest) = 0
          BY <1>3, RestLength DEF EncodeTail
        <5>2. CASE i % 3 = 2
          BY <5>1, <5>2
        <5>3. CASE i % 3 # 2
          BY <5>1, <5>3
        <5> QED
          BY <5>2, <5>3
      <4> QED
        BY <2>1, <4>1, LastGroup DEF Before3
    <3>2. Len(in) = i + 1 /\ Len(in) + 2 = i + 3
      BY <2>1, Elements DEF IInv
    <3> QED
      BY <2>1, <3>1, <3>2 DEF OutSize
  <2>4. OutSize' = OutSize /\ OutSize \in Int /\ Len(Rest) \in Nat /\ j \in Nat
    BY <1>3, <2>1, RestLength, GroupOfThree DEF OutSize, EncodeTail, IInv, Before3
  <2>5. j' = j + Len(Rest) + 1 /\ in' = in /\ pc' = "encoded"
    BY <1>3 DEF EncodeTail
  <2>6. j' <= OutSize + 1 /\ (j' > OutSize <=> Len(in) % 3 = 0)
    <3>1. \A r, n \in Int : /\ j + r <= n => j + r + 1 <= n + 1
                            /\ j + r <= n => (j + r + 1 > n <=> j + r = n)
      BY <2>4
    <3> QED
      BY <2>3, <2>4, <2>5, <3>1
  <2>7. j' = Len(chars')
    BY <2>1, <2>2, <2>5
  <2> QED
    BY <2>2, <2>4, <2>5, <2>6, <2>7 DEF IInv
<1>4. CASE Decode \/ DecodeChar \/ DecodeReturn \/ UNCHANGED vars
  BY <1>4 DEF IInv, Decode, DecodeChar, DecodeReturn, vars, OutSize, Before3
<1> QED
  BY <1>1, <1>2, <1>3, <1>4 DEF Next

\* The indices of the encoder at every turn, for inputs of every length: its reads
\* are inside of the input and its writes follow one another.
THEOREM Invariance == Spec => []IInv
<1> QED
  BY InitIInv, NextIInv, PTL DEF Spec

\* base64url_encode writes no more than BASE64_ENCODE_OUT_SIZE characters; its NUL
\* exceeds that size exactly for lengths divisible by 3.
THEOREM EncoderRoom == Spec => []OnlyNulExceeds
<1>1. IInv => OnlyNulExceeds
  <2> SUFFICES ASSUME IInv PROVE OnlyNulExceeds
    OBVIOUS
  <2>1. CASE pc = "encode"
    <3>1. i \in 0..Len(in) /\ Len(in) \in Nat /\ j = i + i \div 3 /\ j = Len(chars)
      BY <2>1 DEF IInv, Before3
    <3>2. j <= OutSize /\ j \in Int /\ OutSize \in Int
      BY <3>1 DEF OutSize
    <3> QED
      BY <2>1, <3>1, <3>2 DEF OnlyNulExceeds
  <2>2. CASE pc = "tail"
    <3>1. Len(in) \in Nat /\ j = Len(in) + Len(in) \div 3 /\ j = Len(chars)
      BY <2>2 DEF IInv, Before3
    <3>2. j <= OutSize /\ j \in Int /\ OutSize \in Int
      BY <3>1 DEF OutSize
    <3> QED
      BY <2>2, <3>1, <3>2 DEF OnlyNulExceeds
  <2> QED
    BY <2>1, <2>2 DEF IInv, OnlyNulExceeds
<1> QED
  BY <1>1, Invariance, PTL

------------------------------------------------------------------------------
(* The decoder: the byte it adds to has been begun, for inputs of every    *)
(* length.  Where it begins none, a padding follows, at which it returns.  *)

Padded  == \E n \in Nat : Len(text) = 4 * n
NoPad   == \A k \in 1..Len(text) : text[k] # PAD

DecodeInv ==
  /\ i \in Nat /\ j \in Nat
  /\ text \in Seq(0..PAD) /\ out \in Seq(0..255)
  /\ result \in {"none", "BASE64_OK", "BASE64_INVALID"}
  /\ pc \in {"encode", "tail", "encoded"} => out = <<>>
  /\ pc = "decode" =>
       /\ i <= Len(text)
       /\ Padded \/ NoPad
       /\ i % 4 = 0 => Len(out) = j
       /\ i % 4 # 0 => Len(out) = j + 1 \/ (i < Len(text) /\ text[i+1] = PAD)

LEMMA InitDecodeInv == Init => DecodeInv
BY DEF Init, DecodeInv

\* The padding fills the last group of four.
LEMMA PaddingFills ==
  ASSUME NEW m \in Nat
  PROVE  /\ ((4 - (m % 4)) % 4) \in Nat
         /\ \E n \in Nat : m + ((4 - (m % 4)) % 4) = 4 * n
<1>1. m % 4 \in 0..3 /\ m \div 4 \in Nat /\ m = 4 * (m \div 4) + (m % 4)
  BY SMT
<1>2. CASE m % 4 = 0
  <2>1. (4 - (m % 4)) % 4 = 0
    BY <1>2
  <2>2. m + 0 = 4 * (m \div 4)
    BY <1>1, <1>2
  <2>. QED  BY <1>1, <2>1, <2>2
<1>3. CASE m % 4 # 0
  <2>1. (4 - (m % 4)) % 4 = 4 - (m % 4)
    BY <1>1, <1>3
  <2>2. m + (4 - (m % 4)) = 4 * (m \div 4 + 1) /\ m \div 4 + 1 \in Nat /\ 4 - (m % 4) \in Nat
    BY <1>1
  <2>. QED  BY <2>1, <2>2
<1>. QED  BY <1>2, <1>3

\* What a text to decode is.
LEMMA TextShape ==
  ASSUME IInv, NEW t \in {Unended, Unended \o Padding}
  PROVE  /\ t \in Seq(0..PAD)
         /\ (\E n \in Nat : Len(t) = 4 * n) \/ (\A k \in 1..Len(t) : t[k] # PAD)
<1>1. Len(chars) \in Nat /\ \A k \in 1..Len(chars) - 1 : chars[k] \in 0..NUL
  <2>1. chars \in Seq(0..NUL)
    BY DEF IInv
  <2>2. Len(chars) \in Nat /\ \A k \in 1..Len(chars) : chars[k] \in 0..NUL
    BY <2>1, LenProperties, ElementOfSeq
  <2>. QED  BY <2>2
<1>2. Unended \in Seq(0..NUL)
  BY <1>1, SubSeqProperties DEF Unended
<1>3. Unended \in Seq(0..PAD) /\ Len(Unended) \in Nat /\ \A k \in 1..Len(Unended) : Unended[k] # PAD
  <2>1. 0..NUL \subseteq 0..PAD /\ \A k \in 0..NUL : k # PAD
    BY DEF NUL, PAD
  <2>2. Unended \in Seq(0..PAD)
    BY <1>2, <2>1, SeqMonotonic
  <2>3. Len(Unended) \in Nat /\ \A k \in 1..Len(Unended) : Unended[k] \in 0..NUL
    BY <1>2, Elements
  <2>. QED  BY <2>1, <2>2, <2>3
<1> DEFINE u == Len(Unended)  p == (4 - (u % 4)) % 4
<1>4. u \in Nat /\ p \in Nat /\ \E n \in Nat : u + p = 4 * n
  <2>1. \A m \in Nat : /\ ((4 - (m % 4)) % 4) \in Nat
                       /\ \E n \in Nat : m + ((4 - (m % 4)) % 4) = 4 * n
    BY PaddingFills
  <2>. QED  BY <1>3, <2>1
<1>5. Padding \in Seq(0..PAD) /\ Len(Padding) = p
  <2>1. Padding = [k \in 1..p |-> PAD]
    BY DEF Padding
  <2>2. PAD \in 0..PAD
    BY DEF PAD
  <2> HIDE DEF p
  <2>. QED  BY <1>4, <2>1, <2>2
<1>6. Unended \o Padding \in Seq(0..PAD) /\ Len(Unended \o Padding) = u + p
  BY <1>3, <1>5, ConcatProperties
<1>. QED  BY <1>3, <1>4, <1>6

\* A byte that has been begun is added to; the next one is begun behind it.
LEMMA AddType ==
  ASSUME out \in Seq(0..255), j \in Nat, Len(out) = j + 1, NEW b \in Nat
  PROVE  Add(b) \in Seq(0..255) /\ Len(Add(b)) = j + 1
<1>1. out[j+1] \in 0..255
  <2>1. j + 1 \in 1..Len(out)
    OBVIOUS
  <2>. QED  BY <2>1, Elements
<1>2. (out[j+1] + b) % 256 \in 0..255
  <2>1. \A a \in 0..255 : a + b \in Nat
    OBVIOUS
  <2>2. \A n \in Nat : n % 256 \in 0..255
    OBVIOUS
  <2>. QED  BY <1>1, <2>1, <2>2, Zenon
<1>3. Add(b) = [out EXCEPT ![j+1] = (out[j+1] + b) % 256]
  BY DEF Add, Write
<1>. QED  BY <1>2, <1>3, ExceptSeq

LEMMA BeginType ==
  ASSUME NEW o \in Seq(0..255), NEW n \in Nat, Len(o) = n, NEW b \in 0..255
  PROVE  Write(o, n, b) \in Seq(0..255) /\ Len(Write(o, n, b)) = n + 1
<1>1. Write(o, n, b) = Append(o, b)
  BY DEF Write
<1>. QED  BY <1>1, AppendProperties

\* If a character begins no byte, a padding comes next.
LEMMA PaddingNext ==
  ASSUME DecodeInv, pc = "decode", i < Len(text), NEW k \in {2, 3}, i % 4 = 4 - k, ~OpensByte(k)
  PROVE  i + 1 < Len(text) /\ text[i+2] = PAD
<1>1. /\ i \in Nat /\ Len(text) \in Nat /\ (Padded \/ NoPad)
      /\ Len(text) >= k /\ i >= Len(text) - k /\ text[Len(text) - k + 2] = PAD
  BY DEF DecodeInv, OpensByte, Before
<1>2. Len(text) - k + 2 \in 1..Len(text)
  BY <1>1
<1>3. PICK n \in Nat : Len(text) = 4 * n
  BY <1>1, <1>2 DEF Padded, NoPad
<1>4. i = Len(text) - k
  <2>1. \A a, m \in Nat : /\ a % 4 = 2 /\ 4 * m - 2 <= a /\ a < 4 * m => a = 4 * m - 2
                          /\ a % 4 = 1 /\ 4 * m - 3 <= a /\ a < 4 * m => a = 4 * m - 3
    OBVIOUS
  <2>2. CASE k = 2
    <3>1. i % 4 = 2 /\ 4 * n - 2 <= i /\ i < 4 * n
      BY <1>1, <1>3, <2>2
    <3>2. i = 4 * n - 2
      BY <1>1, <1>3, <2>1, <3>1, Zenon
    <3>. QED  BY <1>3, <2>2, <3>2
  <2>3. CASE k = 3
    <3>1. i % 4 = 1 /\ 4 * n - 3 <= i /\ i < 4 * n
      BY <1>1, <1>3, <2>3
    <3>2. i = 4 * n - 3
      BY <1>1, <1>3, <2>1, <3>1, Zenon
    <3>. QED  BY <1>3, <2>3, <3>2
  <2>. QED  BY <2>2, <2>3
<1>5. i + 2 = Len(text) - k + 2 /\ i + 1 < Len(text)
  BY <1>1, <1>4
<1>. QED  BY <1>1, <1>5

LEMMA AddOpenInv ==
  ASSUME DecodeInv, pc = "decode", i < Len(text), text[i+1] # PAD,
         NEW k \in {2, 3}, i % 4 = 4 - k, NEW b \in Nat, NEW c \in 0..255, AddOpen(b, k, c)
  PROVE  /\ out' \in Seq(0..255) /\ j' \in Nat
         /\ Len(out') = j' + 1 \/ (i + 1 < Len(text) /\ text[i+2] = PAD)
<1>1. out \in Seq(0..255) /\ j \in Nat /\ Len(out) = j + 1
  BY DEF DecodeInv
<1>2. Add(b) \in Seq(0..255) /\ Len(Add(b)) = j + 1 /\ j + 1 \in Nat
  BY <1>1, AddType
<1>3. CASE OpensByte(k)
  <2>1. out' = Write(Add(b), j + 1, c) /\ j' = j + 1
    BY <1>3 DEF AddOpen
  <2>. QED  BY <1>1, <1>2, <2>1, BeginType
<1>4. CASE ~OpensByte(k)
  BY <1>1, <1>2, <1>4, PaddingNext DEF AddOpen
<1>. QED  BY <1>3, <1>4

LEMMA NextDecodeInv == IInv /\ IInv' /\ DecodeInv /\ [Next]_vars => DecodeInv'
<1>. SUFFICES ASSUME IInv, IInv', DecodeInv, [Next]_vars PROVE DecodeInv'
  OBVIOUS
<1>1. CASE EncodeByte \/ EncodeTail
  <2>1. i \in Nat /\ i' \in {i, i + 1}
    BY <1>1 DEF DecodeInv, EncodeByte, EncodeTail
  <2>2. i' \in Nat
    BY <2>1
  <2>3. pc' \in {"encode", "encoded"} /\ UNCHANGED <<text, out, result>> /\ out = <<>>
    BY <1>1 DEF DecodeInv, EncodeByte, EncodeTail
  <2>4. j' \in Nat
    <3>1. j' = Len(chars') /\ chars' \in Seq(0..NUL)
      BY <1>1, <2>3 DEF IInv, EncodeByte, EncodeTail
    <3>. QED  BY <3>1, LenProperties
  <2>. QED  BY <2>2, <2>3, <2>4 DEF DecodeInv
<1>2. CASE MoveBack
  <2>1. i' \in Nat
    BY <1>2 DEF IInv, MoveBack
  <2>. QED  BY <1>2, <2>1 DEF DecodeInv, MoveBack
<1>3. CASE Decode
  <2>1. text' \in Seq(0..PAD) /\ (Padded \/ NoPad)'
    BY <1>3, TextShape DEF Decode, Padded, NoPad
  <2>2. out = <<>> /\ 0 <= Len(text')
    BY <1>3, <2>1, LenProperties DEF Decode, DecodeInv
  <2>. QED  BY <1>3, <2>1, <2>2 DEF Decode, DecodeInv
<1>4. CASE DecodeChar
  <2> DEFINE c == De(text[i+1])
  <2>1. /\ pc = "decode" /\ i < Len(text) /\ text[i+1] # PAD /\ c # -1
        /\ i' = i + 1 /\ UNCHANGED <<pc, in, chars, text, result>>
    BY <1>4 DEF DecodeChar
  <2>2. /\ i \in Nat /\ j \in Nat /\ Len(text) \in Nat /\ out \in Seq(0..255)
        /\ i % 4 = 0 => Len(out) = j
        /\ i % 4 # 0 => Len(out) = j + 1
        /\ Padded \/ NoPad
    BY <2>1, LenProperties DEF DecodeInv
  <2>3. c \in 0..61
    <3>1. text \in Seq(0..PAD) /\ i + 1 \in 1..Len(text)
      BY <2>1, <2>2 DEF DecodeInv
    <3>2. text[i+1] \in 0..PAD
      BY <3>1, Elements
    <3>3. \A a \in 0..PAD : De(a) # -1 => De(a) \in 0..61
      BY DEF De, PAD
    <3>. QED  BY <2>1, <3>2, <3>3
  <2> HIDE DEF c
  <2>4. /\ c * 4 \in 0..255 /\ (c % 16) * 16 \in 0..255 /\ (c % 4) * 64 \in 0..255
        /\ c \in Nat /\ c \div 16 \in Nat /\ c \div 4 \in Nat
    BY <2>3
  <2>5. /\ out' \in Seq(0..255) /\ j' \in Nat
        /\ i % 4 # 3 => Len(out') = j' + 1 \/ (i + 1 < Len(text) /\ text[i+2] = PAD)
        /\ i % 4 = 3 => Len(out') = j'
    <3>1. CASE i % 4 = 0 /\ out' = Write(out, j, c * 4) /\ UNCHANGED j
      <4>1. Len(out) = j /\ out' = Write(out, j, c * 4) /\ j' = j
        BY <2>2, <3>1
      <4>2. out' \in Seq(0..255) /\ Len(out') = j + 1
        <5>1. out \in Seq(0..255) /\ j \in Nat /\ c * 4 \in 0..255
          BY <2>2, <2>4
        <5>2. Write(out, j, c * 4) \in Seq(0..255) /\ Len(Write(out, j, c * 4)) = j + 1
          BY <4>1, <5>1, BeginType
        <5>. QED  BY <4>1, <5>2
      <4>. QED  BY <2>2, <3>1, <4>1, <4>2
    <3>2. CASE i % 4 = 1 /\ AddOpen(c \div 16, 3, (c % 16) * 16)
      <4>1. i % 4 = 4 - 3 /\ i % 4 # 3 /\ 3 \in {2, 3}
        BY <3>2
      <4>2. /\ out' \in Seq(0..255) /\ j' \in Nat
            /\ Len(out') = j' + 1 \/ (i + 1 < Len(text) /\ text[i+2] = PAD)
        BY <2>1, <2>4, <3>2, <4>1, AddOpenInv
      <4>. QED  BY <4>1, <4>2
    <3>3. CASE i % 4 = 2 /\ AddOpen(c \div 4, 2, (c % 4) * 64)
      <4>1. i % 4 = 4 - 2 /\ i % 4 # 3 /\ 2 \in {2, 3}
        BY <3>3
      <4>2. /\ out' \in Seq(0..255) /\ j' \in Nat
            /\ Len(out') = j' + 1 \/ (i + 1 < Len(text) /\ text[i+2] = PAD)
        BY <2>1, <2>4, <3>3, <4>1, AddOpenInv
      <4>. QED  BY <4>1, <4>2
    <3>4. CASE i % 4 = 3 /\ out' = Add(c) /\ j' = j + 1
      BY <2>2, <2>4, <3>4, AddType
    <3>. QED  BY <1>4, <3>1, <3>2, <3>3, <3>4 DEF DecodeChar, c
  <2>6. (i + 1) % 4 = 0 <=> i % 4 = 3
    BY <2>2
  <2>7. (Padded \/ NoPad)' /\ i + 1 \in Nat /\ i + 1 <= Len(text) /\ (i + 1) + 1 = i + 2
    BY <2>1, <2>2 DEF Padded, NoPad
  <2>. QED  BY <2>1, <2>2, <2>5, <2>6, <2>7 DEF DecodeInv
<1>5. CASE DecodeReturn \/ UNCHANGED vars
  BY <1>5 DEF DecodeInv, DecodeReturn, vars, Padded, NoPad
<1>. QED  BY <1>1, <1>2, <1>3, <1>4, <1>5 DEF Next

\* The types of both calls: every byte is one, and no byte is added to before it was begun.
THEOREM TypeCorrect == Spec => []TypeOK
<1>1. IInv /\ DecodeInv => TypeOK
  BY DEF IInv, DecodeInv, TypeOK
<1>. QED  BY <1>1, Invariance, InitDecodeInv, NextDecodeInv, PTL DEF Spec
==============================================================================
