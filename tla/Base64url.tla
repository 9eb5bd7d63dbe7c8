------------------------------ MODULE Base64url ------------------------------
(***************************************************************************)
(* The codec of base64url.c, byte by byte: an input is encoded, and its    *)
(* encoding, as it is or with the usual padding, is decoded.               *)
(*                                                                         *)
(* A character is the value the encode table has it for, 0..63; NUL and    *)
(* the padding character are outside of it.  Indices start at 0 as in C,   *)
(* sequences at 1.                                                         *)
(***************************************************************************)
EXTENDS Integers, Sequences

CONSTANTS
  Bytes,    \* the bytes inputs are made of
  MaxLen    \* bound: the length of an input

ASSUME BytesAssumption  == Bytes \subseteq 0..255
ASSUME MaxLenAssumption == MaxLen \in Nat

NUL == 64
PAD == 65   \* '='

\* The callers encode a header, a payload and a signature, none of them empty.
Inputs == UNION {[1..n -> Bytes] : n \in 1..MaxLen}

VARIABLES
  pc,     \* where the calls stand
  in,     \* the bytes to encode
  chars,  \* the characters written by base64url_encode
  i, j,   \* the locals of the call under way
  text,   \* the input of base64url_decode
  out,    \* the bytes written by base64url_decode
  result  \* BASE64_OK or BASE64_INVALID, once decoded

vars == <<pc, in, chars, i, j, text, out, result>>

TypeOK ==
  /\ pc \in {"encode", "tail", "encoded", "decode", "decoded"}
  /\ in \in Seq(0..255) /\ in # <<>>
  /\ chars \in Seq(0..NUL)
  /\ i \in Nat /\ j \in Nat
  /\ text \in Seq(0..PAD)
  /\ out \in Seq(0..255)
  /\ result \in {"none", "BASE64_OK", "BASE64_INVALID"}

Init ==
  /\ pc = "encode"
  /\ in \in Inputs
  /\ chars = <<>>
  /\ i = 0 /\ j = 0
  /\ text = <<>> /\ out = <<>>
  /\ result = "none"

------------------------------------------------------------------------------
(* base64url_encode.  The shifts and masks are divisions and remainders.   *)

\* Mutant: the byte before is not masked.
Turn_NotMasked ==
  CASE i % 3 = 0 -> <<in[i+1] \div 4>>
    [] i % 3 = 1 -> <<in[i] * 16 + in[i+1] \div 16>>
    [] i % 3 = 2 -> <<(in[i] % 16) * 4 + in[i+1] \div 64, in[i+1] % 64>>

\* The characters a turn of the loop writes.
Turn ==
  LET byte == in[i+1]
      last == in[i] IN
  CASE i % 3 = 0 -> <<byte \div 4>>
    [] i % 3 = 1 -> <<(last % 4) * 16 + byte \div 16>>
    [] i % 3 = 2 -> <<(last % 16) * 4 + byte \div 64, byte % 64>>

EncodeByte ==
  /\ pc = "encode" /\ i < Len(in)
  /\ chars' = chars \o Turn
  /\ j' = j + Len(Turn)
  /\ i' = i + 1
  /\ UNCHANGED <<pc, in, text, out, result>>

\* i -= 1, after the loop.
MoveBack ==
  /\ pc = "encode" /\ i = Len(in)
  /\ pc' = "tail"
  /\ i' = i - 1
  /\ UNCHANGED <<in, chars, j, text, out, result>>

\* Mutant: the bits that remain of the last byte are not shifted up.
Rest_NotShifted ==
  CASE i % 3 = 0 -> <<in[i+1] % 4>>
    [] i % 3 = 1 -> <<in[i+1] % 16>>
    [] OTHER     -> <<>>

\* Mutant: a last character is written after a full group too.
Rest_Always ==
  CASE i % 3 = 0 -> <<(in[i+1] % 4) * 16>>
    [] i % 3 = 1 -> <<(in[i+1] % 16) * 4>>
    [] OTHER     -> <<0>>

\* The last character of a group that is not full.
Rest ==
  CASE i % 3 = 0 -> <<(in[i+1] % 4) * 16>>
    [] i % 3 = 1 -> <<(in[i+1] % 16) * 4>>
    [] OTHER     -> <<>>

EncodeTail ==
  /\ pc = "tail"
  /\ pc' = "encoded"
  /\ chars' = chars \o Rest \o <<NUL>>
  /\ j' = j + Len(Rest) + 1
  /\ UNCHANGED <<in, i, text, out, result>>

------------------------------------------------------------------------------
(* base64url_decode, of what was encoded.                                  *)

Unended == SubSeq(chars, 1, Len(chars) - 1)
Padding == [k \in 1..((4 - (Len(Unended) % 4)) % 4) |-> PAD]

Decode ==
  /\ pc = "encoded"
  /\ pc' = "decode"
  /\ text' \in {Unended, Unended \o Padding}
  /\ i' = 0 /\ j' = 0
  /\ UNCHANGED <<in, chars, out, result>>

\* The decode table at a character, -1 where it has none: it is the table of plain
\* base64, and the characters 62 and 63 of the encode table are '-' and '_'.
De(c) == IF c < 62 THEN c ELSE -1

\* o[k] = b, of bytes that are written in order.
Write(o, k, b) == IF k < Len(o) THEN [o EXCEPT ![k+1] = b] ELSE Append(o, b)

\* out[j] += b.
Add(b) == Write(out, j, (out[j+1] + b) % 256)

\* i < (inlen - k), in unsigned arithmetic: the difference wraps if inlen < k.
Before(k) == Len(text) < k \/ i < Len(text) - k

\* Mutant: the tests for padding are left out.
OpensByte_Always(k) == TRUE

\* The test by which a character, k before a padding, begins one more byte.
OpensByte(k) == Before(k) \/ text[Len(text) - k + 2] # PAD

\* Add b, and begin the next byte with c unless padding follows.
AddOpen(b, k, c) ==
  /\ out' = IF OpensByte(k) THEN Write(Add(b), j + 1, c) ELSE Add(b)
  /\ j' = j + 1

\* A turn of the loop on a character of the table.
DecodeChar ==
  /\ pc = "decode" /\ i < Len(text)
  /\ text[i+1] # PAD /\ De(text[i+1]) # -1
  /\ LET c == De(text[i+1]) IN
       \/ i % 4 = 0 /\ out' = Write(out, j, c * 4) /\ UNCHANGED j
       \/ i % 4 = 1 /\ AddOpen(c \div 16, 3, (c % 16) * 16)
       \/ i % 4 = 2 /\ AddOpen(c \div 4, 2, (c % 4) * 64)
       \/ i % 4 = 3 /\ out' = Add(c) /\ j' = j + 1
  /\ i' = i + 1
  /\ UNCHANGED <<pc, in, chars, text, result>>

\* The returns: at the padding, at a character without a value, at the end.
DecodeReturn ==
  /\ pc = "decode"
  /\ pc' = "decoded"
  /\ \/ i < Len(text) /\ text[i+1] = PAD /\ result' = "BASE64_OK"
     \/ /\ i < Len(text) /\ text[i+1] # PAD /\ De(text[i+1]) = -1
        /\ result' = "BASE64_INVALID"
     \/ i = Len(text) /\ result' = "BASE64_OK"
  /\ UNCHANGED <<in, chars, i, j, text, out>>

Next == EncodeByte \/ MoveBack \/ EncodeTail \/ Decode \/ DecodeChar \/ DecodeReturn

Spec == Init /\ [][Next]_vars

------------------------------------------------------------------------------
(* The reference: base64url is the input cut into groups of six bits.      *)

Bit(k) ==
  IF k \div 8 >= Len(in) THEN 0
  ELSE (in[k \div 8 + 1] \div (2 ^ (7 - (k % 8)))) % 2

Sextet(m) ==
  32 * Bit(6*m) + 16 * Bit(6*m + 1) + 8 * Bit(6*m + 2)
  + 4 * Bit(6*m + 3) + 2 * Bit(6*m + 4) + Bit(6*m + 5)

Reference == [m \in 1..((8 * Len(in) + 5) \div 6) |-> Sextet(m - 1)]

\* BASE64_ENCODE_OUT_SIZE and BASE64_DECODE_OUT_SIZE.
OutSize       == ((Len(in) + 2) \div 3) * 4
DecodeOutSize == (Len(text) \div 4) * 3

------------------------------------------------------------------------------
(* Properties.                                                             *)

\* The encoding of the token's parts is the one the RFC defines, without padding
\* and ended by NUL: the broker rejects a token that differs in a bit.
EncodesBits == pc = "encoded" => chars = Reference \o <<NUL>>

\* The characters always fit the size the header announces; the NUL of base64url.c:95
\* does not if the length is divisible by 3.  A caller needs one byte more than the
\* macro says (base64url.h:13); the locals of the generator have it.
OnlyNulExceeds ==
  pc \in {"encode", "tail", "encoded"} =>
    /\ j = Len(chars) /\ j <= OutSize + 1
    /\ j > OutSize <=> pc = "encoded" /\ Len(in) % 3 = 0

\* What decodes, decodes to the bytes that were encoded; with padding none is written
\* behind them, without it one more is begun.  It is then that the decoder writes more
\* than the size its header announces (base64url.h:14).
DecodesBytes ==
  result = "BASE64_OK" =>
    /\ SubSeq(out, 1, Len(in)) = in
    /\ Len(out) = IF Len(text) % 4 = 0 THEN Len(in) ELSE Len(in) + 1
    /\ Len(out) > DecodeOutSize <=> Len(text) % 4 # 0

\* base64url.c:28, "-1 in unused character": the characters the decoder has no value
\* for are unused, so what was encoded decodes.
EncodedDecodes == result # "BASE64_INVALID"

==============================================================================
