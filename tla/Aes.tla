---------------------------------- MODULE Aes ----------------------------------
(***************************************************************************)
(* What ThreadMessageItemEncrypt does to one chunk of a packet, and        *)
(* EncryptKey to a key of 128, 192 or 256 bits.  A chunk is a tuple of     *)
(* ENCRYPTION_CHUNK_SIZE bytes, numbered from 1; the matrix state[r][c] of *)
(* the code is byte r + 4c, so copying the chunk into it and back leaves   *)
(* no trace here.  RotateWordLeft reads one byte beyond the word and       *)
(* overwrites what it made of it.  One chunk is encrypted and decrypted    *)
(* again, a round per step.                                                *)
(***************************************************************************)
EXTENDS Naturals, Sequences, SequencesExt, Bitwise

VARIABLES
  chunk,     \* ThreadMessageItemEncrypt::state
  encrypt,   \* what the item does, or "" before there is one
  round,     \* rounds it has done
  roundKey   \* EncryptKey::roundKey

aesVars == <<chunk, encrypt, round, roundKey>>

\* NetUtility::EncryptionBox.
EncryptionBox ==
  <<\h63, \h7c, \h77, \h7b, \hf2, \h6b, \h6f, \hc5, \h30, \h01, \h67, \h2b, \hfe, \hd7, \hab, \h76,
    \hca, \h82, \hc9, \h7d, \hfa, \h59, \h47, \hf0, \had, \hd4, \ha2, \haf, \h9c, \ha4, \h72, \hc0,
    \hb7, \hfd, \h93, \h26, \h36, \h3f, \hf7, \hcc, \h34, \ha5, \he5, \hf1, \h71, \hd8, \h31, \h15,
    \h04, \hc7, \h23, \hc3, \h18, \h96, \h05, \h9a, \h07, \h12, \h80, \he2, \heb, \h27, \hb2, \h75,
    \h09, \h83, \h2c, \h1a, \h1b, \h6e, \h5a, \ha0, \h52, \h3b, \hd6, \hb3, \h29, \he3, \h2f, \h84,
    \h53, \hd1, \h00, \hed, \h20, \hfc, \hb1, \h5b, \h6a, \hcb, \hbe, \h39, \h4a, \h4c, \h58, \hcf,
    \hd0, \hef, \haa, \hfb, \h43, \h4d, \h33, \h85, \h45, \hf9, \h02, \h7f, \h50, \h3c, \h9f, \ha8,
    \h51, \ha3, \h40, \h8f, \h92, \h9d, \h38, \hf5, \hbc, \hb6, \hda, \h21, \h10, \hff, \hf3, \hd2,
    \hcd, \h0c, \h13, \hec, \h5f, \h97, \h44, \h17, \hc4, \ha7, \h7e, \h3d, \h64, \h5d, \h19, \h73,
    \h60, \h81, \h4f, \hdc, \h22, \h2a, \h90, \h88, \h46, \hee, \hb8, \h14, \hde, \h5e, \h0b, \hdb,
    \he0, \h32, \h3a, \h0a, \h49, \h06, \h24, \h5c, \hc2, \hd3, \hac, \h62, \h91, \h95, \he4, \h79,
    \he7, \hc8, \h37, \h6d, \h8d, \hd5, \h4e, \ha9, \h6c, \h56, \hf4, \hea, \h65, \h7a, \hae, \h08,
    \hba, \h78, \h25, \h2e, \h1c, \ha6, \hb4, \hc6, \he8, \hdd, \h74, \h1f, \h4b, \hbd, \h8b, \h8a,
    \h70, \h3e, \hb5, \h66, \h48, \h03, \hf6, \h0e, \h61, \h35, \h57, \hb9, \h86, \hc1, \h1d, \h9e,
    \he1, \hf8, \h98, \h11, \h69, \hd9, \h8e, \h94, \h9b, \h1e, \h87, \he9, \hce, \h55, \h28, \hdf,
    \h8c, \ha1, \h89, \h0d, \hbf, \he6, \h42, \h68, \h41, \h99, \h2d, \h0f, \hb0, \h54, \hbb, \h16>>

\* NetUtility::InverseEncryptionBox.
InverseEncryptionBox ==
  <<\h52, \h09, \h6a, \hd5, \h30, \h36, \ha5, \h38, \hbf, \h40, \ha3, \h9e, \h81, \hf3, \hd7, \hfb,
    \h7c, \he3, \h39, \h82, \h9b, \h2f, \hff, \h87, \h34, \h8e, \h43, \h44, \hc4, \hde, \he9, \hcb,
    \h54, \h7b, \h94, \h32, \ha6, \hc2, \h23, \h3d, \hee, \h4c, \h95, \h0b, \h42, \hfa, \hc3, \h4e,
    \h08, \h2e, \ha1, \h66, \h28, \hd9, \h24, \hb2, \h76, \h5b, \ha2, \h49, \h6d, \h8b, \hd1, \h25,
    \h72, \hf8, \hf6, \h64, \h86, \h68, \h98, \h16, \hd4, \ha4, \h5c, \hcc, \h5d, \h65, \hb6, \h92,
    \h6c, \h70, \h48, \h50, \hfd, \hed, \hb9, \hda, \h5e, \h15, \h46, \h57, \ha7, \h8d, \h9d, \h84,
    \h90, \hd8, \hab, \h00, \h8c, \hbc, \hd3, \h0a, \hf7, \he4, \h58, \h05, \hb8, \hb3, \h45, \h06,
    \hd0, \h2c, \h1e, \h8f, \hca, \h3f, \h0f, \h02, \hc1, \haf, \hbd, \h03, \h01, \h13, \h8a, \h6b,
    \h3a, \h91, \h11, \h41, \h4f, \h67, \hdc, \hea, \h97, \hf2, \hcf, \hce, \hf0, \hb4, \he6, \h73,
    \h96, \hac, \h74, \h22, \he7, \had, \h35, \h85, \he2, \hf9, \h37, \he8, \h1c, \h75, \hdf, \h6e,
    \h47, \hf1, \h1a, \h71, \h1d, \h29, \hc5, \h89, \h6f, \hb7, \h62, \h0e, \haa, \h18, \hbe, \h1b,
    \hfc, \h56, \h3e, \h4b, \hc6, \hd2, \h79, \h20, \h9a, \hdb, \hc0, \hfe, \h78, \hcd, \h5a, \hf4,
    \h1f, \hdd, \ha8, \h33, \h88, \h07, \hc7, \h31, \hb1, \h12, \h10, \h59, \h27, \h80, \hec, \h5f,
    \h60, \h51, \h7f, \ha9, \h19, \hb5, \h4a, \h0d, \h2d, \he5, \h7a, \h9f, \h93, \hc9, \h9c, \hef,
    \ha0, \he0, \h3b, \h4d, \hae, \h2a, \hf5, \hb0, \hc8, \heb, \hbb, \h3c, \h83, \h53, \h99, \h61,
    \h17, \h2b, \h04, \h7e, \hba, \h77, \hd6, \h26, \he1, \h69, \h14, \h63, \h55, \h21, \h0c, \h7d>>

\* NetUtility::EncryptionRoundConstant, as far as it is used.
EncryptionRoundConstant ==
  <<\h8d, \h01, \h02, \h04, \h08, \h10, \h20, \h40, \h80, \h1b, \h36>>

\* The chunk with f(r, c) at row r and column c.
Chunk16(f(_, _)) ==
  << f(0,0), f(1,0), f(2,0), f(3,0), f(0,1), f(1,1), f(2,1), f(3,1),
     f(0,2), f(1,2), f(2,2), f(3,2), f(0,3), f(1,3), f(2,3), f(3,3) >>

Byte(state, r, c) == state[1 + r + 4 * c]

Substitute(box, bytes) == [k \in DOMAIN bytes |-> box[bytes[k] + 1]]

(***************************************************************************)
(* The steps of a round.                                                   *)
(***************************************************************************)
XorRoundKey(n, state) ==
  Chunk16(LAMBDA r, c : Byte(state, r, c) ^^ roundKey[4 * n + c + 1][r + 1])

SubBytes(state) == Substitute(EncryptionBox, state)
InverseSubBytes(state) == Substitute(InverseEncryptionBox, state)

ShiftRowsLeft(state) == Chunk16(LAMBDA r, c : Byte(state, r, (c + r) % 4))
ShiftRowsRight(state) == Chunk16(LAMBDA r, c : Byte(state, r, (c + 4 - r) % 4))

\* a << 1 in an unsigned char, and the rest of one turn of _gMul's loop.
Double(a) == IF a >= 128 THEN ((2 * a) % 256) ^^ 27 ELSE 2 * a

\* _gMul: the product of a and b in the field of AES.
gMul(a, b) ==
  LET turn(x, bit) == [p |-> IF (b \div bit) % 2 = 1 THEN x.p ^^ x.a ELSE x.p, a |-> Double(x.a)]
  IN  FoldLeft(turn, [p |-> 0, a |-> a], <<1, 2, 4, 8, 16, 32, 64, 128>>).p

\* Each byte becomes a sum of its column's, times the factors.
MixWith(factors, state) ==
  LET of(r, c, k) == gMul(factors[k + 1], Byte(state, (r + k) % 4, c))
  IN  Chunk16(LAMBDA r, c : (of(r, c, 0) ^^ of(r, c, 1)) ^^ (of(r, c, 2) ^^ of(r, c, 3)))

MixColumns(state) == MixWith(<<2, 3, 1, 1>>, state)
InverseMixColumns(state) == MixWith(<<14, 11, 13, 9>>, state)

(***************************************************************************)
(* Keys.  A round key is a sequence of words of four bytes.                *)
(***************************************************************************)
SubWord(word) == Substitute(EncryptionBox, word)

RotateWordLeft(word) == Tail(word) \o <<Head(word)>>

\* SetBitStrength: numIntegers is the length of the key in words.
NumRounds(numIntegers) == numIntegers + 6

xor(v, w) == <<v[1] ^^ w[1], v[2] ^^ w[2], v[3] ^^ w[3], v[4] ^^ w[4]>>

\* Mutated form of Temp: long keys are treated like short ones.
ShortTemp(i, numIntegers, before) ==
  IF i % numIntegers = 0
  THEN xor(SubWord(RotateWordLeft(before)), <<EncryptionRoundConstant[i \div numIntegers + 1], 0, 0, 0>>)
  ELSE before

\* What the word before word i, counted from 0, is turned into to get word i.
Temp(i, numIntegers, before) ==
  CASE i % numIntegers = 0 ->
         xor(SubWord(RotateWordLeft(before)), <<EncryptionRoundConstant[i \div numIntegers + 1], 0, 0, 0>>)
    [] numIntegers > 6 /\ i % numIntegers = 4 -> SubWord(before)
    [] OTHER -> before

\* The first words of the round key.
RECURSIVE Words(_, _)
Words(n, key) ==
  IF n <= Len(key) THEN SubSeq(key, 1, n)
  ELSE LET words == Words(n - 1, key)
       IN  Append(words, xor(words[n - Len(key)], Temp(n - 1, Len(key), words[n - 1])))

KeyExpansion(key) == Words(4 * (NumRounds(Len(key)) + 1), key)

(***************************************************************************)
(* An item works on a chunk.                                               *)
(***************************************************************************)
numRounds == Len(roundKey) \div 4 - 1

\* The key is expanded when it is made; the item takes a chunk.
NewChunk(key, data) ==
  /\ encrypt = "" /\ encrypt' = "yes"
  /\ roundKey' = KeyExpansion(key)
  /\ chunk' = data /\ round' = 0

Cipher ==
  /\ encrypt = "yes" /\ round <= numRounds
  /\ round' = round + 1
  /\ LET shifted == ShiftRowsLeft(SubBytes(chunk))
     IN  chunk' = CASE round = 0         -> XorRoundKey(0, chunk)
                    [] round = numRounds -> XorRoundKey(round, shifted)
                    [] OTHER             -> XorRoundKey(round, MixColumns(shifted))
  /\ UNCHANGED <<encrypt, roundKey>>

\* An item that decrypts takes the chunk.
TakeBack ==
  /\ encrypt = "yes" /\ round = numRounds + 1
  /\ encrypt' = "no" /\ round' = 0
  /\ UNCHANGED <<chunk, roundKey>>

\* r counts down to 1.
InverseCipher ==
  /\ encrypt = "no" /\ round <= numRounds
  /\ round' = round + 1
  /\ LET r == numRounds - round
         unshifted == InverseSubBytes(ShiftRowsRight(chunk))
     IN  chunk' = CASE round = 0 -> XorRoundKey(r, chunk)
                    [] r = 0     -> XorRoundKey(0, unshifted)
                    [] OTHER     -> InverseMixColumns(XorRoundKey(r, unshifted))
  /\ UNCHANGED <<encrypt, roundKey>>

(***************************************************************************)
(* The vectors of EncryptKey::TestClass, which encrypts and decrypts them. *)
(***************************************************************************)
TestData == << \h32, \h43, \hf6, \ha8, \h88, \h5a, \h30, \h8d, \h31, \h31, \h98, \ha2, \he0, \h37, \h07, \h34 >>

TestKey ==
  << <<\h2b, \h7e, \h15, \h16>>, <<\h28, \hae, \hd2, \ha6>>, <<\hab, \hf7, \h15, \h88>>, <<\h09, \hcf, \h4f, \h3c>>,
     <<\h76, \h2e, \h71, \h60>>, <<\hf3, \h8b, \h4d, \ha5>>, <<\h6a, \h78, \h4d, \h90>>, <<\h45, \h19, \h0c, \hfe>> >>

TestCiphers ==
  [numIntegers \in {4, 6, 8} |->
    CASE numIntegers = 4 -> << \h39, \h25, \h84, \h1d, \h02, \hdc, \h09, \hfb, \hdc, \h11, \h85, \h97, \h19, \h6a, \h0b, \h32 >>
      [] numIntegers = 6 -> << \hf9, \hfb, \h29, \hae, \hfc, \h38, \h4a, \h25, \h03, \h40, \hd8, \h33, \hb8, \h7e, \hbc, \h00 >>
      [] numIntegers = 8 -> << \h1a, \h6e, \h6c, \h2c, \h66, \h2e, \h7d, \ha6, \h50, \h1f, \hfb, \h62, \hbc, \h9e, \h93, \hf3 >>]

AesInit == chunk = <<>> /\ encrypt = "" /\ round = 0 /\ roundKey = <<>>

AesNext ==
  \/ \E numIntegers \in {4, 6, 8} : NewChunk(SubSeq(TestKey, 1, numIntegers), TestData)
  \/ Cipher \/ TakeBack \/ InverseCipher

\* Encryption gives the data that the tests of EncryptKey want for keys of 128, 192 and
\* 256 bits, and decryption takes it back to what it was.
CiphersAsTested ==
  /\ encrypt = "yes" /\ round = numRounds + 1 => chunk = TestCiphers[numRounds - 6]
  /\ encrypt = "no"  /\ round = numRounds + 1 => chunk = TestData
================================================================================
