---------------------- MODULE SessionOperations_proofs ----------------------
(***************************************************************************)
(* Proofs about the cryptographic operations of a session, for every       *)
(* length of blocks, chunks, tags, parts and buffers that does not wrap.   *)
(***************************************************************************)
EXTENDS SessionOperations, TLAPS
-----------------------------------------------------------------------------
(* Arithmetic on blocks *)

LEMMA BlockFacts ==
  /\ BlockSize \in Nat /\ BlockSize > 0
  /\ TagBytes \in Nat
  /\ ChunkSize \in Nat /\ ChunkSize > 0 /\ ChunkSize % BlockSize = 0
BY CipherAssumption

\* Division with remainder.
LEMMA Division ==
  ASSUME NEW x \in Nat
  PROVE  /\ x \div BlockSize \in Nat /\ x % BlockSize \in 0..(BlockSize - 1)
         /\ x = (x \div BlockSize) * BlockSize + (x % BlockSize)
BY BlockFacts

\* It is unique.
LEMMA Quotient ==
  ASSUME NEW q \in Nat, NEW r \in 0..(BlockSize - 1)
  PROVE  /\ q * BlockSize + r \in Nat
         /\ (q * BlockSize + r) \div BlockSize = q /\ (q * BlockSize + r) % BlockSize = r
BY BlockFacts

\* Whole blocks.
LEMMA WholeBlocks ==
  ASSUME NEW x \in Nat
  PROVE  /\ x % BlockSize = 0 <=> \E q \in Nat : x = q * BlockSize
         /\ x % BlockSize = 0 <=> x = (x \div BlockSize) * BlockSize
<1>1. \A q \in Nat : (q * BlockSize) % BlockSize = 0
  <2> TAKE q \in Nat
  <2>1. 0 \in 0..(BlockSize - 1) /\ q * BlockSize + 0 = q * BlockSize
    BY BlockFacts
  <2> QED BY <2>1, Quotient
<1>2. PICK q \in Nat, r \in 0..(BlockSize - 1) : q = x \div BlockSize /\ r = x % BlockSize /\ x = q * BlockSize + r
  BY Division
<1>3. q * BlockSize \in Nat
  BY BlockFacts
<1>4. r = 0 <=> x = q * BlockSize
  BY <1>2, <1>3, BlockFacts
<1> QED BY <1>1, <1>2, <1>4

LEMMA SumOfBlocks ==
  ASSUME NEW x \in Nat, NEW y \in Nat, x % BlockSize = 0
  PROVE  /\ (x + y) % BlockSize = y % BlockSize
         /\ ((x + y) \div BlockSize) * BlockSize = x + (y \div BlockSize) * BlockSize
<1>1. PICK p \in Nat : x = p * BlockSize
  BY WholeBlocks
<1>2. PICK q \in Nat, r \in 0..(BlockSize - 1) : q = y \div BlockSize /\ r = y % BlockSize /\ y = q * BlockSize + r
  BY Division
<1>3. x + y = (p + q) * BlockSize + r /\ p + q \in Nat
  BY <1>1, <1>2, BlockFacts
<1>4. (x + y) \div BlockSize = p + q /\ (x + y) % BlockSize = r
  BY <1>3, Quotient
<1>5. (p + q) * BlockSize = p * BlockSize + q * BlockSize
  BY BlockFacts
<1> QED BY <1>1, <1>2, <1>4, <1>5

\* Chunks are whole blocks.
LEMMA Chunks ==
  ASSUME NEW x \in Nat
  PROVE  /\ (x \div ChunkSize) * ChunkSize \in 0..x
         /\ ((x \div ChunkSize) * ChunkSize) % BlockSize = 0
<1>1. PICK q \in Nat : q = x \div ChunkSize /\ q * ChunkSize \in 0..x
  BY BlockFacts
<1>2. PICK m \in Nat : ChunkSize = m * BlockSize
  BY BlockFacts, WholeBlocks
<1>3. q * ChunkSize = (q * m) * BlockSize /\ q * m \in Nat /\ q * ChunkSize \in Nat
  BY <1>2, BlockFacts
<1> QED BY <1>1, <1>3, WholeBlocks
-----------------------------------------------------------------------------
(* What a cipher returns and holds back *)

\* Blocks of a number of bytes, and of one byte less.
LEMMA BlocksOf ==
  ASSUME NEW x \in Nat
  PROVE  /\ (x \div BlockSize) * BlockSize \in 0..x
         /\ ((x \div BlockSize) * BlockSize) % BlockSize = 0
         /\ x - (x \div BlockSize) * BlockSize < BlockSize
<1>1. PICK q \in Nat, r \in 0..(BlockSize - 1) : q = x \div BlockSize /\ x = q * BlockSize + r
  BY Division
<1>2. PICK b \in Nat : b = q * BlockSize
  BY BlockFacts
<1>3. b \in 0..x /\ x - b < BlockSize
  <2>1. x = b + r /\ r \in 0..(BlockSize - 1)
    BY <1>1, <1>2
  <2> QED BY <2>1, BlockFacts
<1>4. b % BlockSize = 0
  BY <1>2, WholeBlocks
<1>5. b = (x \div BlockSize) * BlockSize
  BY <1>1, <1>2
<1> QED BY <1>3, <1>4, <1>5

LEMMA EVPFacts ==
  ASSUME NEW c \in CipherType, NEW n \in Nat,
         c.mode \in {"ECB", "CBC", "CBC_PAD", "CTR", "GCM"}
  PROVE  /\ EVPUpdate(c, n) \in Nat
         /\ ~ isBlockCipher(c.mode) => EVPUpdate(c, n) = n
         /\ isBlockCipher(c.mode) =>
              /\ EVPUpdate(c, n) \in 0..(c.buffered + n) /\ EVPUpdate(c, n) % BlockSize = 0
              /\ IF c.mode = "CBC_PAD" /\ c.direction = "DECRYPT"
                 THEN c.buffered + n - EVPUpdate(c, n) <= BlockSize
                 ELSE c.buffered + n - EVPUpdate(c, n) < BlockSize
<1>1. PICK total \in Nat : total = c.buffered + n /\ c.buffered \in Nat
  BY DEF CipherType
<1>2. CASE ~ isBlockCipher(c.mode)
  BY <1>2 DEF EVPUpdate
<1>3. CASE isBlockCipher(c.mode) /\ ~ (c.mode = "CBC_PAD" /\ c.direction = "DECRYPT" /\ total > 0)
  <2>1. EVPUpdate(c, n) = (total \div BlockSize) * BlockSize
    BY <1>1, <1>3 DEF EVPUpdate, getPaddingMode
  <2>2. PICK e \in Nat : /\ e = (total \div BlockSize) * BlockSize /\ e \in 0..total
                         /\ e % BlockSize = 0 /\ total - e < BlockSize
    BY BlocksOf
  <2>3. EVPUpdate(c, n) = e
    BY <2>1, <2>2
  <2>4. c.buffered + n - e < BlockSize /\ c.buffered + n - e <= BlockSize /\ e \in 0..(c.buffered + n)
    BY <1>1, <2>2, BlockFacts
  <2> QED BY <1>3, <2>2, <2>3, <2>4
<1>4. CASE isBlockCipher(c.mode) /\ c.mode = "CBC_PAD" /\ c.direction = "DECRYPT" /\ total > 0
  <2>1. EVPUpdate(c, n) = ((total - 1) \div BlockSize) * BlockSize
    BY <1>1, <1>4 DEF EVPUpdate, getPaddingMode
  <2>2. total - 1 \in Nat
    BY <1>4
  <2>3. PICK e \in Nat : /\ e = ((total - 1) \div BlockSize) * BlockSize /\ e \in 0..(total - 1)
                         /\ e % BlockSize = 0 /\ (total - 1) - e < BlockSize
    BY <2>2, BlocksOf
  <2>4. EVPUpdate(c, n) = e
    BY <2>1, <2>3
  <2> QED BY <1>1, <1>4, <2>3, <2>4, BlockFacts
<1> QED BY <1>2, <1>3, <1>4

LEMMA PipeFacts ==
  ASSUME NEW c \in CipherType, NEW n \in Nat
  PROVE  /\ PipeWrite(c, n) \in 0..(c.buffered + n) /\ PipeWrite(c, n) % BlockSize = 0
         /\ PipeWrite(c, n) = 0 \/ PipeWrite(c, n) <= c.buffered + n - FinalMinimum(c)
<1>1. PICK total \in Int : total = c.buffered + n - FinalMinimum(c)
  BY BlockFacts DEF FinalMinimum, CipherType
<1>2. total <= c.buffered + n /\ c.buffered + n \in Nat
  BY <1>1, BlockFacts DEF FinalMinimum, CipherType
<1>3. CASE total >= ChunkSize
  <2>1. total \in Nat /\ PipeWrite(c, n) = (total \div ChunkSize) * ChunkSize
    BY <1>1, <1>3, BlockFacts DEF PipeWrite
  <2> QED BY <1>1, <1>2, <2>1, Chunks
<1>4. CASE ~ (total >= ChunkSize)
  <2>1. PipeWrite(c, n) = 0
    BY <1>1, <1>4 DEF PipeWrite
  <2>2. 0 % BlockSize = 0
    BY BlockFacts
  <2> QED BY <1>2, <2>1, <2>2
<1> QED BY <1>3, <1>4

\* An Update keeps what BufferOK says.
LEMMA EmittedFacts ==
  ASSUME NEW c \in CipherType, NEW n \in Nat, ModeOK(c)
  PROVE  /\ Emitted(c, n) \in 0..(c.buffered + n) \/ (~ isBlockCipher(c.mode) /\ Emitted(c, n) = n)
         /\ Emitted(c, n) \in Nat
         /\ isBlockCipher(c.mode) => Emitted(c, n) % BlockSize = 0
         /\ c.class = "EVP" =>
              Emitted(c, n) = IF c.mode = "GCM" /\ c.direction = "DECRYPT" THEN 0 ELSE EVPUpdate(c, n)
         /\ c.class = "Pipe" => Emitted(c, n) \in {0, PipeWrite(c, n)}
         /\ c.class \notin {"EVP", "Pipe"} => Emitted(c, n) = 0
<1>0. c.direction \in {"ENCRYPT", "DECRYPT"} /\ c.buffered \in Nat /\ 0 % BlockSize = 0
  BY BlockFacts DEF CipherType, Directions
<1>1. CASE c.class = "EVP"
  <2>1. c.mode \in {"ECB", "CBC", "CBC_PAD", "CTR", "GCM"}
    BY <1>1 DEF ModeOK
  <2>2. Emitted(c, n) = IF c.mode = "GCM" /\ c.direction = "DECRYPT" THEN 0 ELSE EVPUpdate(c, n)
    BY <1>0, <1>1 DEF Emitted, OSSLEVPSymmetricAlgorithm_encryptUpdate, OSSLEVPSymmetricAlgorithm_decryptUpdate
  <2> QED BY <1>0, <1>1, <2>1, <2>2, EVPFacts DEF isBlockCipher
<1>2. CASE c.class = "Pipe"
  <2>1. Emitted(c, n) \in {0, PipeWrite(c, n)}
    BY <1>0, <1>2 DEF Emitted, BotanSymmetricAlgorithm_encryptUpdate, BotanSymmetricAlgorithm_decryptUpdate
  <2> QED BY <1>0, <1>2, <2>1, PipeFacts
<1>3. CASE c.class \notin {"EVP", "Pipe"}
  <2>1. Emitted(c, n) = 0
    BY <1>3 DEF Emitted
  <2> QED BY <1>0, <1>3, <2>1
<1> QED BY <1>1, <1>2, <1>3

LEMMA UpdateKeeps ==
  ASSUME NEW c \in CipherType, NEW n \in Nat, NEW given \in Nat, NEW got \in Nat,
         ModeOK(c), BufferOK(c, given, got)
  PROVE  /\ Updated(c, n) \in CipherType /\ ModeOK(Updated(c, n))
         /\ Updated(c, n).direction = c.direction /\ Updated(c, n).mode = c.mode
         /\ BufferOK(Updated(c, n), given + n, got + Emitted(c, n))
<1> DEFINE d == Updated(c, n)
<1>1. /\ d.class = c.class /\ d.mode = c.mode /\ d.direction = c.direction
      /\ d.buffered = c.buffered + n - Emitted(c, n)
  BY DEF Updated, CipherType
<1>2. PICK e \in Nat : e = Emitted(c, n)
  BY EmittedFacts
<1>3. d.buffered \in Nat /\ c.buffered \in Nat
  BY <1>1, <1>2, EmittedFacts DEF CipherType
<1>4. d \in CipherType
  <2>1. (IF c.maximumBytes # NoLimit THEN c.counterBytes + n ELSE c.counterBytes) \in Nat
    BY DEF CipherType
  <2>2. c.buffered + n - Emitted(c, n) \in Nat
    BY <1>1, <1>3
  <2> QED BY <2>1, <2>2 DEF CipherType, Updated
<1>5. ModeOK(d)
  BY <1>1 DEF ModeOK
<1>6. (got + e) + d.buffered = given + n
  BY <1>1, <1>2, <1>3 DEF BufferOK
<1>7. isBlockCipher(d.mode) => (got + e) % BlockSize = 0
  <2> HAVE isBlockCipher(d.mode)
  <2>1. got % BlockSize = 0 /\ e % BlockSize = 0
    BY <1>1, <1>2, EmittedFacts DEF BufferOK
  <2> QED BY <1>2, <2>1, SumOfBlocks
<1>8. ASSUME d.class = "EVP"
      PROVE  CASE d.mode = "GCM" -> d.direction = "ENCRYPT" => d.buffered = 0
         [] d.mode = "CTR" -> d.buffered = 0
         [] d.mode = "CBC_PAD" /\ d.direction = "DECRYPT" -> d.buffered <= BlockSize
         [] OTHER -> d.buffered < BlockSize
  <2>1. c.mode \in {"ECB", "CBC", "CBC_PAD", "CTR", "GCM"} /\ c.class = "EVP"
    BY <1>1, <1>8 DEF ModeOK
  <2>2. CASE c.mode \in {"GCM", "CTR"}
    <3>1. c.mode = "CTR" \/ c.direction = "ENCRYPT" => c.buffered = 0
      BY <2>1, <2>2 DEF BufferOK
    <3>2. c.mode = "CTR" \/ c.direction = "ENCRYPT" => Emitted(c, n) = n
      BY <2>1, <2>2, EmittedFacts, EVPFacts DEF isBlockCipher
    <3> QED BY <1>1, <2>2, <3>1, <3>2
  <2>3. CASE c.mode \notin {"GCM", "CTR"}
    <3>1. isBlockCipher(c.mode) /\ Emitted(c, n) = EVPUpdate(c, n)
      BY <2>1, <2>3, EmittedFacts DEF isBlockCipher
    <3> QED BY <1>1, <2>1, <2>3, <3>1, EVPFacts
  <2> QED BY <2>2, <2>3
<1> HIDE DEF d
<1> QED BY <1>1, <1>2, <1>4, <1>5, <1>6, <1>7, <1>8 DEF BufferOK, d
-----------------------------------------------------------------------------
(* What is announced *)

LEMMA PowerFacts ==
  /\ 2^ULongBits \in Nat /\ 2^IntBits \in Nat /\ 2^(IntBits - 1) \in Nat
  /\ 2^(IntBits - 1) > 0 /\ 2^(IntBits - 1) < 2^IntBits /\ 2^IntBits <= 2^ULongBits
  /\ MaxGiven \in Nat /\ MaxGiven < 2^(IntBits - 1)
<1>1. 2^ULongBits \in Int
  BY CipherAssumption
<1> QED BY <1>1, PowerAssumption, LengthAssumption

\* No wrap within the bounds; none below zero either way.
LEMMA Widths ==
  /\ \A x \in Int : ULong(x) \in Nat
  /\ \A x \in 0..MaxGiven : ULong(x) = x /\ ToInt(x) = x
  /\ \A x \in Int : ToInt(x) \in Int
<1>1. PICK u \in Nat, i \in Nat, h \in Nat :
        u = 2^ULongBits /\ i = 2^IntBits /\ h = 2^(IntBits - 1) /\ h > 0 /\ h < i /\ i <= u /\ MaxGiven < h
  BY PowerFacts
<1>2. \A x \in Int : x % u \in Nat /\ x % i \in Nat
  BY <1>1
<1>3. \A x \in 0..MaxGiven : x % u = x /\ x % i = x /\ ~ (x >= h)
  BY <1>1, PowerFacts
<1> QED BY <1>1, <1>2, <1>3 DEF ULong, ToInt

\* A buffer as long as announced has room for what an Update returns.
LEMMA UpdateFits ==
  ASSUME NEW c \in CipherType, NEW n \in Nat, NEW given \in Nat, NEW got \in Nat,
         ModeOK(c), BufferOK(c, given, got), given + n <= MaxGiven
  PROVE  Emitted(c, n) <= UpdateSize(c, n)
<1>1. PICK total \in Nat : total = c.buffered + n /\ total <= MaxGiven /\ c.buffered \in Nat
  BY PowerFacts DEF CipherType, BufferOK
<1>2. PICK e \in Nat : e = Emitted(c, n)
  BY EmittedFacts
<1>3. CASE ~ isBlockCipher(c.mode)
  <2>1. UpdateSize(c, n) = n + c.buffered
    BY <1>3 DEF UpdateSize
  <2> QED BY <1>1, <1>2, <1>3, <2>1, EmittedFacts
<1>4. CASE isBlockCipher(c.mode)
  <2> DEFINE adjust == IF getPaddingMode(c.mode) /\ c.direction = "DECRYPT" THEN 1 ELSE 0
             y == total - adjust
             blocks == ToInt(ULong(y) \div BlockSize)
  <2>1. UpdateSize(c, n) = ULong(blocks * BlockSize) /\ adjust \in {0, 1}
    <3>1. n + c.buffered - adjust = y
      BY <1>1
    <3> QED BY <1>4, <3>1 DEF UpdateSize
  <2>2. e \in 0..total /\ e % BlockSize = 0
    BY <1>1, <1>2, <1>4, EmittedFacts
  <2>3. adjust = 1 /\ total > 0 => e <= total - 1
    <3> HAVE adjust = 1 /\ total > 0
    <3>1. c.mode = "CBC_PAD" /\ c.direction = "DECRYPT"
      BY DEF getPaddingMode
    <3>2. CASE c.class = "EVP"
      <4>1. total - 1 \in Nat
        OBVIOUS
      <4>2. EVPUpdate(c, n) = ((total - 1) \div BlockSize) * BlockSize
        BY <1>1, <1>4, <3>1 DEF EVPUpdate, getPaddingMode
      <4>3. ((total - 1) \div BlockSize) * BlockSize \in 0..(total - 1)
        BY <4>1, BlocksOf
      <4> QED BY <1>2, <3>1, <3>2, <4>2, <4>3, EmittedFacts
    <3>3. CASE c.class = "Pipe"
      <4>1. FinalMinimum(c) = BlockSize
        BY <3>1 DEF FinalMinimum
      <4>2. PipeWrite(c, n) = 0 \/ PipeWrite(c, n) <= c.buffered + n - FinalMinimum(c)
        BY PipeFacts
      <4>3. e = 0 \/ e = PipeWrite(c, n)
        BY <1>2, <3>3, EmittedFacts
      <4>4. e = 0 \/ e <= total - BlockSize
        BY <1>1, <4>1, <4>2, <4>3, BlockFacts
      <4> QED BY <4>4, BlockFacts
    <3>4. CASE c.class \notin {"EVP", "Pipe"}
      BY <1>2, <3>4, EmittedFacts
    <3> QED BY <3>2, <3>3, <3>4
  <2>4. CASE adjust = 1 /\ total = 0
    <3>1. e = 0
      BY <2>2, <2>4
    <3>2. y \in Int
      BY <2>4
    <3>3. ULong(y) \in Nat
      BY <3>2, Widths
    <3>4. ULong(y) \div BlockSize \in Int
      BY <3>3, Division
    <3>5. blocks \in Int
      BY <3>4, Widths
    <3>6. blocks * BlockSize \in Int
      BY <3>5, BlockFacts
    <3>7. ULong(blocks * BlockSize) \in Nat
      BY <3>6, Widths
    <3> QED BY <1>2, <2>1, <3>1, <3>7
  <2>5. CASE ~ (adjust = 1 /\ total = 0)
    <3>1. y \in 0..MaxGiven /\ y \in Nat /\ e <= y
      <4>1. (adjust = 0 /\ y = total) \/ (adjust = 1 /\ total > 0 /\ y = total - 1)
        BY <2>1, <2>5
      <4> HIDE DEF adjust, y
      <4> QED BY <1>1, <2>2, <2>3, <4>1, PowerFacts
    <3> HIDE DEF adjust, y
    <3>2. ULong(y) = y
      BY <3>1, Widths, Zenon
    <3>3. PICK q \in Nat, r \in 0..(BlockSize - 1) : q = y \div BlockSize /\ y = q * BlockSize + r
      BY <3>1, Division
    <3>4. q \in 0..MaxGiven
      BY <3>1, <3>3, BlockFacts, PowerFacts
    <3>5. blocks = q
      BY <3>2, <3>3, <3>4, Widths
    <3>6. q * BlockSize \in 0..MaxGiven
      BY <3>1, <3>3, BlockFacts, PowerFacts
    <3>7. UpdateSize(c, n) = q * BlockSize
      BY <2>1, <3>5, <3>6, Widths
    <3>8. PICK k \in Nat : e = k * BlockSize
      BY <2>2, WholeBlocks
    <3>9. k <= q
      BY <3>1, <3>3, <3>8, BlockFacts
    <3> QED BY <1>2, <3>7, <3>8, <3>9, BlockFacts
  <2> QED BY <2>4, <2>5
<1> QED BY <1>3, <1>4

\* Whole, Padded and Unpadded.
LEMMA Paddings ==
  ASSUME NEW x \in Nat
  PROVE  /\ Padded(x) \in Nat /\ Padded(x) = ((x + BlockSize) \div BlockSize) * BlockSize
         /\ \A y \in Unpadded(x) : x > 0 /\ x % BlockSize = 0 /\ y \in (x - BlockSize)..(x - 1) /\ y \in Nat
<1>1. PICK q \in Nat, r \in 0..(BlockSize - 1) : q = x \div BlockSize /\ x = q * BlockSize + r /\ r = x % BlockSize
  BY Division
<1>2. x + BlockSize = (q + 1) * BlockSize + r /\ q + 1 \in Nat
  BY <1>1, BlockFacts
<1>3. (x + BlockSize) \div BlockSize = q + 1
  BY <1>2, Quotient
<1>4. Padded(x) = q * BlockSize + BlockSize /\ q * BlockSize \in Nat /\ (q + 1) * BlockSize = q * BlockSize + BlockSize
  BY <1>1, BlockFacts DEF Padded
<1>5. ASSUME NEW y \in Unpadded(x)
      PROVE  x > 0 /\ x % BlockSize = 0 /\ y \in (x - BlockSize)..(x - 1) /\ y \in Nat
  <2>1. x > 0 /\ x % BlockSize = 0 /\ y \in (x - BlockSize)..(x - 1)
    BY DEF Unpadded, Whole
  <2>2. x = q * BlockSize /\ q > 0
    BY <1>1, <2>1, BlockFacts
  <2>3. x >= BlockSize
    BY <2>2, BlockFacts
  <2> QED BY <2>1, <2>3, BlockFacts
<1> QED BY <1>3, <1>4, <1>5, BlockFacts

\* What the final call of each class returns.
LEMMA FinalCases ==
  ASSUME NEW c \in CipherType, ModeOK(c), NEW last \in FinalLengths(c)
  PROVE  \/ /\ isAEAD(c.mode) /\ c.direction = "ENCRYPT"
            /\ last = IF c.class = "EVP" THEN TagBytes ELSE c.buffered + TagBytes
         \/ isAEAD(c.mode) /\ c.direction = "DECRYPT" /\ c.buffered >= TagBytes /\ last = c.buffered - TagBytes
         \/ /\ c.mode = "CBC_PAD" /\ c.direction = "ENCRYPT"
            /\ last = IF c.class = "EVP" THEN BlockSize ELSE Padded(c.buffered)
         \/ /\ c.mode = "CBC_PAD" /\ c.direction = "DECRYPT"
            /\ IF c.class = "EVP" THEN c.buffered = BlockSize /\ last \in 0..(BlockSize - 1)
               ELSE last \in Unpadded(c.buffered)
         \/ /\ c.mode \in {"ECB", "CBC"}
            /\ IF c.class = "EVP" THEN c.buffered = 0 /\ last = 0 ELSE Whole(c.buffered) /\ last = c.buffered
         \/ /\ c.mode \in {"CTR", "CFB", "CTR_ACPKM"}
            /\ last = IF c.class = "EVP" THEN 0 ELSE c.buffered
<1>1. c.direction \in {"ENCRYPT", "DECRYPT"} /\ c.buffered \in Nat
  BY DEF CipherType, Directions
<1>2. CASE c.class = "EVP"
  <2>1. c.mode \in {"ECB", "CBC", "CBC_PAD", "CTR", "GCM"}
    BY <1>2 DEF ModeOK
  <2>2. CASE c.direction = "ENCRYPT"
    <3>1. last \in EVPEncryptFinal(c)
      BY <1>2, <2>2 DEF FinalLengths
    <3> QED BY <1>2, <2>1, <2>2, <3>1 DEF EVPEncryptFinal, isBlockCipher, isAEAD
  <2>3. CASE c.direction = "DECRYPT"
    <3>1. last \in EVPDecryptFinal(c)
      BY <1>2, <2>3 DEF FinalLengths
    <3> QED BY <1>2, <2>1, <2>3, <3>1 DEF EVPDecryptFinal, isBlockCipher, isAEAD
  <2> QED BY <1>1, <2>2, <2>3
<1>3. CASE c.class = "Pipe"
  <2>1. c.mode \in {"ECB", "CBC", "CBC_PAD", "CTR", "GCM"}
    BY <1>3 DEF ModeOK
  <2>2. CASE c.direction = "ENCRYPT"
    <3>1. last \in PipeEncryptFinal(c)
      BY <1>3, <2>2 DEF FinalLengths
    <3> QED BY <1>3, <2>1, <2>2, <3>1 DEF PipeEncryptFinal, isBlockCipher, isAEAD
  <2>3. CASE c.direction = "DECRYPT"
    <3>1. last \in PipeDecryptFinal(c)
      BY <1>3, <2>3 DEF FinalLengths
    <3> QED BY <1>3, <2>1, <2>3, <3>1 DEF PipeDecryptFinal, isBlockCipher, isAEAD
  <2> QED BY <1>1, <2>2, <2>3
<1>4. CASE c.class = "GOST28147"
  <2>1. c.mode \in {"ECB", "CFB", "CBC_PAD"} /\ last \in GOST28147Algorithm_finish(c)
    BY <1>4 DEF ModeOK, FinalLengths
  <2> QED BY <1>1, <1>4, <2>1 DEF GOST28147Algorithm_finish
<1>5. CASE c.class = "GOSTSymmetric"
  <2>1. c.mode \in {"ECB", "CTR_ACPKM", "MGM"} /\ last \in GOSTSymmetricAlgorithm_finish(c)
    BY <1>5 DEF ModeOK, FinalLengths
  <2> QED BY <1>1, <1>5, <2>1, BlockFacts DEF GOSTSymmetricAlgorithm_finish, isAEAD
<1> QED BY <1>2, <1>3, <1>4, <1>5 DEF ModeOK

\* A buffer as long as announced has room for what the final call returns.
LEMMA FinalFits ==
  ASSUME NEW c \in CipherType, ModeOK(c), NEW last \in FinalLengths(c), c.buffered <= MaxGiven
  PROVE  last \in Nat /\ last <= FinalSize(c)
<1>1. PICK b \in Nat : b = c.buffered /\ b <= MaxGiven
  BY DEF CipherType
<1>2. CASE isAEAD(c.mode)
  <2>1. FinalSize(c) = IF c.direction = "ENCRYPT" THEN b + TagBytes ELSE b
    BY <1>1, <1>2, BlockFacts DEF FinalSize, Remaining, getTagBytes, isAEAD, isBlockCipher
  <2> QED BY <1>1, <1>2, <2>1, FinalCases, BlockFacts DEF isAEAD
<1>3. CASE c.mode \in {"ECB", "CBC", "CTR", "CFB", "CTR_ACPKM"}
  <2>1. FinalSize(c) = b
    BY <1>1, <1>3, BlockFacts DEF FinalSize, Remaining, getTagBytes, isAEAD, isBlockCipher, getPaddingMode
  <2> QED BY <1>1, <1>3, <2>1, FinalCases, BlockFacts DEF isAEAD
<1>4. CASE c.mode = "CBC_PAD" /\ c.direction = "ENCRYPT"
  <2>1. FinalSize(c) = ((b + BlockSize) \div BlockSize) * BlockSize
    BY <1>1, <1>4, BlockFacts DEF FinalSize, Remaining, getTagBytes, isAEAD, isBlockCipher, getPaddingMode
  <2>2. FinalSize(c) = Padded(b) /\ Padded(b) \in Nat
    BY <2>1, Paddings
  <2>3. BlockSize <= Padded(b)
    BY BlocksOf, BlockFacts DEF Padded
  <2> QED BY <1>1, <1>4, <2>2, <2>3, FinalCases, BlockFacts DEF isAEAD
<1>5. CASE c.mode = "CBC_PAD" /\ c.direction = "DECRYPT"
  <2>1. FinalSize(c) = ULong(b - 1)
    BY <1>1, <1>5, BlockFacts DEF FinalSize, Remaining, getTagBytes, isAEAD, isBlockCipher, getPaddingMode
  <2>2. b > 0 /\ last \in Nat /\ last <= b - 1
    BY <1>1, <1>5, FinalCases, Paddings, BlockFacts DEF isAEAD
  <2>3. b - 1 \in 0..MaxGiven
    BY <1>1, <2>2, PowerFacts
  <2> QED BY <2>1, <2>2, <2>3, Widths
<1> QED BY <1>2, <1>3, <1>4, <1>5 DEF ModeOK, isAEAD, CipherType, Directions
-----------------------------------------------------------------------------
(* What an operation returns in all *)

LEMMA FinalComplete ==
  ASSUME NEW c \in CipherType, NEW given \in Nat, NEW got \in Nat,
         ModeOK(c), BufferOK(c, given, got), NEW last \in FinalLengths(c)
  PROVE  got + last \in Expected(c, given)
<1>1. PICK b \in Nat : b = c.buffered /\ got + b = given
  BY DEF CipherType, BufferOK
<1>2. c.direction \in {"ENCRYPT", "DECRYPT"}
  BY DEF CipherType, Directions
<1>3. CASE isAEAD(c.mode)
  <2>1. c.class = "EVP" /\ c.direction = "ENCRYPT" => b = 0
    BY <1>1, <1>3 DEF BufferOK, ModeOK, isAEAD
  <2>2. \/ c.direction = "ENCRYPT" /\ last = b + TagBytes
        \/ c.direction = "DECRYPT" /\ last = b - TagBytes
    BY <1>1, <1>2, <1>3, <2>1, FinalCases, BlockFacts DEF isAEAD
  <2>3. \/ c.direction = "ENCRYPT" /\ got + last = given + TagBytes
        \/ c.direction = "DECRYPT" /\ got + last = given - TagBytes
    BY <1>1, <2>2, BlockFacts
  <2> QED BY <1>3, <2>3 DEF Expected, isAEAD
<1>4. CASE c.mode \in {"CTR", "CFB", "CTR_ACPKM"}
  <2>1. c.class = "EVP" => b = 0
    BY <1>1, <1>4 DEF BufferOK, ModeOK
  <2>2. last = b
    BY <1>1, <1>4, <2>1, FinalCases DEF isAEAD
  <2> QED BY <1>1, <1>4, <2>2 DEF Expected, isAEAD
<1>5. CASE c.mode \in {"ECB", "CBC"}
  <2>1. last = b /\ b % BlockSize = 0
    BY <1>1, <1>5, FinalCases, BlockFacts DEF isAEAD, Whole
  <2>2. given % BlockSize = 0
    BY <1>1, <1>5, <2>1, SumOfBlocks DEF BufferOK, isBlockCipher
  <2> QED BY <1>1, <1>5, <2>1, <2>2 DEF Expected, isAEAD
<1>6. CASE c.mode = "CBC_PAD" /\ c.direction = "ENCRYPT"
  <2>1. (given \div BlockSize) * BlockSize = got + (b \div BlockSize) * BlockSize
    BY <1>1, <1>6, SumOfBlocks DEF BufferOK, isBlockCipher
  <2>2. last = (b \div BlockSize) * BlockSize + BlockSize
    <3>1. CASE c.class = "EVP"
      <4>1. last = BlockSize
        BY <1>6, <3>1, FinalCases DEF isAEAD
      <4>2. b \in 0..(BlockSize - 1)
        BY <1>1, <1>6, <3>1, BlockFacts DEF BufferOK
      <4>3. b \div BlockSize = 0
        BY <4>2, BlockFacts
      <4> QED BY <4>1, <4>3, BlockFacts
    <3>2. CASE c.class # "EVP"
      BY <1>1, <1>6, <3>2, FinalCases DEF isAEAD, Padded
    <3> QED BY <3>1, <3>2
  <2>3. (b \div BlockSize) * BlockSize \in Nat
    BY Division, BlockFacts
  <2>4. got + last = (given \div BlockSize) * BlockSize + BlockSize
    BY <2>1, <2>2, <2>3, BlockFacts
  <2> QED BY <1>6, <2>4 DEF Expected, isAEAD
<1>7. CASE c.mode = "CBC_PAD" /\ c.direction = "DECRYPT"
  <2>1. last \in (b - BlockSize)..(b - 1) /\ b % BlockSize = 0
    <3>1. CASE c.class = "EVP"
      <4>1. b = BlockSize /\ last \in 0..(BlockSize - 1)
        BY <1>1, <1>7, <3>1, FinalCases DEF isAEAD
      <4> QED BY <4>1, BlockFacts
    <3>2. CASE c.class # "EVP"
      <4>1. last \in Unpadded(b)
        BY <1>1, <1>7, <3>2, FinalCases DEF isAEAD
      <4> QED BY <4>1, Paddings
    <3> QED BY <3>1, <3>2
  <2>2. given % BlockSize = 0
    BY <1>1, <1>7, <2>1, SumOfBlocks DEF BufferOK, isBlockCipher
  <2>3. got + last \in (given - BlockSize)..(given - 1)
    BY <1>1, <2>1, BlockFacts
  <2> QED BY <1>7, <2>2, <2>3 DEF Expected, isAEAD
<1> QED BY <1>2, <1>3, <1>4, <1>5, <1>6, <1>7 DEF ModeOK, isAEAD

\* SymEncrypt and SymDecrypt, when nothing was given before.
LEMMA SingleComplete ==
  ASSUME NEW c \in CipherType, NEW n \in Nat, ModeOK(c), BufferOK(c, 0, 0),
         SingleLengthOK(c, n), NEW last \in FinalLengths(Updated(c, n))
  PROVE  (IF c.direction = "ENCRYPT" \/ Emitted(c, n) + last > SingleSize(c, n)
          THEN SingleSize(c, n) ELSE Emitted(c, n) + last) \in Expected(Updated(c, n), n)
<1>1. PICK d \in CipherType : /\ d = Updated(c, n) /\ ModeOK(d) /\ d.direction = c.direction /\ d.mode = c.mode
                              /\ BufferOK(d, 0 + n, 0 + Emitted(c, n))
  BY UpdateKeeps
<1>2. PICK e \in Nat : e = Emitted(c, n) /\ 0 + e = e
  BY EmittedFacts
<1>3. e + last \in Expected(d, n)
  BY <1>1, <1>2, FinalComplete
<1>4. \A m : Expected(d, m) = Expected(c, m)
  BY <1>1 DEF Expected, isAEAD
<1>5. c.direction \in {"ENCRYPT", "DECRYPT"}
  BY DEF CipherType, Directions
<1>6. CASE c.direction = "DECRYPT"
  <2>1. SingleSize(c, n) = n
    BY <1>6 DEF SingleSize
  <2>2. Expected(c, n) \subseteq {n, n - TagBytes} \union ((n - BlockSize)..(n - 1))
    BY <1>6 DEF Expected, ModeOK, isAEAD
  <2>3. ~ (e + last > n)
    BY <1>3, <1>4, <2>2, BlockFacts
  <2> QED BY <1>1, <1>2, <1>3, <1>6, <2>1, <2>3
<1>7. CASE c.direction = "ENCRYPT"
  <2>1. SingleSize(c, n) \in Expected(c, n)
    <3>1. CASE ~ isBlockCipher(c.mode)
      <4>1. SingleSize(c, n) = n + getTagBytes(c.mode)
        BY <1>7, <3>1 DEF SingleSize
      <4>2. CASE isAEAD(c.mode)
        BY <1>7, <4>1, <4>2 DEF getTagBytes, Expected, isAEAD
      <4>3. CASE ~ isAEAD(c.mode)
        <5>1. SingleSize(c, n) = n /\ c.mode \in {"CTR", "CFB", "CTR_ACPKM"}
          BY <3>1, <4>1, <4>3 DEF getTagBytes, ModeOK, isAEAD, isBlockCipher
        <5> QED BY <5>1 DEF Expected, isAEAD
      <4> QED BY <4>2, <4>3
    <3>2. CASE c.mode \in {"ECB", "CBC"}
      <4>1. n % BlockSize = 0
        BY <3>2 DEF SingleLengthOK, isBlockCipher, getPaddingMode
      <4>2. SingleSize(c, n) = n
        BY <1>7, <3>2, <4>1 DEF SingleSize, isBlockCipher, getPaddingMode, getTagBytes, isAEAD
      <4> QED BY <3>2, <4>1, <4>2 DEF Expected, isAEAD
    <3>3. CASE c.mode = "CBC_PAD"
      <4>1. PICK q \in Nat, r \in 0..(BlockSize - 1) :
              q = n \div BlockSize /\ r = n % BlockSize /\ n = q * BlockSize + r
        BY Division
      <4>2. SingleSize(c, n) = IF r # 0 THEN n + BlockSize - r ELSE n + BlockSize
        BY <1>7, <3>3, <4>1 DEF SingleSize, isBlockCipher, getPaddingMode
      <4>3. SingleSize(c, n) = q * BlockSize + BlockSize
        BY <4>1, <4>2, BlockFacts
      <4> QED BY <1>7, <3>3, <4>1, <4>3 DEF Expected, isAEAD
    <3> QED BY <3>1, <3>2, <3>3 DEF isBlockCipher
  <2> QED BY <1>1, <1>4, <1>7, <2>1
<1> QED BY <1>5, <1>6, <1>7

\* The counter block.
LEMMA CounterKept ==
  ASSUME NEW c \in CipherType, NEW n \in Nat, ModeOK(c), CounterOK(c), checkMaximumBytes(c, n)
  PROVE  CounterOK(Updated(c, n))
<1>1. /\ Updated(c, n).mode = c.mode /\ Updated(c, n).counter = c.counter
      /\ Updated(c, n).maximumBytes = c.maximumBytes
      /\ Updated(c, n).counterBytes = IF c.maximumBytes # NoLimit THEN c.counterBytes + n ELSE c.counterBytes
  BY DEF Updated, CipherType
<1>2. c.mode = "CTR" => c.class # "GOSTSymmetric"
  BY DEF ModeOK
<1> QED BY <1>1, <1>2 DEF CounterOK, checkMaximumBytes, checkCounterBytes

LEMMA CounterHasRoom ==
  ASSUME NEW c \in CipherType, CounterOK(c), c.mode = "CTR"
  PROVE  BlockSize * c.counter + c.counterBytes <= BlockSize * 2^CounterBits
<1>1. PICK k \in Nat, b \in Nat, p \in Nat :
        k = c.counter /\ b = c.counterBytes /\ p = 2^CounterBits /\ b <= (p - k) * BlockSize
  BY PowerAssumption DEF CipherType, CounterOK
<1>2. (p - k) * BlockSize = BlockSize * p - BlockSize * k
  BY BlockFacts
<1> QED BY <1>1, <1>2, BlockFacts
-----------------------------------------------------------------------------
(* The session *)

\* resetOp looks at one pointer only, and leaves nothing.
LEMMA ResetLeavesNothing ==
  ASSUME NEW s \in SessionType, HasEngine(s)
  PROVE  /\ resetOp(s) \in SessionType
         /\ resetOp(s).operation = "NONE" /\ resetOp(s).engines = {} /\ resetOp(s).keys = {}
         /\ ~ resetOp(s).mechanismParam
         /\ HasEngine(resetOp(s))
<1>2. PICK first : first = FirstEngine(s.engines)
  OBVIOUS
<1>3. s.engines \ {first.engine} = {} /\ s.keys \ first.keys = {}
  BY <1>2 DEF FirstEngine, HasEngine
<1>4. resetOp(s) = [s EXCEPT !.operation = "NONE", !.reAuthentication = FALSE, !.mechanismParam = FALSE,
                            !.engines = {}, !.keys = {}]
  BY <1>2, <1>3 DEF resetOp
<1>5. resetOp(s) \in SessionType
  BY <1>4 DEF SessionType, Operations
<1>6. /\ resetOp(s).operation = "NONE" /\ resetOp(s).engines = {} /\ resetOp(s).keys = {}
      /\ ~ resetOp(s).mechanismParam
  BY <1>4 DEF SessionType
<1> QED BY <1>5, <1>6 DEF HasEngine

LEMMA NoCipherType ==
  NoCipher \in CipherType /\ NoCipher.mode = "ECB" /\ CounterOK(NoCipher)
BY DEF NoCipher, Cipher, CipherType, Classes, Modes, Directions, NoLimit, CounterOK

LEMMA StartedType ==
  ASSUME NEW always \in BOOLEAN
  PROVE  /\ Started(always) \in HistoryType /\ Started(always).asked = always
         /\ Started(always).given = 0 /\ Started(always).got = 0
         /\ Started(always).parts = FALSE /\ Started(always).answered = FALSE
BY DEF Started, HistoryType

LEMMA EndInv ==
  ASSUME Inv, NEW answer \in ReplyType, answer.rv # "TOO_MUCH_DATA", End(answer), UNCHANGED library
  PROVE  Inv'
<1>1. /\ session' = resetOp(session) /\ cipher' = NoCipher /\ reply' = answer
      /\ history' = Started(FALSE) /\ UNCHANGED <<user, running, finished, library>>
  BY DEF End
<1>2. /\ session' \in SessionType /\ session'.engines = {} /\ HasEngine(session')
  BY <1>1, ResetLeavesNothing DEF Inv, TypeOK, OperationHasEngine
<1>3. TypeOK'
  BY <1>1, <1>2, NoCipherType, StartedType DEF Inv, TypeOK, ReplyType
<1>4. OperationHasEngine'
  BY <1>2 DEF OperationHasEngine
<1>5. LoginAwaited'
  BY <1>1, StartedType DEF LoginAwaited
<1>6. CipherOK'
  BY <1>2 DEF CipherOK
<1>7. OutputComplete' /\ CounterOK(finished.cipher)'
  BY <1>1 DEF Inv, OutputComplete
<1>8. NeverTooMuchData' /\ CounterOK(cipher)'
  BY <1>1, NoCipherType DEF NeverTooMuchData
<1> QED BY <1>3, <1>4, <1>5, <1>6, <1>7, <1>8 DEF Inv

LEMMA StayInv ==
  ASSUME Inv, NEW answer \in ReplyType, answer.rv # "TOO_MUCH_DATA", Stay(answer), UNCHANGED library
  PROVE  Inv'
<1>1. reply' = answer /\ UNCHANGED <<session, cipher, user, running, history, finished, library>>
  BY DEF Stay
<1>2. TypeOK' /\ NeverTooMuchData'
  BY <1>1 DEF Inv, TypeOK, ReplyType, NeverTooMuchData
<1>3. OperationHasEngine' /\ LoginAwaited' /\ CipherOK' /\ OutputComplete'
  BY <1>1 DEF Inv, OperationHasEngine, LoginAwaited, CipherOK, OutputComplete
<1>4. CounterOK(cipher)' /\ CounterOK(finished.cipher)'
  BY <1>1 DEF Inv
<1> QED BY <1>2, <1>3, <1>4 DEF Inv

LEMMA Replies ==
  /\ \A rv \in ReturnCodes : Reply(rv) \in ReplyType /\ Reply(rv).rv = rv /\ Reply(rv).output = FALSE
  /\ Output \in ReplyType /\ Output.rv = "OK" /\ Output.output = TRUE
BY DEF Reply, Output, ReplyType, ReturnCodes

LEMMA AnnounceInv ==
  ASSUME Inv, NEW buffer, Announce(buffer), UNCHANGED library
  PROVE  Inv'
<1>1. PICK rv \in {"OK", "BUFFER_TOO_SMALL"} : Stay(Reply(rv))
  BY DEF Announce
<1>2. rv \in ReturnCodes /\ rv # "TOO_MUCH_DATA"
  BY DEF ReturnCodes
<1> QED BY <1>1, <1>2, StayInv, Replies

LEMMA DeliverInv ==
  ASSUME Inv, NEW buffer, Deliver(buffer), UNCHANGED library
  PROVE  Inv'
<1>1. CASE Announce(buffer)
  BY <1>1, AnnounceInv
<1>2. CASE End(Output)
  BY <1>2, EndInv, Replies
<1>3. CASE End(Reply("GENERAL_ERROR"))
  BY <1>3, EndInv, Replies DEF ReturnCodes
<1> QED BY <1>1, <1>2, <1>3 DEF Deliver
-----------------------------------------------------------------------------
(* C_*Init *)

LEMMA BeginInv ==
  ASSUME Inv, NEW s \in SessionType, NEW always \in BOOLEAN, Begin(s, always), UNCHANGED library,
         HasEngine(s),
         always => /\ s.operation \in {"SIGN", "DECRYPT"} /\ s.engines = {"asymmetricCryptoOp"}
                   /\ s.reAuthentication,
         \/ s.engines # {"symmetricCryptoOp"} /\ UNCHANGED cipher
         \/ /\ cipher' \in CipherType /\ ModeOK(cipher') /\ cipher'.direction = s.operation
            /\ BufferOK(cipher', 0, 0) /\ CounterOK(cipher')
  PROVE  Inv'
<1>1. /\ session' = s /\ reply' = Reply("OK") /\ history' = Started(always)
      /\ finished' = Unfinished /\ UNCHANGED <<user, running, library>>
  BY DEF Begin
<1>2. reply' \in ReplyType /\ reply'.rv = "OK"
  BY <1>1, Replies DEF ReturnCodes
<1>3. cipher' \in CipherType /\ CounterOK(cipher')
  BY DEF Inv, TypeOK
<1>4. /\ finished' \in [cipher : CipherType, given : Nat, got : Nat, mixed : BOOLEAN]
      /\ finished'.cipher = NoCipher /\ finished'.given = 0 /\ finished'.got = 0
  BY <1>1, NoCipherType DEF Unfinished
<1>5. TypeOK'
  BY <1>1, <1>2, <1>3, <1>4, StartedType DEF Inv, TypeOK
<1>6. OperationHasEngine'
  BY <1>1 DEF OperationHasEngine
<1>7. LoginAwaited'
  BY <1>1, StartedType DEF LoginAwaited
<1>8. CipherOK'
  <2> SUFFICES ASSUME s.engines = {"symmetricCryptoOp"}
               PROVE  /\ ModeOK(cipher') /\ cipher'.direction = s.operation
                      /\ BufferOK(cipher', history'.given, history'.got)
                      /\ history'.given <= MaxGiven /\ history'.given = 0
    BY <1>1 DEF CipherOK
  <2>1. history'.given = 0 /\ history'.got = 0
    BY <1>1, StartedType
  <2>2. ModeOK(cipher') /\ cipher'.direction = s.operation /\ BufferOK(cipher', 0, 0)
    OBVIOUS
  <2> QED BY <2>1, <2>2, PowerFacts
<1>9. OutputComplete'
  <2>1. 0 % BlockSize = 0
    BY BlockFacts
  <2>2. 0 \in Expected(NoCipher, 0)
    BY <2>1, NoCipherType DEF Expected, isAEAD
  <2> QED BY <1>4, <2>2 DEF OutputComplete
<1>10. NeverTooMuchData' /\ CounterOK(finished'.cipher)
  BY <1>2, <1>4, NoCipherType DEF NeverTooMuchData
<1> QED BY <1>3, <1>5, <1>6, <1>7, <1>8, <1>9, <1>10 DEF Inv

\* What the Init functions leave in a session that has no operation.
LEMMA SetOp ==
  ASSUME NEW s \in SessionType, HasEngine(s), s.operation = "NONE",
         NEW op \in Operations, NEW engine \in Engines, NEW key \in Keys,
         NEW param \in BOOLEAN, NEW multi \in BOOLEAN
  PROVE  /\ setOp(s, op, engine, key, param, multi) \in SessionType
         /\ setOp(s, op, engine, key, param, multi).operation = op
         /\ setOp(s, op, engine, key, param, multi).engines = {engine}
         /\ setOp(s, op, engine, key, param, multi).keys = {key}
         /\ setOp(s, op, engine, key, param, multi).mechanism = s.mechanism
         /\ setOp(s, op, engine, key, param, multi).reAuthentication = s.reAuthentication
<1>1. s.engines = {} /\ s.keys = {} /\ s.mechanismParam = FALSE
  BY DEF HasEngine, SessionType
<1>2. setOp(s, op, engine, key, param, multi) =
        [s EXCEPT !.operation = op, !.engines = {engine}, !.keys = {key}, !.mechanismParam = param,
                  !.allowMultiPartOp = multi, !.allowSinglePartOp = TRUE]
  BY <1>1 DEF setOp
<1>3. {engine} \in SUBSET Engines /\ {key} \in SUBSET Keys
  OBVIOUS
<1>4. setOp(s, op, engine, key, param, multi) \in SessionType
  BY <1>2, <1>3 DEF SessionType
<1> QED BY <1>2, <1>4 DEF SessionType

\* encryptInit and decryptInit.
LEMMA FreshCipher ==
  ASSUME NEW class \in Classes, NEW r, NEW maximum \in Nat \union {NoLimit},
         r.mode \in Modes, r.direction \in Directions, r.counter \in Nat, r.aad \in BOOLEAN,
         class = "EVP" \/ class = "Pipe" => r.mode \in {"ECB", "CBC", "CBC_PAD", "CTR", "GCM"},
         class = "GOST28147" => r.mode \in {"ECB", "CFB", "CBC_PAD"},
         class = "GOSTSymmetric" => r.mode \in {"ECB", "CTR_ACPKM", "MGM"},
         r.mode = "CTR" => r.counter < 2^CounterBits /\ maximum = (2^CounterBits - r.counter) * BlockSize
  PROVE  /\ Cipher(class, r, maximum) \in CipherType
         /\ ModeOK(Cipher(class, r, maximum)) /\ CounterOK(Cipher(class, r, maximum))
         /\ BufferOK(Cipher(class, r, maximum), 0, 0)
         /\ Cipher(class, r, maximum).direction = r.direction
<1>1. PICK c : c = Cipher(class, r, maximum)
  OBVIOUS
<1>2. /\ c.class = class /\ c.mode = r.mode /\ c.direction = r.direction /\ c.buffered = 0
      /\ c.counter = r.counter /\ c.counterBytes = 0 /\ c.maximumBytes = maximum
  BY <1>1 DEF Cipher
<1>3. c \in CipherType
  BY <1>1 DEF Cipher, CipherType
<1>4. ModeOK(c)
  BY <1>2 DEF ModeOK, Classes
<1>5. CounterOK(c)
  <2> SUFFICES ASSUME c.mode = "CTR" PROVE 0 <= maximum
    BY <1>2 DEF CounterOK
  <2>1. PICK k \in Nat, p \in Nat : k = r.counter /\ p = 2^CounterBits /\ k < p /\ maximum = (p - k) * BlockSize
    BY <1>2, PowerAssumption
  <2>2. p - k \in Nat
    BY <2>1
  <2> QED BY <2>1, <2>2, BlockFacts
<1>6. BufferOK(c, 0, 0)
  <2>1. 0 % BlockSize = 0
    BY BlockFacts
  <2> QED BY <1>2, <2>1, BlockFacts DEF BufferOK
<1> QED BY <1>1, <1>2, <1>3, <1>4, <1>5, <1>6

LEMMA CipherInitFacts ==
  ASSUME NEW algo, NEW mode, NEW direction \in Directions,
         \/ algo = "AES" /\ mode \in {"ECB", "CBC", "CBC_PAD", "CTR", "GCM"}
         \/ algo = "DES" /\ mode \in {"ECB", "CBC", "CBC_PAD"}
         \/ algo = "GOST28147" /\ mode \in {"ECB", "CFB", "CBC_PAD"}
         \/ algo = "KUZNECHIK" /\ mode \in {"ECB", "CTR_ACPKM", "MGM"},
         NEW r \in Requests(algo, mode, direction), NEW bits,
         NEW c \in CipherInit(library, algo, r, bits)
  PROVE  c \in CipherType /\ ModeOK(c) /\ CounterOK(c) /\ BufferOK(c, 0, 0) /\ c.direction = direction
<1>1. /\ r.mode = mode /\ r.direction = direction
      /\ r.counter \in (IF mode = "CTR" THEN Counters ELSE {0})
      /\ r.aad \in BOOLEAN
  BY DEF Requests
<1>2. /\ r.mode \in Modes /\ r.direction \in Directions /\ r.counter \in Nat
      /\ r.mode = "CTR" => r.counter < 2^CounterBits
  <2>1. CASE mode = "CTR"
    <3>1. r.counter \in 0..(2^CounterBits - 1) /\ 2^CounterBits \in Nat
      BY <1>1, <2>1, LengthAssumption, PowerAssumption
    <3> QED BY <1>1, <2>1, <3>1 DEF Modes
  <2>2. CASE mode # "CTR"
    BY <1>1, <2>2 DEF Modes
  <2> QED BY <2>1, <2>2
<1>3. CASE algo \in {"AES", "DES"}
  <2>1. \E class \in {"EVP", "Pipe"} : c = Cipher(class, r, counterBitsInit(r))
    <3>1. r.direction \in {"ENCRYPT", "DECRYPT"}
      BY <1>2 DEF Directions
    <3> QED BY <1>3, <3>1 DEF CipherInit, getSymmetricAlgorithm,
          OSSLEVPSymmetricAlgorithm_encryptInit, OSSLEVPSymmetricAlgorithm_decryptInit,
          BotanSymmetricAlgorithm_encryptInit, BotanSymmetricAlgorithm_decryptInit
  <2>2. /\ counterBitsInit(r) \in Nat \union {NoLimit}
        /\ r.mode = "CTR" => counterBitsInit(r) = (2^CounterBits - r.counter) * BlockSize
    <3>1. CASE r.mode = "CTR"
      <4>1. PICK k \in Nat, p \in Nat : k = r.counter /\ p = 2^CounterBits /\ k < p
        BY <1>2, <3>1, PowerAssumption
      <4>2. (p - 1 - k) + 1 = p - k /\ p - k \in Nat
        BY <4>1
      <4>3. (p - k) * BlockSize \in Nat
        BY <4>2, BlockFacts
      <4> QED BY <3>1, <4>1, <4>2, <4>3 DEF counterBitsInit
    <3>2. CASE r.mode # "CTR"
      BY <3>2 DEF counterBitsInit
    <3> QED BY <3>1, <3>2
  <2>3. r.mode \in {"ECB", "CBC", "CBC_PAD", "CTR", "GCM"}
    BY <1>1, <1>3
  <2>4. PICK class \in {"EVP", "Pipe"} : c = Cipher(class, r, counterBitsInit(r))
    BY <2>1
  <2>5. class \in Classes /\ class # "GOST28147" /\ class # "GOSTSymmetric"
    BY <2>4 DEF Classes
  <2> HIDE DEF counterBitsInit
  <2> QED BY <1>1, <1>2, <2>2, <2>3, <2>4, <2>5, FreshCipher
<1>4. CASE algo = "GOST28147"
  <2>1. c = Cipher("GOST28147", r, NoLimit)
    BY <1>4 DEF CipherInit, getSymmetricAlgorithm, GOST28147Algorithm_init
  <2>2. r.mode \in {"ECB", "CFB", "CBC_PAD"} /\ r.mode # "CTR" /\ "GOST28147" \in Classes
    BY <1>1, <1>4 DEF Classes
  <2>3. NoLimit \in Nat \union {NoLimit}
    OBVIOUS
  <2> QED BY <1>1, <1>2, <2>1, <2>2, <2>3, FreshCipher
<1>5. CASE algo = "KUZNECHIK"
  <2>1. c = Cipher("GOSTSymmetric", r, NoLimit)
    BY <1>5 DEF CipherInit, getSymmetricAlgorithm, GOSTSymmetricAlgorithm_init
  <2>2. r.mode \in {"ECB", "CTR_ACPKM", "MGM"} /\ r.mode # "CTR" /\ "GOSTSymmetric" \in Classes
    BY <1>1, <1>5 DEF Classes
  <2>3. NoLimit \in Nat \union {NoLimit}
    OBVIOUS
  <2> QED BY <1>1, <1>2, <2>1, <2>2, <2>3, FreshCipher
<1> QED BY <1>3, <1>4, <1>5

LEMMA SymInitInv ==
  ASSUME Inv, NEW direction \in Directions, NEW algo, NEW mode, NEW private,
         \/ algo = "AES" /\ mode \in {"ECB", "CBC", "CBC_PAD", "CTR", "GCM"}
         \/ algo = "DES" /\ mode \in {"ECB", "CBC", "CBC_PAD"}
         \/ algo = "GOST28147" /\ mode \in {"ECB", "CFB", "CBC_PAD"}
         \/ algo = "KUZNECHIK" /\ mode \in {"ECB", "CTR_ACPKM", "MGM"},
         SymInit(direction, algo, mode, private), UNCHANGED library
  PROVE  Inv'
<1>1. PICK s : s = setOp(session, direction, "symmetricCryptoOp", "symmetricKey", FALSE, TRUE)
  OBVIOUS
<1>2. Begin(s, FALSE) /\ session.operation = "NONE"
  BY <1>1 DEF SymInit, Begin
<1>3. direction \in Operations /\ "symmetricCryptoOp" \in Engines /\ "symmetricKey" \in Keys
  BY DEF Directions, Operations, Engines, Keys
<1>4. s \in SessionType /\ s.operation = direction /\ s.engines = {"symmetricCryptoOp"} /\ s.keys = {"symmetricKey"}
  <2>1. PICK no \in BOOLEAN, yes \in BOOLEAN : no = FALSE /\ yes = TRUE
    OBVIOUS
  <2>2. s = setOp(session, direction, "symmetricCryptoOp", "symmetricKey", no, yes)
    BY <1>1, <2>1
  <2> QED BY <1>2, <1>3, <2>2, SetOp DEF Inv, TypeOK, OperationHasEngine
<1>5. HasEngine(s)
  BY <1>4 DEF HasEngine, Directions
<1>6. PICK r \in Requests(algo, mode, direction) : cipher' \in CipherInit(library, algo, r, Bits(algo, r.bytes))
  BY Zenon DEF SymInit
<1>7. /\ cipher' \in CipherType /\ ModeOK(cipher') /\ cipher'.direction = s.operation
      /\ BufferOK(cipher', 0, 0) /\ CounterOK(cipher')
  BY <1>4, <1>6, CipherInitFacts
<1> QED BY <1>2, <1>4, <1>5, <1>7, BeginInv

LEMMA AsymInitInv ==
  ASSUME Inv, NEW op, NEW key, NEW param \in BOOLEAN, NEW multi \in BOOLEAN, NEW always \in BOOLEAN,
         \/ op \in {"SIGN", "DECRYPT"} /\ key = "privateKey"
         \/ op \in {"VERIFY", "ENCRYPT"} /\ key = "publicKey" /\ ~ always,
         NEW o, o = setOp(session, op, "asymmetricCryptoOp", key, param, multi),
         NEW s, Begin(s, always), UNCHANGED <<library, cipher>>,
         o \in SessionType =>
           /\ s \in SessionType
           /\ s.operation = o.operation /\ s.engines = o.engines /\ s.keys = o.keys
           /\ always => s.reAuthentication
  PROVE  Inv'
<1>1. session.operation = "NONE" /\ op \in Operations /\ "asymmetricCryptoOp" \in Engines /\ key \in Keys
  BY DEF Begin, Operations, Engines, Keys
<1>2. o \in SessionType /\ o.operation = op /\ o.engines = {"asymmetricCryptoOp"} /\ o.keys = {key}
  BY <1>1, SetOp DEF Inv, TypeOK, OperationHasEngine
<1>3. s \in SessionType /\ s.operation = op /\ s.engines = {"asymmetricCryptoOp"} /\ s.keys = {key}
  BY <1>2
<1>4. HasEngine(s) /\ s.engines # {"symmetricCryptoOp"}
  BY <1>3 DEF HasEngine
<1>5. CASE always
  <2>1. s.operation \in {"SIGN", "DECRYPT"} /\ s.engines = {"asymmetricCryptoOp"} /\ s.reAuthentication
    BY <1>2, <1>3, <1>5
  <2>2. UNCHANGED library /\ UNCHANGED cipher
    OBVIOUS
  <2> QED BY <1>3, <1>4, <2>1, <2>2, BeginInv
<1>6. CASE ~ always
  <2>1. UNCHANGED library /\ UNCHANGED cipher
    OBVIOUS
  <2> QED BY <1>3, <1>4, <1>6, <2>1, BeginInv
<1> QED BY <1>5, <1>6

\* What is stored after setOp.
LEMMA StoreMechanism ==
  ASSUME NEW o \in SessionType, NEW mech \in {"Unknown", "RSA"}, NEW s, s = [o EXCEPT !.mechanism = mech]
  PROVE  s \in SessionType /\ s.operation = o.operation /\ s.engines = o.engines /\ s.keys = o.keys
BY DEF SessionType

LEMMA AsymMechanismFacts ==
  ASSUME NEW m \in AsymMechanisms
  PROVE  m.multi \in BOOLEAN /\ m.param \in BOOLEAN /\ m.mech \in {"Unknown", "RSA"}
<1>1. \A multi, param \in BOOLEAN : /\ Mech(multi, param).multi = multi /\ Mech(multi, param).param = param
                                   /\ Mech(multi, param).mech = "Unknown"
  BY DEF Mech
<1>2. m = RSA_X_509 \/ \E multi, param \in BOOLEAN : m = Mech(multi, param)
  BY DEF AsymMechanisms, RSAMechanisms, PSSMechanisms, DSAMechanisms, ECDSAMechanisms, GOSTMechanisms,
         EDDSA, ML_DSA
<1>3. CASE m = RSA_X_509
  BY <1>3 DEF RSA_X_509
<1>4. CASE \E multi, param \in BOOLEAN : m = Mech(multi, param)
  BY <1>1, <1>4
<1> QED BY <1>2, <1>3, <1>4

LEMMA MacInitInv ==
  ASSUME Inv, NEW op \in {"SIGN", "VERIFY"}, NEW private, MacInit(op, private), UNCHANGED library
  PROVE  Inv'
<1>1. PICK s : s = setOp(session, op, "macOp", "symmetricKey", FALSE, TRUE)
  OBVIOUS
<1>2. Begin(s, FALSE) /\ session.operation = "NONE" /\ UNCHANGED cipher
  BY <1>1 DEF MacInit, Begin
<1>3. op \in Operations /\ "macOp" \in Engines /\ "symmetricKey" \in Keys
  BY DEF Operations, Engines, Keys
<1>4. s \in SessionType /\ s.operation = op /\ s.engines = {"macOp"} /\ s.keys = {"symmetricKey"}
  <2>1. PICK no \in BOOLEAN, yes \in BOOLEAN : no = FALSE /\ yes = TRUE
    OBVIOUS
  <2>2. s = setOp(session, op, "macOp", "symmetricKey", no, yes)
    BY <1>1, <2>1
  <2> QED BY <1>2, <1>3, <2>2, SetOp DEF Inv, TypeOK, OperationHasEngine
<1>5. HasEngine(s) /\ s.engines # {"symmetricCryptoOp"}
  BY <1>4 DEF HasEngine
<1> QED BY <1>2, <1>4, <1>5, BeginInv

\* C_DigestInit and C_FindObjectsInit set no key.
LEMMA KeylessInitInv ==
  ASSUME Inv, NEW op, NEW engines,
         \/ op = "DIGEST" /\ engines = {"digestOp"}
         \/ op = "FIND" /\ engines = {"findOp"}
         \/ op = "FIND" /\ engines = {},
         Begin([session EXCEPT !.operation = op, !.engines = @ \union engines], FALSE),
         UNCHANGED <<library, cipher>>
  PROVE  Inv'
<1>1. session \in SessionType /\ session.engines = {} /\ session.keys = {}
  BY DEF Inv, TypeOK, OperationHasEngine, HasEngine, Begin
<1>2. PICK s : s = [session EXCEPT !.operation = op, !.engines = engines]
  OBVIOUS
<1>3. Begin(s, FALSE)
  <2>1. session.engines \union engines = engines
    BY <1>1
  <2> QED BY <1>2, <2>1
<1>4. op \in Operations /\ engines \in SUBSET Engines
  BY DEF Operations, Engines
<1>5. s \in SessionType /\ s.operation = op /\ s.engines = engines /\ s.keys = {}
  BY <1>1, <1>2, <1>4 DEF SessionType
<1>6. HasEngine(s) /\ s.engines # {"symmetricCryptoOp"}
  BY <1>5 DEF HasEngine
<1> QED BY <1>3, <1>5, <1>6, BeginInv

\* A refused OAEP parameter leaves the mark of the login.
LEMMA AsymDecryptInitFailsInv ==
  ASSUME Inv, NEW always \in BOOLEAN, AsymDecryptInitFails(always), UNCHANGED library
  PROVE  Inv'
<1>1. /\ session' = [session EXCEPT !.reAuthentication = @ \/ always]
      /\ reply' = Reply("ARGUMENTS_BAD") /\ session.operation = "NONE"
      /\ UNCHANGED <<cipher, user, running, history, finished, library>>
  BY DEF AsymDecryptInitFails
<1>2. /\ session' \in SessionType
      /\ session'.operation = "NONE" /\ session'.engines = {} /\ session'.keys = {} /\ ~ session'.mechanismParam
  BY <1>1 DEF Inv, TypeOK, SessionType, OperationHasEngine, HasEngine
<1>3. reply' \in ReplyType /\ reply'.rv = "ARGUMENTS_BAD"
  BY <1>1, Replies DEF ReturnCodes
<1>4. TypeOK' /\ NeverTooMuchData'
  BY <1>1, <1>2, <1>3 DEF Inv, TypeOK, NeverTooMuchData
<1>5. OperationHasEngine' /\ CipherOK'
  BY <1>2 DEF OperationHasEngine, HasEngine, CipherOK
<1>6. LoginAwaited'
  BY <1>1 DEF Inv, LoginAwaited
<1>7. OutputComplete' /\ CounterOK(cipher)' /\ CounterOK(finished.cipher)'
  BY <1>1 DEF Inv, OutputComplete
<1> QED BY <1>4, <1>5, <1>6, <1>7 DEF Inv

LEMMA InitFunctionsInv ==
  ASSUME Inv, InitFunctions, UNCHANGED library
  PROVE  Inv'
<1>1. ASSUME NEW m \in SymMechanisms, NEW private \in BOOLEAN,
             SymEncryptInit(m[1], m[2], private) \/ SymDecryptInit(m[1], m[2], private)
      PROVE  Inv'
  <2>1. PICK direction \in Directions : SymInit(direction, m[1], m[2], private)
    BY <1>1 DEF SymEncryptInit, SymDecryptInit, Directions
  <2>2. \/ m[1] = "AES" /\ m[2] \in {"ECB", "CBC", "CBC_PAD", "CTR", "GCM"}
        \/ m[1] = "DES" /\ m[2] \in {"ECB", "CBC", "CBC_PAD"}
        \/ m[1] = "GOST28147" /\ m[2] \in {"ECB", "CFB", "CBC_PAD"}
        \/ m[1] = "KUZNECHIK" /\ m[2] \in {"ECB", "CTR_ACPKM", "MGM"}
    BY DEF SymMechanisms
  <2> QED BY <2>1, <2>2, SymInitInv
<1>2. ASSUME NEW oaep \in BOOLEAN, NEW mech \in {"Unknown", "RSA"}, AsymEncryptInit(oaep, mech)
      PROVE  Inv'
  <2>0. PICK no \in BOOLEAN : no = FALSE
    OBVIOUS
  <2>1. PICK o : o = setOp(session, "ENCRYPT", "asymmetricCryptoOp", "publicKey", oaep, no)
    OBVIOUS
  <2>2. PICK s : s = [o EXCEPT !.mechanism = mech]
    OBVIOUS
  <2>3. Begin(s, no) /\ UNCHANGED <<library, cipher>>
    BY <1>2, <2>0, <2>1, <2>2 DEF AsymEncryptInit
  <2>4. o \in SessionType => /\ s \in SessionType
                             /\ s.operation = o.operation /\ s.engines = o.engines /\ s.keys = o.keys
    BY <2>2, StoreMechanism
  <2> QED BY <2>0, <2>1, <2>3, <2>4, AsymInitInv
<1>3. ASSUME NEW oaep \in BOOLEAN, NEW always \in BOOLEAN, AsymDecryptInit(oaep, always)
      PROVE  Inv'
  <2>0. PICK no \in BOOLEAN, mech \in {"Unknown", "RSA"} : no = FALSE /\ mech = "Unknown"
    OBVIOUS
  <2>1. PICK o : o = setOp(session, "DECRYPT", "asymmetricCryptoOp", "privateKey", oaep, no)
    OBVIOUS
  <2>2. PICK s : s = [o EXCEPT !.mechanism = mech, !.reAuthentication = @ \/ always]
    OBVIOUS
  <2>3. Begin(s, always) /\ UNCHANGED <<library, cipher>>
    BY <1>3, <2>0, <2>1, <2>2 DEF AsymDecryptInit
  <2>4. o \in SessionType => /\ s \in SessionType
                             /\ s.operation = o.operation /\ s.engines = o.engines /\ s.keys = o.keys
                             /\ always => s.reAuthentication
    <3> SUFFICES ASSUME o \in SessionType
                 PROVE  /\ s \in SessionType
                        /\ s.operation = o.operation /\ s.engines = o.engines /\ s.keys = o.keys
                        /\ always => s.reAuthentication
      OBVIOUS
    <3>1. (o.reAuthentication \/ always) \in BOOLEAN
      OBVIOUS
    <3>2. s \in SessionType
      BY <2>2, <3>1 DEF SessionType
    <3> QED BY <2>2, <3>2 DEF SessionType
  <2> QED BY <2>1, <2>3, <2>4, AsymInitInv
<1>4. ASSUME NEW always \in BOOLEAN, AsymDecryptInitFails(always) PROVE Inv'
  BY <1>4, AsymDecryptInitFailsInv
<1>5. ASSUME C_DigestInit PROVE Inv'
  BY <1>5, KeylessInitInv DEF C_DigestInit
<1>6. ASSUME NEW private \in BOOLEAN, MacSignInit(private) \/ MacVerifyInit(private) PROVE Inv'
  BY <1>6, MacInitInv DEF MacSignInit, MacVerifyInit
<1>7. ASSUME NEW m \in AsymMechanisms, NEW always \in BOOLEAN, AsymSignInit(m, always) PROVE Inv'
  <2>1. m.multi \in BOOLEAN /\ m.param \in BOOLEAN /\ m.mech \in {"Unknown", "RSA"}
    BY AsymMechanismFacts
  <2>2. PICK o : o = setOp(session, "SIGN", "asymmetricCryptoOp", "privateKey", m.param, m.multi)
    OBVIOUS
  <2>3. PICK s : s = [o EXCEPT !.mechanism = m.mech, !.reAuthentication = @ \/ always]
    OBVIOUS
  <2>4. Begin(s, always) /\ UNCHANGED <<library, cipher>>
    BY <1>7, <2>2, <2>3 DEF AsymSignInit
  <2>5. o \in SessionType => /\ s \in SessionType
                             /\ s.operation = o.operation /\ s.engines = o.engines /\ s.keys = o.keys
                             /\ always => s.reAuthentication
    <3> SUFFICES ASSUME o \in SessionType
                 PROVE  /\ s \in SessionType
                        /\ s.operation = o.operation /\ s.engines = o.engines /\ s.keys = o.keys
                        /\ always => s.reAuthentication
      OBVIOUS
    <3>1. (o.reAuthentication \/ always) \in BOOLEAN
      OBVIOUS
    <3>2. s \in SessionType
      BY <2>1, <2>3, <3>1 DEF SessionType
    <3> QED BY <2>1, <2>3, <3>2 DEF SessionType
  <2> QED BY <2>1, <2>2, <2>4, <2>5, AsymInitInv
<1>8. ASSUME NEW m \in AsymMechanisms, AsymVerifyInit(m) PROVE Inv'
  <2>1. m.multi \in BOOLEAN /\ m.param \in BOOLEAN /\ m.mech \in {"Unknown", "RSA"}
    BY AsymMechanismFacts
  <2>2. PICK o : o = setOp(session, "VERIFY", "asymmetricCryptoOp", "publicKey", m.param, m.multi)
    OBVIOUS
  <2>3. PICK s : s = [o EXCEPT !.mechanism = m.mech]
    OBVIOUS
  <2>4. PICK no \in BOOLEAN : no = FALSE
    OBVIOUS
  <2>5. Begin(s, no) /\ UNCHANGED <<library, cipher>>
    BY <1>8, <2>2, <2>3, <2>4 DEF AsymVerifyInit
  <2>6. o \in SessionType => /\ s \in SessionType
                             /\ s.operation = o.operation /\ s.engines = o.engines /\ s.keys = o.keys
    BY <2>1, <2>3, StoreMechanism
  <2> QED BY <2>1, <2>2, <2>4, <2>5, <2>6, AsymInitInv
<1>9. ASSUME NEW fails \in BOOLEAN, C_FindObjectsInit(fails) PROVE Inv'
  <2>1. PICK engines \in {{}, {"findOp"}} :
          Begin([session EXCEPT !.operation = "FIND", !.engines = @ \union engines], FALSE)
    <3>1. session.engines \union {} = session.engines
      OBVIOUS
    <3> QED BY <1>9, <3>1 DEF C_FindObjectsInit
  <2>2. UNCHANGED cipher
    BY <1>9 DEF C_FindObjectsInit
  <2> QED BY <2>1, <2>2, KeylessInitInv
<1> QED BY <1>1, <1>2, <1>3, <1>4, <1>5, <1>6, <1>7, <1>8, <1>9 DEF InitFunctions
-----------------------------------------------------------------------------
(* C_Encrypt*, C_Decrypt* *)

\* The final call returns a number of bytes, and the length announced is one.
LEMMA FinalIsLength ==
  ASSUME NEW c \in CipherType, ModeOK(c), NEW last \in FinalLengths(c)
  PROVE  last \in Nat
<1>1. PICK b \in Nat : b = c.buffered
  BY DEF CipherType
<1>2. Padded(b) \in Nat /\ (Unpadded(b) \subseteq Nat)
  BY Paddings
<1> QED BY <1>1, <1>2, FinalCases, BlockFacts

LEMMA SingleIsLength ==
  ASSUME NEW c \in CipherType, NEW n \in Nat
  PROVE  SingleSize(c, n) \in Nat
<1>1. getTagBytes(c.mode) \in Nat
  BY BlockFacts DEF getTagBytes
<1>2. n % BlockSize \in 0..(BlockSize - 1)
  BY BlockFacts
<1> QED BY <1>1, <1>2, BlockFacts DEF SingleSize

\* While a symmetric operation is under way there is its cipher.
LEMMA UnderCipher ==
  ASSUME Inv, NEW direction, Under(direction, "symmetricCryptoOp")
  PROVE  /\ session.engines = {"symmetricCryptoOp"} /\ session.operation = direction
         /\ cipher \in CipherType /\ history.given \in Nat /\ history.got \in Nat
         /\ history.parts \in BOOLEAN
         /\ ModeOK(cipher) /\ cipher.direction = direction
         /\ BufferOK(cipher, history.given, history.got)
         /\ history.given <= MaxGiven /\ cipher.buffered <= MaxGiven
         /\ ~ history.parts => history.given = 0 /\ history.got = 0
<1>1. session.engines = {"symmetricCryptoOp"} /\ session.operation = direction
  BY DEF Inv, OperationHasEngine, HasEngine, Under
<1>2. /\ cipher \in CipherType /\ history.given \in Nat /\ history.got \in Nat
      /\ history.parts \in BOOLEAN
  BY DEF Inv, TypeOK, HistoryType
<1>3. /\ ModeOK(cipher) /\ cipher.direction = session.operation
      /\ BufferOK(cipher, history.given, history.got)
      /\ history.given <= MaxGiven
      /\ ~ history.parts => history.given = 0
  BY <1>1 DEF Inv, CipherOK
<1>4. cipher.buffered \in Nat /\ history.got + cipher.buffered = history.given
  BY <1>2, <1>3 DEF CipherType, BufferOK
<1> QED BY <1>1, <1>2, <1>3, <1>4, PowerFacts

LEMMA CompleteInv ==
  ASSUME Inv, NEW c \in CipherType, NEW total \in Nat, NEW returned \in Nat, CounterOK(c),
         ~ history.parts => history.got + returned \in Expected(c, total),
         Complete(c, total, returned), UNCHANGED library
  PROVE  Inv'
<1>1. /\ session' = resetOp(session) /\ cipher' = NoCipher /\ reply' = Output
      /\ finished' = [cipher |-> c, given |-> total, got |-> history.got + returned,
                      mixed |-> history.parts]
      /\ history' = Started(FALSE) /\ UNCHANGED <<user, running, library>>
  BY DEF Complete
<1>2. session' \in SessionType /\ session'.engines = {} /\ HasEngine(session')
  BY <1>1, ResetLeavesNothing DEF Inv, TypeOK, OperationHasEngine
<1>3. history.got + returned \in Nat /\ history.parts \in BOOLEAN
  BY DEF Inv, TypeOK, HistoryType
<1>4. /\ finished' \in [cipher : CipherType, given : Nat, got : Nat, mixed : BOOLEAN]
      /\ finished'.cipher = c /\ finished'.given = total /\ finished'.got = history.got + returned
      /\ finished'.mixed = history.parts
  BY <1>1, <1>3
<1>5. TypeOK'
  <2>1. history' \in HistoryType
    BY <1>1, StartedType
  <2>2. reply' \in ReplyType
    BY <1>1, Replies
  <2> QED BY <1>1, <1>2, <1>4, <2>1, <2>2, NoCipherType DEF Inv, TypeOK
<1>6. OperationHasEngine' /\ CipherOK'
  BY <1>2 DEF OperationHasEngine, CipherOK
<1>7. LoginAwaited'
  BY <1>1, StartedType DEF LoginAwaited
<1>8. OutputComplete' /\ CounterOK(finished'.cipher)
  BY <1>4 DEF OutputComplete
<1>9. NeverTooMuchData' /\ CounterOK(cipher')
  BY <1>1, NoCipherType, Replies DEF NeverTooMuchData
<1> QED BY <1>5, <1>6, <1>7, <1>8, <1>9 DEF Inv

\* C_Encrypt and C_Decrypt.
LEMMA SymSingleInv ==
  ASSUME Inv, NEW direction \in Directions, NEW n \in Nat, NEW buffer, SymSingle(direction, n, buffer),
         UNCHANGED library
  PROVE  Inv'
<1>1. Under(direction, "symmetricCryptoOp")
  BY DEF SymSingle
<1>2. PICK size, after, e : size = SingleSize(cipher, n) /\ after = Updated(cipher, n) /\ e = Emitted(cipher, n)
  OBVIOUS
<1>3. /\ cipher \in CipherType /\ ModeOK(cipher) /\ cipher.direction = direction
      /\ history.given \in Nat /\ history.got \in Nat
      /\ BufferOK(cipher, history.given, history.got)
      /\ ~ history.parts => history.given = 0 /\ history.got = 0
  BY <1>1, UnderCipher
<1>4. /\ size \in Nat /\ e \in Nat /\ after \in CipherType /\ ModeOK(after)
  BY <1>2, <1>3, SingleIsLength, EmittedFacts, UpdateKeeps
<1>5. CASE \E rv \in {"LEN_RANGE", "GENERAL_ERROR"} : End(Reply(rv))
  <2>1. PICK rv \in {"LEN_RANGE", "GENERAL_ERROR"} : End(Reply(rv))
    BY <1>5
  <2>2. rv \in ReturnCodes /\ rv # "TOO_MUCH_DATA"
    BY DEF ReturnCodes
  <2> QED BY <2>1, <2>2, EndInv, Replies
<1>6. CASE Announce(buffer)
  BY <1>6, AnnounceInv
<1>7. ASSUME SingleLengthOK(cipher, n), NEW last \in FinalLengths(after), NEW produced, produced = e + last,
             Complete(after, history.given + n, IF direction = "ENCRYPT" \/ produced > size THEN size ELSE produced)
      PROVE  Inv'
  <2>1. last \in Nat /\ produced \in Nat
    BY <1>4, <1>7, FinalIsLength
  <2>2. PICK returned \in Nat : returned = IF direction = "ENCRYPT" \/ produced > size THEN size ELSE produced
    BY <1>4, <2>1
  <2>3. CounterOK(after)
    BY <1>2, <1>3, <1>7, CounterKept DEF SingleLengthOK, Inv
  <2>4. ASSUME ~ history.parts PROVE history.got + returned \in Expected(after, history.given + n)
    <3>1. BufferOK(cipher, 0, 0)
      BY <1>3, <2>4
    <3>2. returned \in Expected(after, n)
      BY <1>2, <1>3, <1>7, <2>2, <3>1, SingleComplete
    <3>3. history.got + returned = returned /\ history.given + n = n
      BY <1>3, <2>4
    <3> QED BY <3>2, <3>3
  <2>5. history.given + n \in Nat
    BY <1>3
  <2> QED BY <1>4, <1>7, <2>2, <2>3, <2>4, <2>5, CompleteInv
<1> QED BY <1>2, <1>5, <1>6, <1>7 DEF SymSingle

LEMMA UpdateSizeType ==
  ASSUME NEW c \in CipherType, NEW n \in Nat
  PROVE  UpdateSize(c, n) \in Nat
<1>1. c.buffered \in Nat
  BY DEF CipherType
<1>2. PICK y \in Int : y = n + c.buffered - (IF getPaddingMode(c.mode) /\ c.direction = "DECRYPT" THEN 1 ELSE 0)
  BY <1>1
<1>3. ULong(y) \in Nat
  BY Widths
<1>4. ULong(y) \div BlockSize \in Int
  BY <1>3, Division
<1>5. PICK k \in Int : k = ToInt(ULong(y) \div BlockSize)
  BY <1>4, Widths
<1>6. k * BlockSize \in Int
  BY BlockFacts
<1>7. ULong(k * BlockSize) \in Nat
  BY <1>6, Widths
<1>8. UpdateSize(c, n) = IF isBlockCipher(c.mode) THEN ULong(k * BlockSize) ELSE n + c.buffered
  BY <1>2, <1>5 DEF UpdateSize
<1> QED BY <1>1, <1>7, <1>8

LEMMA FinalSizeType ==
  ASSUME NEW c \in CipherType
  PROVE  FinalSize(c) \in Nat
<1>1. getTagBytes(c.mode) \in Nat
  BY BlockFacts DEF getTagBytes
<1>2. PICK r \in Nat : r = Remaining(c)
  BY <1>1 DEF Remaining, CipherType
<1>3. ULong(r - 1) \in Nat
  BY Widths
<1>4. r + BlockSize \in Nat
  BY BlockFacts
<1>5. ((r + BlockSize) \div BlockSize) * BlockSize \in Nat
  BY <1>4, BlocksOf
<1> QED BY <1>2, <1>3, <1>5 DEF FinalSize

\* C_EncryptUpdate and C_DecryptUpdate: the buffer, as long as announced, has room.
LEMMA SymUpdateInv ==
  ASSUME Inv, NEW direction \in Directions, NEW n \in Nat, NEW buffer \in Int,
         SymUpdate(direction, n, buffer), UNCHANGED library
  PROVE  Inv'
<1>1. Under(direction, "symmetricCryptoOp") /\ history.given + n <= MaxGiven
  BY DEF SymUpdate
<1>2. PICK size, e : size = UpdateSize(cipher, n) /\ e = Emitted(cipher, n)
  OBVIOUS
<1>3. /\ session.engines = {"symmetricCryptoOp"} /\ session.operation = direction
      /\ cipher \in CipherType /\ ModeOK(cipher) /\ cipher.direction = direction
      /\ history.given \in Nat /\ history.got \in Nat
      /\ BufferOK(cipher, history.given, history.got)
  BY <1>1, UnderCipher
<1>4. e \in Nat /\ e <= size
  BY <1>1, <1>2, <1>3, EmittedFacts, UpdateFits
<1>5. CASE \E rv \in {"LEN_RANGE", "GENERAL_ERROR"} : End(Reply(rv))
  <2>1. PICK rv \in {"LEN_RANGE", "GENERAL_ERROR"} : End(Reply(rv))
    BY <1>5
  <2>2. rv \in ReturnCodes /\ rv # "TOO_MUCH_DATA"
    BY DEF ReturnCodes
  <2> QED BY <2>1, <2>2, EndInv, Replies
<1>6. CASE Announce(buffer)
  BY <1>6, AnnounceInv
<1>7. CASE ~ (buffer < size) /\ buffer < e
  <2>1. size \in Int
    BY <1>2, <1>3, UpdateSizeType
  <2> QED BY <1>4, <1>7, <2>1
<1>8. ASSUME checkMaximumBytes(cipher, n), cipher' = Updated(cipher, n),
             history' = [history EXCEPT !.given = @ + n, !.got = @ + e, !.parts = TRUE],
             reply' = Reply("OK"), UNCHANGED <<session, user, running, finished>>
      PROVE  Inv'
  <2>1. /\ cipher' \in CipherType /\ ModeOK(cipher') /\ cipher'.direction = direction
        /\ BufferOK(cipher', history.given + n, history.got + e)
    BY <1>2, <1>3, <1>8, UpdateKeeps
  <2>2. CounterOK(cipher')
    BY <1>3, <1>8, CounterKept DEF Inv
  <2>3. history.given + n \in Nat /\ history.got + e \in Nat
    BY <1>3, <1>4
  <2>4. /\ history' \in HistoryType
        /\ history'.given = history.given + n /\ history'.got = history.got + e
        /\ history'.parts = TRUE /\ history'.asked = history.asked /\ history'.answered = history.answered
    BY <1>8, <2>3 DEF Inv, TypeOK, HistoryType
  <2>5. reply' \in ReplyType /\ reply'.rv = "OK"
    BY <1>8, Replies DEF ReturnCodes
  <2>6. TypeOK' /\ NeverTooMuchData'
    BY <1>8, <2>1, <2>4, <2>5 DEF Inv, TypeOK, NeverTooMuchData
  <2>7. OperationHasEngine'
    BY <1>8 DEF Inv, OperationHasEngine
  <2>8. LoginAwaited'
    BY <1>8, <2>4 DEF Inv, LoginAwaited
  <2>9. CipherOK'
    <3>1. BufferOK(cipher', history'.given, history'.got)
      BY <2>1, <2>4
    <3>2. history'.given <= MaxGiven /\ history'.parts
      BY <1>1, <2>4
    <3>3. session' = session
      BY <1>8
    <3> QED BY <1>3, <2>1, <3>1, <3>2, <3>3 DEF CipherOK
  <2>10. OutputComplete' /\ CounterOK(finished'.cipher)
    BY <1>8 DEF Inv, OutputComplete
  <2> QED BY <2>2, <2>6, <2>7, <2>8, <2>9, <2>10 DEF Inv
<1> QED BY <1>2, <1>5, <1>6, <1>7, <1>8 DEF SymUpdate

\* C_EncryptFinal and C_DecryptFinal.
LEMMA SymFinalInv ==
  ASSUME Inv, NEW direction \in Directions, NEW buffer \in Int, SymFinal(direction, buffer),
         UNCHANGED library
  PROVE  Inv'
<1>1. Under(direction, "symmetricCryptoOp")
  BY DEF SymFinal
<1>2. PICK size : size = FinalSize(cipher)
  OBVIOUS
<1>3. /\ cipher \in CipherType /\ ModeOK(cipher)
      /\ history.given \in Nat /\ history.got \in Nat
      /\ BufferOK(cipher, history.given, history.got) /\ cipher.buffered <= MaxGiven
  BY <1>1, UnderCipher
<1>4. CASE \E rv \in {"LEN_RANGE", "GENERAL_ERROR"} : End(Reply(rv))
  <2>1. PICK rv \in {"LEN_RANGE", "GENERAL_ERROR"} : End(Reply(rv))
    BY <1>4
  <2>2. rv \in ReturnCodes /\ rv # "TOO_MUCH_DATA"
    BY DEF ReturnCodes
  <2> QED BY <2>1, <2>2, EndInv, Replies
<1>5. CASE Announce(buffer)
  BY <1>5, AnnounceInv
<1>6. ASSUME ~ (buffer < size), NEW last \in FinalLengths(cipher)
      PROVE  ~ (buffer < last)
  <2>1. last \in Nat /\ last <= size
    BY <1>2, <1>3, <1>6, FinalFits
  <2>2. size \in Int
    BY <1>2, <1>3, FinalSizeType
  <2> QED BY <1>6, <2>1, <2>2
<1>7. ASSUME NEW last \in FinalLengths(cipher), Complete(cipher, history.given, last)
      PROVE  Inv'
  <2>1. last \in Nat
    BY <1>3, <1>7, FinalIsLength
  <2>2. history.got + last \in Expected(cipher, history.given)
    BY <1>3, <1>7, FinalComplete
  <2>3. CounterOK(cipher)
    BY DEF Inv
  <2> QED BY <1>3, <1>7, <2>1, <2>2, <2>3, CompleteInv
<1> QED BY <1>2, <1>4, <1>5, <1>6, <1>7 DEF SymFinal

\* A call that fails ends the operation.
LEMMA EndReply ==
  ASSUME Inv, UNCHANGED library, NEW rv \in ReturnCodes \ {"TOO_MUCH_DATA"}, End(Reply(rv))
  PROVE  Inv'
BY EndInv, Replies

\* Some other variable changes: the operation is left alone.
LEMMA KeptInv ==
  ASSUME Inv, user' \in BOOLEAN, running' \in BOOLEAN,
         UNCHANGED <<session, cipher, reply, history, finished, library>>
  PROVE  Inv'
<1>1. TypeOK'
  BY DEF Inv, TypeOK
<1>2. OperationHasEngine' /\ LoginAwaited' /\ CipherOK' /\ OutputComplete' /\ NeverTooMuchData'
  BY DEF Inv, OperationHasEngine, LoginAwaited, CipherOK, OutputComplete, NeverTooMuchData
<1>3. CounterOK(cipher)' /\ CounterOK(finished.cipher)'
  BY DEF Inv
<1> QED BY <1>1, <1>2, <1>3 DEF Inv

LEMMA FatalExceptionInv ==
  ASSUME Inv, FatalException, UNCHANGED library
  PROVE  Inv'
<1>1. user' \in BOOLEAN
  BY DEF Inv, TypeOK, FatalException
<1>2. PICK no \in BOOLEAN : no = FALSE
  OBVIOUS
<1>3. running' = no
  BY <1>2 DEF FatalException
<1> QED BY <1>1, <1>3, KeptInv DEF FatalException

LEMMA CipherFunctionsInv ==
  ASSUME Inv, CipherFunctions, UNCHANGED library
  PROVE  Inv'
<1>1. \A n \in Lengths : n \in Nat
  BY LengthAssumption DEF Lengths
<1>2. \A b \in Buffers : b \in Int
  BY LengthAssumption DEF Buffers, NULL
<1>3. "ENCRYPT" \in Directions /\ "DECRYPT" \in Directions
  BY DEF Directions
<1>4. /\ {"ARGUMENTS_BAD", "OPERATION_NOT_INITIALIZED", "USER_NOT_LOGGED_IN"}
           \subseteq ReturnCodes \ {"TOO_MUCH_DATA"}
      /\ "FUNCTION_NOT_SUPPORTED" \in ReturnCodes
  BY DEF ReturnCodes
<1>5. ASSUME NullArgument PROVE Inv'
  BY <1>4, <1>5, EndReply DEF NullArgument
<1>6. ASSUME NEW n \in Lengths, NEW b \in Buffers, SymEncrypt(n, b) \/ SymDecrypt(n, b) PROVE Inv'
  BY <1>1, <1>3, <1>6, SymSingleInv DEF SymEncrypt, SymDecrypt
<1>7. ASSUME NEW n \in Lengths, NEW b \in Buffers, SymEncryptUpdate(n, b) \/ SymDecryptUpdate(n, b)
      PROVE  Inv'
  BY <1>1, <1>2, <1>3, <1>7, SymUpdateInv DEF SymEncryptUpdate, SymDecryptUpdate
<1>8. ASSUME NEW b \in Buffers, SymEncryptFinal(b) \/ SymDecryptFinal(b) PROVE Inv'
  BY <1>2, <1>3, <1>8, SymFinalInv DEF SymEncryptFinal, SymDecryptFinal
<1>9. ASSUME NEW d \in Directions, AsymMultiPart(d) PROVE Inv'
  BY <1>4, <1>9, StayInv, Replies DEF AsymMultiPart
<1>10. ASSUME NEW n \in Lengths, NEW b \in Buffers, AsymEncrypt(n, b) PROVE Inv'
  <2>1. NotInitialised \/ FatalException \/ Deliver(b)
    BY <1>10 DEF AsymEncrypt
  <2> QED BY <1>4, <2>1, EndReply, FatalExceptionInv, DeliverInv DEF NotInitialised
<1>11. ASSUME NEW b \in Buffers, AsymDecrypt(b) PROVE Inv'
  <2>1. NotInitialised \/ End(Reply("USER_NOT_LOGGED_IN")) \/ Deliver(b)
    BY <1>11 DEF AsymDecrypt
  <2> QED BY <1>4, <2>1, EndReply, DeliverInv DEF NotInitialised
<1> QED BY <1>5, <1>6, <1>7, <1>8, <1>9, <1>10, <1>11 DEF CipherFunctions
-----------------------------------------------------------------------------
(* The other functions *)

\* An Update of a signature: C_Sign can no longer end it.
LEMMA TakePartInv ==
  ASSUME Inv, TakePart, UNCHANGED library
  PROVE  Inv'
<1>1. CASE End(Reply("GENERAL_ERROR"))
  BY <1>1, EndReply DEF ReturnCodes
<1>2. CASE /\ session' = [session EXCEPT !.allowSinglePartOp = FALSE] /\ reply' = Reply("OK")
           /\ UNCHANGED <<cipher, user, running, history, finished>>
  <2>1. /\ session' \in SessionType
        /\ session'.operation = session.operation /\ session'.engines = session.engines
        /\ session'.keys = session.keys /\ session'.mechanismParam = session.mechanismParam
        /\ session'.reAuthentication = session.reAuthentication
    BY <1>2 DEF Inv, TypeOK, SessionType
  <2>2. reply' \in ReplyType /\ reply'.rv = "OK"
    BY <1>2, Replies DEF ReturnCodes
  <2>3. TypeOK' /\ NeverTooMuchData'
    BY <1>2, <2>1, <2>2 DEF Inv, TypeOK, NeverTooMuchData
  <2>4. OperationHasEngine'
    BY <2>1 DEF Inv, OperationHasEngine, HasEngine
  <2>5. LoginAwaited'
    BY <1>2, <2>1 DEF Inv, LoginAwaited
  <2>6. CipherOK'
    BY <1>2, <2>1 DEF Inv, CipherOK
  <2>7. OutputComplete' /\ CounterOK(cipher)' /\ CounterOK(finished.cipher)'
    BY <1>2 DEF Inv, OutputComplete
  <2> QED BY <2>3, <2>4, <2>5, <2>6, <2>7 DEF Inv
<1> QED BY <1>1, <1>2 DEF TakePart

LEMMA ContextSpecificLoginInv ==
  ASSUME Inv, ContextSpecificLogin, UNCHANGED library
  PROVE  Inv'
<1>1. /\ session' = [session EXCEPT !.reAuthentication = FALSE]
      /\ history' = [history EXCEPT !.answered = TRUE]
      /\ reply' = Reply("OK") /\ UNCHANGED <<cipher, user, running, finished, library>>
  BY DEF ContextSpecificLogin
<1>2. /\ session' \in SessionType
      /\ session'.operation = session.operation /\ session'.engines = session.engines
      /\ session'.keys = session.keys /\ session'.mechanismParam = session.mechanismParam
  BY <1>1 DEF Inv, TypeOK, SessionType
<1>3. /\ history' \in HistoryType /\ history'.answered = TRUE
      /\ history'.asked = history.asked /\ history'.given = history.given
      /\ history'.got = history.got /\ history'.parts = history.parts
  BY <1>1 DEF Inv, TypeOK, HistoryType
<1>4. reply' \in ReplyType /\ reply'.rv = "OK"
  BY <1>1, Replies DEF ReturnCodes
<1>5. TypeOK' /\ NeverTooMuchData'
  BY <1>1, <1>2, <1>3, <1>4 DEF Inv, TypeOK, NeverTooMuchData
<1>6. OperationHasEngine'
  BY <1>2 DEF Inv, OperationHasEngine, HasEngine
<1>7. LoginAwaited'
  BY <1>2, <1>3 DEF Inv, LoginAwaited
<1>8. CipherOK'
  BY <1>1, <1>2, <1>3 DEF Inv, CipherOK
<1>9. OutputComplete' /\ CounterOK(cipher)' /\ CounterOK(finished.cipher)'
  BY <1>1 DEF Inv, OutputComplete
<1> QED BY <1>5, <1>6, <1>7, <1>8, <1>9 DEF Inv

LEMMA OtherFunctionsInv ==
  ASSUME Inv, OtherFunctions, UNCHANGED library
  PROVE  Inv'
<1>1. \A rv \in {"OK", "GENERAL_ERROR", "OPERATION_NOT_INITIALIZED", "USER_NOT_LOGGED_IN",
                 "SIGNATURE_INVALID", "SIGNATURE_LEN_RANGE"} :
        rv \in ReturnCodes \ {"TOO_MUCH_DATA"}
  BY DEF ReturnCodes
<1>2. ASSUME \E rv \in {"OK", "GENERAL_ERROR", "OPERATION_NOT_INITIALIZED", "USER_NOT_LOGGED_IN",
                        "SIGNATURE_INVALID", "SIGNATURE_LEN_RANGE"} : End(Reply(rv))
      PROVE  Inv'
  BY <1>1, <1>2, EndReply
<1>3. ASSUME NotInitialised PROVE Inv'
  BY <1>2, <1>3 DEF NotInitialised
<1>4. ASSUME Verdict PROVE Inv'
  BY <1>2, <1>4, EndInv, Replies DEF Verdict
<1>5. ASSUME Stay(Reply("OK")) PROVE Inv'
  BY <1>1, <1>5, StayInv, Replies
<1>6. ASSUME C_FindObjectsFinal PROVE Inv'
  BY <1>2, <1>6 DEF C_FindObjectsFinal
<1>7. ASSUME C_Login \/ C_Logout PROVE Inv'
  <2>1. user' \in BOOLEAN /\ running' \in BOOLEAN
    BY <1>7 DEF C_Login, C_Logout, Inv, TypeOK
  <2> QED BY <1>7, <2>1, KeptInv DEF C_Login, C_Logout
<1>8. ASSUME ContextSpecificLogin PROVE Inv'
  BY <1>8, ContextSpecificLoginInv
<1>9. ASSUME NEW b \in Buffers, C_Digest(b) \/ C_DigestFinal(b) PROVE Inv'
  BY <1>9, DeliverInv DEF C_Digest, C_DigestFinal
<1>10. ASSUME C_DigestUpdate \/ \E private \in BOOLEAN : C_DigestKey(private) PROVE Inv'
  <2>1. Stay(Reply("OK")) \/ End(Reply("GENERAL_ERROR"))
    BY <1>10 DEF C_DigestUpdate, C_DigestKey
  <2> QED BY <1>2, <1>5, <2>1
<1>11. ASSUME NEW n \in Lengths, NEW b \in Buffers, C_Sign(n, b) PROVE Inv'
  <2>1. Deliver(b) \/ NotInitialised \/ End(Reply("USER_NOT_LOGGED_IN")) \/ FatalException
    BY <1>11 DEF C_Sign, MacSign, AsymSign
  <2> QED BY <1>2, <1>3, <2>1, DeliverInv, FatalExceptionInv
<1>12. ASSUME C_SignUpdate PROVE Inv'
  <2>1. TakePart \/ NotInitialised \/ End(Reply("USER_NOT_LOGGED_IN"))
    BY <1>12 DEF C_SignUpdate, MacSignUpdate, AsymSignUpdate
  <2> QED BY <1>2, <1>3, <2>1, TakePartInv
<1>13. ASSUME NEW b \in Buffers, C_SignFinal(b) PROVE Inv'
  <2>1. Deliver(b) \/ NotInitialised \/ End(Reply("USER_NOT_LOGGED_IN"))
    BY <1>13 DEF C_SignFinal, MacSignFinal, AsymSignFinal
  <2> QED BY <1>2, <1>3, <2>1, DeliverInv
<1>14. ASSUME NEW n \in Lengths, C_Verify(n) PROVE Inv'
  <2>1. Verdict \/ NotInitialised \/ FatalException \/ End(Reply("SIGNATURE_LEN_RANGE"))
    BY <1>14 DEF C_Verify, MacVerify, AsymVerify
  <2> QED BY <1>2, <1>3, <1>4, <2>1, FatalExceptionInv
<1>15. ASSUME C_VerifyUpdate \/ C_VerifyFinal PROVE Inv'
  <2>1. Verdict \/ NotInitialised \/ TakePart
    BY <1>15 DEF C_VerifyUpdate, C_VerifyFinal, MacVerifyUpdate, AsymVerifyUpdate, MacVerifyFinal,
                 AsymVerifyFinal
  <2> QED BY <1>3, <1>4, <2>1, TakePartInv
<1> QED BY <1>6, <1>7, <1>8, <1>9, <1>10, <1>11, <1>12, <1>13, <1>14, <1>15 DEF OtherFunctions
-----------------------------------------------------------------------------
(* The invariant *)

LEMMA InitInv ==
  Init => Inv
<1> SUFFICES ASSUME Init PROVE Inv
  OBVIOUS
<1>1. /\ session = NewSession /\ cipher = NoCipher /\ reply = Reply("OK") /\ finished = Unfinished
      /\ user = FALSE /\ running = TRUE /\ library \in Libraries
  BY DEF Init
<1>2. /\ session \in SessionType /\ session.operation = "NONE" /\ session.engines = {}
      /\ session.keys = {} /\ ~ session.mechanismParam
  BY <1>1 DEF NewSession, SessionType, Operations
<1>3. history \in HistoryType /\ ~ history.asked
  <2>1. PICK no \in BOOLEAN : no = FALSE
    OBVIOUS
  <2>2. history = Started(no)
    BY <2>1 DEF Init
  <2> QED BY <2>1, <2>2, StartedType
<1>4. reply \in ReplyType /\ reply.rv = "OK"
  BY <1>1, Replies DEF ReturnCodes
<1>5. /\ finished \in [cipher : CipherType, given : Nat, got : Nat, mixed : BOOLEAN]
      /\ finished.cipher = NoCipher /\ finished.given = 0 /\ finished.got = 0
  BY <1>1, NoCipherType DEF Unfinished
<1>6. TypeOK
  <2>1. user \in BOOLEAN /\ running \in BOOLEAN
    BY <1>1
  <2> QED BY <1>1, <1>2, <1>3, <1>4, <1>5, <2>1, NoCipherType DEF TypeOK
<1>7. OperationHasEngine /\ LoginAwaited /\ CipherOK /\ NeverTooMuchData
  BY <1>2, <1>3, <1>4 DEF OperationHasEngine, HasEngine, LoginAwaited, CipherOK, NeverTooMuchData
<1>8. OutputComplete
  <2>1. 0 % BlockSize = 0
    BY BlockFacts
  <2>2. 0 \in Expected(NoCipher, 0)
    BY <2>1, NoCipherType DEF Expected, isAEAD
  <2> QED BY <1>5, <2>2 DEF OutputComplete
<1>9. CounterOK(cipher) /\ CounterOK(finished.cipher)
  BY <1>1, <1>5, NoCipherType
<1> QED BY <1>6, <1>7, <1>8, <1>9 DEF Inv

LEMMA NextInv ==
  Inv /\ [Next]_vars => Inv'
<1> SUFFICES ASSUME Inv, [Next]_vars PROVE Inv'
  OBVIOUS
<1>1. CASE UNCHANGED vars
  <2>1. user' \in BOOLEAN /\ running' \in BOOLEAN
    BY <1>1 DEF vars, Inv, TypeOK
  <2> QED BY <1>1, <2>1, KeptInv DEF vars
<1>2. CASE Next
  BY <1>2, InitFunctionsInv, CipherFunctionsInv, OtherFunctionsInv DEF Next
<1> QED BY <1>1, <1>2

\* Every state of a session that an application's calls lead to has the invariant,
\* whatever the sizes of blocks, keys, buffers and parts.
THEOREM InvariantHolds == Spec => []Inv
BY InitInv, NextInv, PTL DEF Spec

\* The members of class Session, the cipher and the replies have their types.
THEOREM TypeCorrect == Spec => []TypeOK
<1>1. Inv => TypeOK
  BY DEF Inv
<1> QED BY <1>1, InvariantHolds, PTL

\* An operation has its engine and its key, and none is left over after resetOp.
THEOREM EngineThere == Spec => []OperationHasEngine
<1>1. Inv => OperationHasEngine
  BY DEF Inv
<1> QED BY <1>1, InvariantHolds, PTL

\* A cipher operation returns as many bytes as the mode makes of those given,
\* however the application splits them into C_EncryptUpdate and C_DecryptUpdate calls
\* and whichever library the token was built with.
THEOREM NothingCutOff == Spec => []OutputComplete
<1>1. Inv => OutputComplete
  BY DEF Inv
<1> QED BY <1>1, InvariantHolds, PTL

\* The length that the Update and Final functions announce is enough for what the
\* cipher then returns: their "unrecoverable" error does not happen.
THEOREM AnnouncedIsEnough == Spec => []NeverTooMuchData
<1>1. Inv => NeverTooMuchData
  BY DEF Inv
<1> QED BY <1>1, InvariantHolds, PTL

\* checkMaximumBytes keeps the counter of a CTR operation within its counter block,
\* so that no part of the key stream is used twice.
THEOREM KeyStreamOnce == Spec => []CounterNotExhausted
<1>1. Inv => CounterNotExhausted
  BY CounterHasRoom DEF Inv, TypeOK, CounterNotExhausted
<1> QED BY <1>1, InvariantHolds, PTL

\* While a key waits for its login, no call returns a signature or a plaintext.
LEMMA NothingWhileWaiting ==
  ASSUME Inv, Next, session.operation \in {"SIGN", "DECRYPT"},
         session.engines = {"asymmetricCryptoOp"}, session.reAuthentication
  PROVE  reply' = reply \/ reply'.output = FALSE
<1>1. \A rv \in ReturnCodes : (Stay(Reply(rv)) \/ End(Reply(rv))) => reply'.output = FALSE
  BY Replies DEF Stay, End
<1>2. \A s, always : ~ Begin(s, always)
  BY DEF Begin
<1>3. \A op : ~ Under(op, "symmetricCryptoOp")
  BY DEF Under
<1>4. CASE InitFunctions
  <2>1. \E always \in BOOLEAN : AsymDecryptInitFails(always)
    BY <1>2, <1>4 DEF InitFunctions, SymEncryptInit, SymDecryptInit, SymInit, AsymEncryptInit, AsymDecryptInit,
                      C_DigestInit, MacSignInit, MacVerifyInit, MacInit, AsymSignInit, AsymVerifyInit,
                      C_FindObjectsInit
  <2> QED BY <2>1 DEF AsymDecryptInitFails
<1>5. CASE CipherFunctions
  <2>1. \/ NullArgument \/ \E d \in Directions : AsymMultiPart(d)
        \/ \E b \in Buffers : AsymDecrypt(b)
    BY <1>3, <1>5 DEF CipherFunctions, SymEncrypt, SymDecrypt, SymSingle, SymEncryptUpdate, SymDecryptUpdate,
                      SymUpdate, SymEncryptFinal, SymDecryptFinal, SymFinal, AsymEncrypt, Under
  <2>2. \E rv \in ReturnCodes : Stay(Reply(rv)) \/ End(Reply(rv))
    BY <2>1 DEF NullArgument, AsymMultiPart, AsymDecrypt, NotInitialised, ReturnCodes
  <2> QED BY <1>1, <2>2
<1>6. CASE OtherFunctions
  <2>1. ~ Mac /\ session.operation \notin {"FIND", "DIGEST", "VERIFY"}
    BY DEF Mac
  <2>2. \/ C_Login \/ C_Logout \/ ContextSpecificLogin
        \/ \E n \in Lengths, b \in Buffers : AsymSign(n, b)
        \/ AsymSignUpdate \/ \E b \in Buffers : AsymSignFinal(b)
    BY <1>6, <2>1 DEF OtherFunctions, C_FindObjectsFinal, C_Digest, C_DigestFinal, C_DigestUpdate, C_DigestKey,
                      C_Sign, C_SignUpdate, C_SignFinal, C_Verify, C_VerifyUpdate, C_VerifyFinal
  <2>3. CASE C_Login \/ C_Logout
    BY <2>3 DEF C_Login, C_Logout
  <2>4. CASE ContextSpecificLogin
    BY <2>4, Replies DEF ContextSpecificLogin, ReturnCodes
  <2>5. CASE \/ \E n \in Lengths, b \in Buffers : AsymSign(n, b)
             \/ AsymSignUpdate \/ \E b \in Buffers : AsymSignFinal(b)
    <3>1. \E rv \in ReturnCodes : End(Reply(rv))
      BY <2>5 DEF AsymSign, AsymSignUpdate, AsymSignFinal, NotInitialised, ReturnCodes
    <3> QED BY <1>1, <3>1
  <2> QED BY <2>2, <2>3, <2>4, <2>5
<1> QED BY <1>4, <1>5, <1>6 DEF Next

\* A key with CKA_ALWAYS_AUTHENTICATE signs or decrypts only after C_Login with
\* CKU_CONTEXT_SPECIFIC has succeeded within the same operation.
THEOREM LoginBeforeUse == Spec => KeyUseReauthenticated
<1>1. ASSUME Inv, [Next]_vars
      PROVE  [reply'.output /\ reply' # reply /\ session.operation \in {"SIGN", "DECRYPT"}
                => (history.asked => history.answered)]_vars
  <2> SUFFICES ASSUME Next, reply'.output, reply' # reply, session.operation \in {"SIGN", "DECRYPT"},
                      history.asked, ~ history.answered
               PROVE  FALSE
    BY <1>1
  <2>1. session.engines = {"asymmetricCryptoOp"} /\ session.reAuthentication
    BY <1>1 DEF Inv, LoginAwaited
  <2>2. reply' = reply \/ reply'.output = FALSE
    BY <1>1, <2>1, NothingWhileWaiting
  <2> QED BY <2>2
<1> QED BY <1>1, InvariantHolds, PTL DEF Spec, KeyUseReauthenticated
=============================================================================
