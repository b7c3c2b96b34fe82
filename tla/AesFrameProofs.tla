--------------------------- MODULE AesFrameProofs ---------------------------
(***************************************************************************)
(* The arithmetic of the AES frame, for every width of the integers: which *)
(* sizes wrap around, and that DecryptData takes no frame that is shorter  *)
(* than its field says.  The run tries it on one byte.                     *)
(***************************************************************************)
EXTENDS AesFrame, TLAPS

\* A number below the modulus is its own remainder, and the modulus itself leaves 0.
LEMMA SmallMod ==
  ASSUME NEW m \in Nat \ {0}
  PROVE  /\ \A n \in 0 .. m - 1 : n % m = n
         /\ m % m = 0
  OBVIOUS

\* What the rounding does, before it wraps around.
LEMMA Rounding ==
  ASSUME NEW n \in Nat, NEW up,
         up = IF n % 16 = 0 THEN n ELSE (n \div 16 + 1) * 16
  PROVE  up \in Nat /\ up % 16 = 0 /\ n <= up /\ up < n + 16
  OBVIOUS

\* Between two multiples of the block there is at least a block.
LEMMA Blocks ==
  ASSUME NEW m \in Nat, NEW n \in Nat, m % 16 = 0, n % 16 = 0, m < n
  PROVE  m + 16 <= n
  OBVIOUS

-----------------------------------------------------------------------------

\* What the frame's size is before it wraps around, of any size EncryptData accepts.
LEMMA FrameRounding ==
  ASSUME NEW size \in 0 .. MaxMsgSize,
         NEW n, n = size + 20,
         NEW up, up = IF n % 16 = 0 THEN n ELSE (n \div 16 + 1) * 16
  PROVE  /\ Word \in Nat \ {0} /\ Word % 16 = 0 /\ 64 <= Word
         /\ size \in Nat /\ n \in Nat /\ n \in 0 .. Word - 1
         /\ up \in Nat /\ up % 16 = 0 /\ n <= up /\ up < n + 16 /\ up <= Word
         /\ FrameSize(size) = IF n % 16 = 0 THEN n ELSE up % Word
<1>1. Word \in Nat \ {0} /\ Word % 16 = 0 /\ 64 <= Word
  BY AesAssumption DEF blockSize
<1>2. size \in Nat /\ n \in 0 .. Word - 1 /\ n \in Nat
  BY <1>1 DEF MaxMsgSize, Header, blockSize
<1>3. n % Word = n
  BY <1>1, <1>2, SmallMod
<1>4. up \in Nat /\ up % 16 = 0 /\ n <= up /\ up < n + 16
  BY <1>2, Rounding
<1>5. FrameSize(size) = IF n % 16 = 0 THEN n ELSE up % Word
  BY <1>3 DEF FrameSize, Header, blockSize
<1>6. up <= Word
  <2> SUFFICES ASSUME Word < up
               PROVE  FALSE
    BY <1>1, <1>4
  <2>1. Word + 16 <= up
    BY <1>1, <1>4, Blocks
  <2> QED
    BY <1>1, <1>2, <1>4, <2>1
<1> QED
  BY <1>1, <1>2, <1>4, <1>5, <1>6

\* The frame has room for what EncryptData writes to it, with less than a block to
\* spare, for every size up to fifteen below MaxMsgSize (aes.cpp:43).
THEOREM FrameHoldsAlways == \A size \in 0 .. LargestFitting : FrameHolds(size)
<1> SUFFICES ASSUME NEW size \in 0 .. LargestFitting
             PROVE  FrameHolds(size)
  OBVIOUS
<1>1. size \in 0 .. MaxMsgSize
  BY AesAssumption DEF LargestFitting, MaxMsgSize, Header, blockSize
<1>2. PICK n, up : n = size + 20 /\ up = IF n % 16 = 0 THEN n ELSE (n \div 16 + 1) * 16
  OBVIOUS
<1>3. /\ Word \in Nat \ {0} /\ Word % 16 = 0
      /\ size \in Nat /\ n \in Nat
      /\ up \in Nat /\ up % 16 = 0 /\ n <= up /\ up < n + 16
      /\ FrameSize(size) = IF n % 16 = 0 THEN n ELSE up % Word
  BY <1>1, <1>2, FrameRounding
<1>4. up < Word
  <2>1. size <= Word - 36
    BY <1>3 DEF LargestFitting, MaxMsgSize, Header, blockSize
  <2>2. n = size + 20
    BY <1>2
  <2> QED
    BY <1>3, <2>1, <2>2
<1>5. FrameSize(size) = up
  <2>1. n % 16 = 0 => up = n
    BY <1>2
  <2>2. up % Word = up
    BY <1>3, <1>4, SmallMod
  <2> QED
    BY <1>3, <2>1, <2>2
<1>6. n = size + 20
  BY <1>2
<1> QED
  BY <1>3, <1>5, <1>6 DEF FrameHolds, Header, blockSize

\* EncryptData accepts the fifteen sizes above those and makes an empty frame of each,
\* which it then writes the random block, the size and the data to (aes.cpp:47-58).
THEOREM LastFifteenOverflow ==
  \A size \in LargestFitting + 1 .. MaxMsgSize :
    EncryptData(1, size) = "NoError" /\ FrameSize(size) = 0
<1> SUFFICES ASSUME NEW size \in LargestFitting + 1 .. MaxMsgSize
             PROVE  EncryptData(1, size) = "NoError" /\ FrameSize(size) = 0
  OBVIOUS
<1>1. size \in 0 .. MaxMsgSize /\ Word - 15 <= size + 20
  BY AesAssumption DEF LargestFitting, MaxMsgSize, Header, blockSize
<1>2. PICK n, up : n = size + 20 /\ up = IF n % 16 = 0 THEN n ELSE (n \div 16 + 1) * 16
  OBVIOUS
<1>3. /\ Word \in Nat \ {0} /\ Word % 16 = 0 /\ 64 <= Word
      /\ size \in Nat /\ n \in Nat /\ n \in 0 .. Word - 1
      /\ up \in Nat /\ up % 16 = 0 /\ n <= up /\ up < n + 16 /\ up <= Word
      /\ FrameSize(size) = IF n % 16 = 0 THEN n ELSE up % Word
  BY <1>1, <1>2, FrameRounding
<1>4. Word - 15 <= n
  BY <1>1, <1>2
<1>5. n % 16 # 0
  <2> SUFFICES ASSUME n % 16 = 0
               PROVE  FALSE
    OBVIOUS
  <2>1. n < Word
    BY <1>3
  <2>2. n + 16 <= Word
    BY <1>3, <2>1, Blocks
  <2> QED
    BY <1>3, <1>4, <2>2
<1>6. up = Word
  <2> SUFFICES ASSUME up < Word
               PROVE  FALSE
    BY <1>3
  <2>1. up + 16 <= Word
    BY <1>3, Blocks
  <2> QED
    BY <1>3, <1>4, <2>1
<1>7. FrameSize(size) = 0
  BY <1>3, <1>5, <1>6, SmallMod
<1>8. EncryptData(1, size) = "NoError"
  BY <1>1, AesAssumption DEF EncryptData, MaxMsgSize, Header, blockSize
<1> QED
  BY <1>7, <1>8

\* Whatever a frame's size and its field are, DecryptData hands Unzip only bytes of the
\* frame, and it accepts what EncryptData made of 13 bytes or more (aes.cpp:80).
THEOREM DecryptsFramesAlways ==
  \A size \in 0 .. SizeRange - 1, finalSize \in 0 .. Word - 1 : DecryptsFrames(size, finalSize)
<1> SUFFICES ASSUME NEW size \in 0 .. SizeRange - 1, NEW finalSize \in 0 .. Word - 1
             PROVE  DecryptsFrames(size, finalSize)
  OBVIOUS
<1>1. Word \in Nat \ {0} /\ SizeRange \in Nat \ {0} /\ 64 <= Word /\ Word <= SizeRange
  BY AesAssumption DEF blockSize
<1>2. size \in Nat /\ finalSize \in Nat
  BY <1>1
<1>3. size >= 35 => (size - 35) % SizeRange = size - 35
  BY <1>1, <1>2, SmallMod
<1>4. ASSUME DecryptData(size, finalSize) = "NoError"
      PROVE  13 <= finalSize /\ finalSize + 20 <= size /\ size < finalSize + 36
  <2>1. size >= 20 /\ size % 16 = 0 /\ finalSize <= size - 20
        /\ ~(finalSize < (size - 35) % SizeRange)
    BY <1>1, <1>2, <1>4 DEF DecryptData, Header, blockSize
  <2>2. CASE size >= 35
    <3>1. size >= 48
      BY <1>2, <2>1, <2>2
    <3> QED
      BY <1>1, <1>2, <1>3, <2>1, <2>2, <3>1
  <2>3. CASE size < 35
    <3>1. size = 32
      BY <1>2, <2>1, <2>3
    <3>2. (size - 35) % SizeRange = SizeRange - 3
      BY <1>1, <3>1
    <3> QED
      BY <1>1, <1>2, <2>1, <3>1, <3>2
  <2> QED
    BY <1>2, <2>2, <2>3
<1>5. ASSUME 13 <= finalSize, finalSize <= LargestFitting, size = FrameSize(finalSize)
      PROVE  DecryptData(size, finalSize) = "NoError"
  <2>1. finalSize \in 0 .. LargestFitting
    BY <1>1, <1>2, <1>5 DEF LargestFitting, MaxMsgSize, Header, blockSize
  <2>2. finalSize + 20 <= size /\ size < finalSize + 36
    BY <1>5, <2>1, FrameHoldsAlways DEF FrameHolds, Header, blockSize
  <2>3. size % 16 = 0
    <3> DEFINE n == finalSize + 20
               up == IF n % 16 = 0 THEN n ELSE (n \div 16 + 1) * 16
    <3>1. n \in Nat /\ n \in 0 .. Word - 1
      BY <1>1, <1>2, <1>5 DEF LargestFitting, MaxMsgSize, Header, blockSize
    <3>2. n % Word = n
      BY <1>1, <3>1, SmallMod
    <3>3. up \in Nat /\ up % 16 = 0 /\ up < n + 16
      BY <3>1, Rounding
    <3>4. up < Word
      <4> HIDE DEF up
      <4> QED
        BY <1>1, <1>2, <1>5, <3>1, <3>3 DEF LargestFitting, MaxMsgSize, Header, blockSize
    <3>5. up % Word = up
      BY <1>1, <3>3, <3>4, SmallMod
    <3>6. size = up
      BY <1>5, <3>2, <3>5 DEF FrameSize, Header, blockSize
    <3> QED
      BY <3>3, <3>6
  <2>4. size >= 48
    BY <1>2, <1>5, <2>2, <2>3
  <2>5. ~(finalSize < (size - 35) % SizeRange) /\ ~(finalSize > size - 20)
    BY <1>1, <1>2, <1>3, <2>2, <2>4
  <2> QED
    BY <1>2, <2>3, <2>4, <2>5 DEF DecryptData, Header, blockSize
<1> QED
  BY <1>1, <1>2, <1>4, <1>5 DEF DecryptsFrames, Header, blockSize

\* Both, for a vector of any size: what the run tries on one byte.  Of EncryptData, up to
\* LargestFitting.
THEOREM FramesHoldAlways == vectorSize \in 0 .. SizeRange - 1 => FramesHold
<1> SUFFICES ASSUME vectorSize \in 0 .. SizeRange - 1
             PROVE  FramesHold
  OBVIOUS
<1>1. ASSUME EncryptData(1, vectorSize) = "NoError", vectorSize <= LargestFitting
      PROVE  FrameHolds(vectorSize)
  <2>1. vectorSize \in 0 .. LargestFitting
    BY <1>1, AesAssumption DEF LargestFitting, MaxMsgSize, Header, blockSize
  <2> QED
    BY <2>1, FrameHoldsAlways
<1>2. \A finalSize \in 0 .. Word - 1 : DecryptsFrames(vectorSize, finalSize)
  BY DecryptsFramesAlways
<1> QED
  BY <1>1, <1>2 DEF FramesHold

=============================================================================
