------------------------------ MODULE AesFrame ------------------------------
(***************************************************************************)
(* The frame of crypto/aes.cpp: a random block, the size of the zipped     *)
(* data in four bytes, the data, and what is missing to a whole block.     *)
(* Sizes only: the cipher, gzip and the bytes are Crypto++'s.  The frame's *)
(* size is a uint32_t and the size of a vector a size_t, and both wrap     *)
(* around.                                                                 *)
(***************************************************************************)
EXTENDS Integers

CONSTANTS Word,      \* 2^32, how many values a uint32_t has
          SizeRange  \* 2^64, how many values a size_t has

VARIABLE vectorSize \* the size of the vector a call is given

blockSize == 16
Header == blockSize + 4

ASSUME AesAssumption ==
  /\ Word \in Nat /\ SizeRange \in Nat
  /\ Word % blockSize = 0 /\ 4 * blockSize <= Word /\ Word <= SizeRange

\* UINT_MAX - 16 - 4.
MaxMsgSize == Word - 1 - Header

\* finalSize of EncryptData, for size bytes of zipped data.
FrameSizeAlways(size) == ((size + Header) \div blockSize + 1) * blockSize

FrameSize(size) ==
  LET finalSize == (size + Header) % Word
  IN  IF finalSize % blockSize = 0 THEN finalSize
      ELSE ((finalSize \div blockSize + 1) * blockSize) % Word

\* EncryptData, where zip gives size bytes.
EncryptData(inSize, size) ==
  IF inSize = 0 THEN "InvalidInput"
  ELSE IF size > MaxMsgSize THEN "InputTooLarge"
  ELSE "NoError"

\* DecryptData of size bytes whose field says finalSize, up to Unzip.
DecryptData(size, finalSize) ==
  IF \/ size < Header \/ size % blockSize # 0
     \/ finalSize < (size - Header - 15) % SizeRange
     \/ finalSize > size - Header
  THEN "InvalidInput" ELSE "NoError"

-----------------------------------------------------------------------------

\* The frame has room for what is written to it, and less than a block to spare.
FrameHolds(size) ==
  /\ size + Header <= FrameSize(size)
  /\ FrameSize(size) < size + Header + blockSize

\* The largest size whose frame does not wrap around, which is not MaxMsgSize.
LargestFitting == MaxMsgSize - 15

\* DecryptData accepts the frames EncryptData makes of at least 13 bytes (gzip makes 18
\* or more), and nothing that would have Unzip read behind the frame, although the
\* size_t it compares with wraps around for a frame of two blocks (aes.cpp:80).
DecryptsFrames(size, finalSize) ==
  /\ DecryptData(size, finalSize) = "NoError" =>
       13 <= finalSize /\ finalSize + Header <= size /\ size < finalSize + Header + blockSize
  /\ 13 <= finalSize /\ finalSize <= LargestFitting /\ size = FrameSize(finalSize) =>
       DecryptData(size, finalSize) = "NoError"

\* EncryptData writes within its frame for every size up to LargestFitting, and
\* DecryptData gives Unzip what is in the frame it is given and nothing else.  The last
\* fifteen sizes that EncryptData accepts are left out, because for them it is false:
\* their frame wraps around to nothing and is written to (aes.cpp:47-58), although
\* MaxMsgSize is said to guarantee room (aes.hpp:11).
FramesHold ==
  /\ EncryptData(1, vectorSize) = "NoError" /\ vectorSize <= LargestFitting => FrameHolds(vectorSize)
  /\ \A finalSize \in 0 .. Word - 1 : DecryptsFrames(vectorSize, finalSize)

=============================================================================
