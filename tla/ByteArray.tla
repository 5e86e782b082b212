------------------------------ MODULE ByteArray ----------------------------
(***************************************************************************)
(* ByteArray (bytearray.cpp): bytes kept in a chain of blocks of one size, *)
(* with a position, the block it is in, a size and a capacity; the codecs  *)
(* for integers and strings on top.  The codecs are scaled down: a byte    *)
(* has Group payload bits and one more, an integer Width bits.  Running    *)
(* off the chain is a fault and ends the program.                          *)
(***************************************************************************)
EXTENDS Integers, Sequences, SequencesExt, FiniteSetsExt

CONSTANTS
  BaseSize,   \* m_baseSize, 4096 in the code
  Group,      \* payload bits of a varint's byte, 7 in the code
  Width,      \* bits of an integer, 32 or 64 in the code
  RawData,    \* byte strings the program writes
  Ints,       \* integers it writes
  MaxSize,    \* bound on the position
  MaxRead,    \* bound on the bytes of a plain read
  MaxWrites   \* bound on the calls that write

PowerOf2[k \in Nat] == IF k = 0 THEN 1 ELSE 2 * PowerOf2[k - 1]
Payload == PowerOf2[Group]     \* the flag of a varint's byte
Byte == 0..(2 * Payload - 1)
Half == PowerOf2[Width - 1]
Mod == 2 * Half

\* Two bytes hold an integer, and an integer holds the length of a string.
ASSUME ByteArrayAssumption ==
  /\ BaseSize \in Nat \ {0} /\ Group \in Nat \ {0} /\ Width \in 1..(2 * (Group + 1))
  /\ RawData \subseteq Seq(Byte) /\ \A bs \in RawData : Len(bs) < Mod
  /\ Ints \subseteq -Half..(Half - 1)
  /\ MaxSize \in Nat /\ MaxRead \in Nat /\ MaxWrites \in Nat

VARIABLES
  ba,        \* the object: blocks, capacity, size, position, current block (0: null)
  m_endian,  \* TRUE: little endian
  moved,     \* bytes the last call was given or returned
  mark,      \* the value last written: its kind, place, byte order and value
  result,    \* what the last typed read returned: kind, place, byte order, value
  writes     \* calls that wrote or made room

vars == <<ba, m_endian, moved, mark, result, writes>>

Fresh == [k \in 1..BaseSize |-> 0]
NoMark == [kind |-> "none"]
NoResult == <<>>
Empty == [blocks |-> <<Fresh>>, capacity |-> BaseSize, size |-> 0, position |-> 0, cur |-> 1,
          fault |-> FALSE]

getReadSize(b) == b.size - b.position
getCapacity(b) == b.capacity - b.position
At(n, b) == IF n <= Len(b.blocks) THEN n ELSE 0   \* the n-th block, or null

-----------------------------------------------------------------------------
\* The chain

\* addCapacity: the blocks for what does not fit; one more for a remainder only when it
\* is larger than the capacity left.
addCapacity(b, n) ==
  LET old_cap == getCapacity(b)
      rest == n - old_cap
      count == rest \div BaseSize + (IF (rest % BaseSize) > old_cap THEN 1 ELSE 0)
  IN  IF old_cap >= n THEN b
      ELSE [b EXCEPT !.blocks = @ \o [k \in 1..count |-> Fresh],
                     !.capacity = @ + count * BaseSize,
                     !.cur = IF old_cap = 0 THEN Len(b.blocks) + 1 ELSE @]

\* Where the k-th byte (from 0) after position p lies when the walk starts in block cur.
Block(cur, p, k) == cur + ((p % BaseSize) + k) \div BaseSize
Offset(p, k) == ((p + k) % BaseSize) + 1

\* The k-th byte of the chain (from 0).
ByteAt(b, k) == b.blocks[k \div BaseSize + 1][(k % BaseSize) + 1]

\* The walk over n bytes dereferences a null block.
RunsOff(b, n) ==
  \/ b.cur = 0
  \/ n > 0 /\ Block(b.cur, b.position, n - 1) > Len(b.blocks)

\* Position and current block after n bytes.
Advance(b, n) ==
  [b EXCEPT !.position = @ + n,
            !.cur = At(Block(b.cur, b.position, n), b)]

\* write(): nothing for no bytes.
write(b, bs) ==
  LET c == addCapacity(b, Len(bs))
      index(n, o) == (n - c.cur) * BaseSize + o - (c.position % BaseSize)
      d == [c EXCEPT !.blocks = [n \in 1..Len(c.blocks) |-> [o \in 1..BaseSize |->
              IF index(n, o) \in 1..Len(bs) THEN bs[index(n, o)] ELSE c.blocks[n][o]]]]
      e == Advance(d, Len(bs))
  IN  IF bs = <<>> \/ b.fault THEN b
      ELSE IF RunsOff(c, Len(bs)) THEN [b EXCEPT !.fault = TRUE]
      ELSE [e EXCEPT !.size = IF e.position > @ THEN e.position ELSE @]

\* The n bytes that follow position p in the chain, from block cur on.
Bytes(b, cur, p, n) == [k \in 1..n |-> b.blocks[Block(cur, p, k - 1)][Offset(p, k - 1)]]

\* read(): throws when there is too little; looks at the current block even for no bytes.
read(b, n) ==
  IF b.fault \/ n > getReadSize(b) THEN [ba |-> b, out |-> <<>>, ok |-> FALSE]
  ELSE IF RunsOff(b, n) THEN [ba |-> [b EXCEPT !.fault = TRUE], out |-> <<>>, ok |-> FALSE]
  ELSE [ba |-> Advance(b, n), out |-> Bytes(b, b.cur, b.position, n), ok |-> TRUE]

\* Mutant: a position at the end of a block stays in that block.
setPositionStays(b, v) ==
  [b EXCEPT !.position = v,
            !.size = IF v > @ THEN v ELSE @,
            !.cur = IF v = 0 THEN 1 ELSE (v + BaseSize - 1) \div BaseSize]

\* setPosition within the capacity: the walk over the blocks, then one further when the
\* position is the end of a block.
setPosition(b, v) ==
  [b EXCEPT !.position = v,
            !.size = IF v > @ THEN v ELSE @,
            !.cur = At(v \div BaseSize + 1, b)]

\* clear(): the blocks after the first are freed, its bytes stay.
clear(b) == [Empty EXCEPT !.blocks = <<b.blocks[1]>>]

\* readFromFile: the file is written in pieces of one block, the last one of what is left.
readFromFile(b, bs) ==
  LET n == (Len(bs) + BaseSize - 1) \div BaseSize
      till(k) == IF k * BaseSize > Len(bs) THEN Len(bs) ELSE k * BaseSize
      after[k \in 0..n] ==
        IF k = 0 THEN b ELSE write(after[k - 1], SubSeq(bs, (k - 1) * BaseSize + 1, till(k)))
  IN  after[n]

\* Mutant: the first piece is as long as a whole block.
getReadBuffersNoOffset(b, len) ==
  LET n == IF len > getReadSize(b) THEN getReadSize(b) ELSE len
      count == (n + BaseSize - 1) \div BaseSize
  IN  [i \in 1..count |-> [block |-> b.cur + i - 1, offset |-> 0,
                           length |-> IF i = count THEN n - (count - 1) * BaseSize ELSE BaseSize]]

\* getReadBuffers(len): the pieces of at most len readable bytes, as block, offset, length.
getReadBuffers(b, len) ==
  LET n == IF len > getReadSize(b) THEN getReadSize(b) ELSE len
      npos == b.position % BaseSize
      count == IF n = 0 THEN 0 ELSE (npos + n + BaseSize - 1) \div BaseSize
      from(i) == IF i = 1 THEN npos ELSE 0
      till(i) == IF i = count THEN npos + n - (count - 1) * BaseSize ELSE BaseSize
  IN  [i \in 1..count |-> [block |-> b.cur + i - 1, offset |-> from(i), length |-> till(i) - from(i)]]

\* What readv or writev sees of the pieces.
Gather(b, iov) ==
  FlattenSeq([i \in 1..Len(iov) |->
     SubSeq(b.blocks[iov[i].block], iov[i].offset + 1, iov[i].offset + iov[i].length)])

\* getWriteBuffers(len): the capacity, then pieces as above over bytes not yet written.
getWriteBuffers(b, len) ==
  LET c == addCapacity(b, len)
  IN  getReadBuffers([c EXCEPT !.size = c.position + len], len)

\* toString: read(buf, size, m_position), which starts from the current block.
toString(b) ==
  IF getReadSize(b) = 0 THEN <<>> ELSE Bytes(b, b.cur, b.position, getReadSize(b))

\* writeToFile: piece after piece, each one block or what is left, less the offset in the
\* block.  A piece that is not positive makes no progress and the walk leaves the chain.
writeToFile(b) ==
  LET step(f) ==
        LET diff == f.pos % BaseSize
            len == (IF f.left > BaseSize THEN BaseSize ELSE f.left) - diff
        IN  IF f.left <= 0 \/ f.lost THEN f
            ELSE IF len <= 0 \/ f.cur > Len(b.blocks) THEN [f EXCEPT !.lost = TRUE]
            ELSE [f EXCEPT !.bytes = @ \o SubSeq(b.blocks[f.cur], diff + 1, diff + len),
                           !.cur = @ + 1, !.pos = @ + len, !.left = @ - len]
      after[k \in 0..getReadSize(b)] ==
        IF k = 0 THEN [bytes |-> <<>>, cur |-> b.cur, pos |-> b.position, left |-> getReadSize(b),
                       lost |-> FALSE]
        ELSE step(after[k - 1])
  IN  after[getReadSize(b)].bytes

-----------------------------------------------------------------------------
\* The codecs

\* EncodeZigzag32/64.  -v of the smallest integer wraps.
EncodeZigzag(v) == IF v < 0 THEN (((-v) % Mod) * 2 - 1) % Mod ELSE (v * 2) % Mod

\* DecodeZigzag32/64: (v >> 1) ^ -(v & 1), as a signed integer.
DecodeZigzag(v) ==
  LET u == IF v % 2 = 1 THEN Mod - 1 - v \div 2 ELSE v \div 2
  IN  IF u >= Half THEN u - Mod ELSE u

\* writeUint32/64: as many bytes as the value needs, the flag on all but the last.
PayloadOf(v, k) == (v \div PowerOf2[Group * (k - 1)]) % Payload   \* the k-th group of bits
EncodeVarint(v) ==
  LET n == CHOOSE k \in 1..Width : /\ v < PowerOf2[Group * k]
                                   /\ k = 1 \/ v >= PowerOf2[Group * (k - 1)]
  IN  [k \in 1..n |-> PayloadOf(v, k) + (IF k < n THEN Payload ELSE 0)]

\* The bytes readUint32/64 takes at most: i = 0, 7, ... below the width.
MaxVarint == (Width + Group - 1) \div Group

\* readUint32/64's sum of the first n payloads, each shifted to its place.
Sum(bs, n) ==
  LET sum[k \in 0..n] ==
        IF k = 0 THEN 0 ELSE sum[k - 1] + (bs[k] % Payload) * PowerOf2[Group * (k - 1)]
  IN  sum[n]

\* Mutant: the decoder's loop stops one byte too early.
DecodeVarintShort(bs) == Sum(bs, IF Len(bs) = MaxVarint THEN Len(bs) - 1 ELSE Len(bs)) % Mod

\* The sum, cut to the width.
DecodeVarint(bs) == Sum(bs, Len(bs)) % Mod

\* readUint32/64: the bytes up to the first without the flag, MaxVarint of them when all
\* have it; a read that throws leaves the bytes before it consumed.
readVarint(b) ==
  LET size == getReadSize(b)
      last == {k \in 1..MaxVarint : k <= size /\ Bytes(b, b.cur, b.position, k)[k] < Payload}
      n == IF last = {} THEN MaxVarint ELSE Min(last)
      r == read(b, IF n > size THEN size ELSE n)
  IN  IF size = 0 THEN [ba |-> b, bs |-> <<>>, ok |-> FALSE]
      ELSE [ba |-> r.ba, bs |-> r.out, ok |-> n <= size]

\* writeFint16 and its like: two bytes, the more significant first unless little endian.
EncodeFixed(v, little) ==
  LET u == v % Mod
      lo == u % (2 * Payload)
      hi == u \div (2 * Payload)
  IN  IF little THEN <<lo, hi>> ELSE <<hi, lo>>

DecodeFixed(bs, little) ==
  LET u == IF little THEN bs[2] * 2 * Payload + bs[1] ELSE bs[1] * 2 * Payload + bs[2]
  IN  IF u % Mod >= Half THEN (u % Mod) - Mod ELSE u % Mod

-----------------------------------------------------------------------------
Init ==
  /\ ba = Empty /\ m_endian = FALSE
  /\ moved = <<>> /\ mark = NoMark /\ result = NoResult /\ writes = 0

\* A call that leaves the object as b, having moved the bytes bs; a fault ends the program.
Becomes(b, bs) ==
  /\ ~ba.fault
  /\ IF b.fault THEN ba' = [ba EXCEPT !.fault = TRUE] /\ UNCHANGED moved
     ELSE ba' = b /\ moved' = bs

\* A call that writes n bytes, or makes room for them, within the bounds.
Writes(n) == /\ ba.position + n <= MaxSize /\ writes < MaxWrites
             /\ writes' = writes + 1

Write(bs) ==
  /\ Writes(Len(bs)) /\ Becomes(write(ba, bs), bs)
  /\ mark' = NoMark /\ result' = NoResult
  /\ UNCHANGED m_endian

ReadFromFile(bs) ==
  /\ Writes(Len(bs)) /\ Becomes(readFromFile(ba, bs), bs)
  /\ mark' = NoMark /\ result' = NoResult
  /\ UNCHANGED m_endian

Read(n) ==
  /\ Becomes(read(ba, n).ba, read(ba, n).out)
  /\ result' = NoResult
  /\ UNCHANGED <<m_endian, mark, writes>>

\* getWriteBuffers: room for len bytes, and the walk over it that makes the pieces.
GetWriteBuffers(len) ==
  LET c == addCapacity(ba, len) IN
  /\ Writes(len)
  /\ Becomes(IF RunsOff(c, len) THEN [ba EXCEPT !.fault = TRUE] ELSE c, <<>>)
  /\ result' = NoResult
  /\ UNCHANGED <<m_endian, mark>>

\* setPosition throws beyond the capacity.
SetPosition(v) ==
  /\ Becomes(IF v > ba.capacity THEN ba ELSE setPosition(ba, v), <<>>)
  /\ result' = NoResult
  /\ UNCHANGED <<m_endian, mark, writes>>

Clear ==
  /\ Becomes(clear(ba), <<>>)
  /\ mark' = NoMark /\ result' = NoResult
  /\ UNCHANGED <<m_endian, writes>>

setIsLittleEndian(val) ==
  /\ m_endian' = val /\ ~ba.fault
  /\ UNCHANGED <<ba, moved, mark, result, writes>>

\* writeInt32/64, writeFint16/32/64 and writeStringVint: one value, remembered.
WriteValue(kind, v) ==
  LET bs == CASE kind = "int"    -> EncodeVarint(EncodeZigzag(v))
              [] kind = "fixed"  -> EncodeFixed(v, m_endian)
              [] kind = "string" -> EncodeVarint(Len(v)) \o v
  IN
  /\ Writes(Len(bs))
  /\ Becomes(IF kind = "string" THEN write(write(ba, EncodeVarint(Len(v))), v) ELSE write(ba, bs),
             bs)
  /\ mark' = [kind |-> kind, at |-> ba.position, little |-> m_endian, value |-> v]
  /\ result' = NoResult
  /\ UNCHANGED m_endian

readInt ==
  LET r == readVarint(ba) IN
  /\ Becomes(r.ba, r.bs)
  /\ result' = IF r.ok THEN <<"int", ba.position, m_endian, DecodeZigzag(DecodeVarint(r.bs))>>
               ELSE NoResult
  /\ UNCHANGED <<m_endian, mark, writes>>

readFint ==
  LET r == read(ba, 2) IN
  /\ Becomes(r.ba, r.out)
  /\ result' = IF r.ok THEN <<"fixed", ba.position, m_endian, DecodeFixed(r.out, m_endian)>>
               ELSE NoResult
  /\ UNCHANGED <<m_endian, mark, writes>>

\* readStringVint: the length stays consumed when the bytes are too few.
readString ==
  LET r == readVarint(ba)
      s == read(r.ba, DecodeVarint(r.bs))
  IN
  /\ Becomes(IF r.ok THEN s.ba ELSE r.ba, IF r.ok /\ s.ok THEN r.bs \o s.out ELSE r.bs)
  /\ result' = IF r.ok /\ s.ok THEN <<"string", ba.position, m_endian, s.out>> ELSE NoResult
  /\ UNCHANGED <<m_endian, mark, writes>>

Next ==
  \/ \E bs \in RawData : Write(bs) \/ ReadFromFile(bs) \/ WriteValue("string", bs)
  \/ \E n \in 0..MaxRead : Read(n)
  \/ \E len \in 1..MaxSize : GetWriteBuffers(len)
  \/ \E v \in 0..MaxSize : SetPosition(v)
  \/ \E v \in Ints, kind \in {"int", "fixed"} : WriteValue(kind, v)
  \/ \E val \in BOOLEAN : setIsLittleEndian(val)
  \/ readInt \/ readFint \/ readString \/ Clear

Spec == Init /\ [][Next]_vars

-----------------------------------------------------------------------------
\* The readable and the consumed bytes, as one sequence.
Contents == [k \in 1..ba.size |-> ByteAt(ba, k - 1)]

\* Through every mixture of calls the chain of blocks behaves like one flat sequence of
\* bytes with a position, until the program is lost in a fault.
Flat == INSTANCE FlatBuffer WITH data <- Contents, pos <- ba.position
FlatSpec == Flat!Spec

\* m_cur is the block of the position, and null exactly at the end of the capacity.
CurIsPosition ==
  ~ba.fault => /\ ba.cur = IF ba.position = ba.capacity THEN 0 ELSE ba.position \div BaseSize + 1
               /\ ba.capacity = Len(ba.blocks) * BaseSize /\ ba.size <= ba.capacity

\* A value read at the place where it was written, in the same byte order, is that value,
\* across blocks and at the limits of its width.
ReadBack ==
  result # NoResult /\ mark # NoMark
    /\ result[1] = mark.kind /\ result[2] = mark.at
    /\ (mark.kind = "fixed" => result[3] = mark.little)
    => result[4] = mark.value

\* The places a vector of pieces covers, in order.
Places(iov) ==
  FlattenSeq([i \in 1..Len(iov) |->
     [k \in 1..iov[i].length |-> (iov[i].block - 1) * BaseSize + iov[i].offset + k]])

\* The pieces given to readv, toString and, from the start of a block, writeToFile are the
\* readable bytes in order and leave nothing out; the pieces given to writev are the room
\* after the position.
PiecesExact ==
  ~ba.fault =>
    /\ \A len \in 1..MaxSize :
         LET n == IF len > getReadSize(ba) THEN getReadSize(ba) ELSE len
         IN  Gather(ba, getReadBuffers(ba, len)) = SubSeq(Contents, ba.position + 1, ba.position + n)
    /\ \A len \in 1..MaxSize : ba.position + len <= addCapacity(ba, len).capacity =>
         Places(getWriteBuffers(ba, len)) = [k \in 1..len |-> ba.position + k]
    /\ toString(ba) = SubSeq(Contents, ba.position + 1, ba.size)
    /\ ba.position % BaseSize = 0 => writeToFile(ba) = SubSeq(Contents, ba.position + 1, ba.size)

\* write() and the reads never run off the chain: addCapacity has made room.
NeverRunsOff == ~ba.fault
=============================================================================
