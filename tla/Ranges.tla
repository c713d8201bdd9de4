-------------------------------- MODULE Ranges --------------------------------
(* A GET of a byte range, from the Range header down to the chunks of the     *)
(* shard files and back: the handler (object-handlers.go, httprange.go), the  *)
(* loop of GetObject over the parts (xl-v1-object.go) and that of             *)
(* erasureReadFile over the blocks of a part (erasure-readfile.go), on files  *)
(* as erasureCreateFile lays them out.                                        *)
(*                                                                            *)
(* A byte is its position in the object, so what is served can be compared    *)
(* with what was asked for.  The padding of a last chunk is -1.  Which disks  *)
(* answer and what is reconstructed from parity is the subject of XLObject:   *)
(* here the data shards are at hand.                                          *)
EXTENDS Integers, Sequences, SequencesExt

CONSTANTS PartLists,    \* sizes of the parts of the objects stored
          BlockSizes,   \* values of blockSizeV1 tried
          DataBlocks,   \* numbers of data disks tried
          MaxPos        \* bound: largest position in a Range header

ASSUME RangesAssumption == /\ BlockSizes \subseteq Nat \ {0}
                           /\ DataBlocks \subseteq Nat \ {0}
                           /\ MaxPos \in Nat

VARIABLES get           \* the request under way and how far it has come

rangeVars == <<get>>

(* A Range header: none, or its two positions, either of them left out *)
NoPos == -1
Headers == {[given |-> FALSE, first |-> NoPos, last |-> NoPos]} \cup
           [given : {TRUE}, first : NoPos .. MaxPos, last : NoPos .. MaxPos]

noGet == [pc |-> "idle", parts |-> <<>>, blockSize |-> 1, dataBlocks |-> 1,
          header |-> CHOOSE h \in Headers : ~h.given,
          offset |-> 0, length |-> 0,              \* of the request, in the object
          part |-> 0, last |-> 0, partOffset |-> 0, readSize |-> 0,
          block |-> 0, written |-> 0, total |-> 0, out |-> <<>>]

RangesInit == get = noGet

sizeOf(parts) == FoldSeq(+, 0, parts)

-----------------------------------------------------------------------------
(* parseRequestRange: a range, an answer "invalid", or no range at all *)

lastBytes(n, size) == IF n >= size THEN 0 ELSE size - n

parseRequestRange(h, size) ==
  LET range(a, b) == [ok |-> "range", offset |-> a, length |-> 1 + b - a]
      whole == [ok |-> "whole", offset |-> 0, length |-> size]
      invalid == [ok |-> "invalid", offset |-> 0, length |-> 0]
  IN CASE h.first # NoPos /\ h.last # NoPos /\ h.first > h.last -> whole
       [] h.first # NoPos /\ h.first >= size -> invalid
       [] h.first # NoPos /\ h.last # NoPos -> range(h.first, IF h.last >= size THEN size - 1 ELSE h.last)
       [] h.first # NoPos -> range(h.first, size - 1)
       [] h.last = 0 -> invalid
       [] h.last # NoPos -> range(lastBytes(h.last, size), size - 1)
       [] OTHER -> whole

-----------------------------------------------------------------------------
(* The layout of a part on the disks *)

getChunkSizeDown(blockSize, dataBlocks) == blockSize \div dataBlocks

getChunkSize(blockSize, dataBlocks) == (blockSize + dataBlocks - 1) \div dataBlocks

partStart(parts, p) == sizeOf(SubSeq(parts, 1, p))     \* p parts before this one

(* rs.Split of one block of n bytes from position start: chunk i of it *)
split(start, n, dataBlocks, i) ==
  LET per == (n + dataBlocks - 1) \div dataBlocks
  IN [j \in 1 .. per |-> LET k == (i - 1) * per + j IN IF k <= n THEN start + k - 1 ELSE -1]

(* The shard file of data disk i, block after block *)
erasureCreateFile(g, i) ==
  LET size == g.parts[g.part + 1]
      start == partStart(g.parts, g.part)
      blocks == (size + g.blockSize - 1) \div g.blockSize
      len(b) == IF b < blocks THEN g.blockSize ELSE size - (blocks - 1) * g.blockSize
  IN FlattenSeq([b \in 1 .. blocks |-> split(start + (b - 1) * g.blockSize, len(b), g.dataBlocks, i)])

-----------------------------------------------------------------------------
(* GetObject *)

(* The part that holds an offset, counted from 0, and the offset in it *)
ObjectToPartOffset(parts, offset) ==
  IF offset = 0 THEN [ok |-> TRUE, part |-> 0, offset |-> 0]
  ELSE LET here == {p \in 0 .. Len(parts) - 1 : offset - partStart(parts, p) < parts[p + 1]}
       IN IF here = {} THEN [ok |-> FALSE, part |-> 0, offset |-> 0]
          ELSE LET p == CHOOSE p \in here : \A q \in here : p <= q
               IN [ok |-> TRUE, part |-> p, offset |-> offset - partStart(parts, p)]

(* GetObjectHandler: the header is read against the object's size *)
GetObjectHandler ==
  /\ get.pc = "idle"
  /\ \E parts \in PartLists, bs \in BlockSizes, d \in DataBlocks, h \in Headers :
       LET size == sizeOf(parts)
           r == IF h.given THEN parseRequestRange(h, size) ELSE [ok |-> "whole", offset |-> 0, length |-> size]
       IN get' = [noGet EXCEPT !.pc = IF r.ok = "invalid" THEN "error" ELSE "object",
                    !.parts = parts, !.blockSize = bs, !.dataBlocks = d, !.header = h,
                    !.offset = r.offset, !.length = r.length]

(* GetObject up to its loop *)
GetObjectRange ==
  LET first == ObjectToPartOffset(get.parts, get.offset)
      last == ObjectToPartOffset(get.parts, get.offset + get.length - 1)
      size == sizeOf(get.parts)
  IN
  /\ get.pc = "object"
  /\ get' = IF get.offset > size \/ get.offset + get.length > size \/ ~first.ok \/ ~last.ok
              THEN [get EXCEPT !.pc = "error"]
              ELSE [get EXCEPT !.pc = "parts", !.part = first.part, !.partOffset = first.offset, !.last = last.part]

(* The loop over the parts, up to the read of one *)
NextPart ==
  /\ get.pc = "parts"
  /\ get' = IF get.part > get.last \/ get.length = get.total
              THEN [get EXCEPT !.pc = "done"]
              ELSE LET left == get.parts[get.part + 1] - get.partOffset
                       size == IF left > get.length - get.total THEN get.length - get.total ELSE left
                   IN [get EXCEPT !.pc = "block", !.readSize = size, !.written = 0,
                                  !.block = get.partOffset \div get.blockSize]

(* The chunks that one round of erasureReadFile reads: the last block of the  *)
(* part is shorter, its place in the shard file is a multiple of chunkSize    *)
curBlockSize(g) ==
  LET size == g.parts[g.part + 1]
  IN IF (g.partOffset + g.written) \div g.blockSize = size \div g.blockSize
       THEN size % g.blockSize ELSE g.blockSize

readChunk(g, i) ==
  LET file == erasureCreateFile(g, i)
      at == g.block * getChunkSize(g.blockSize, g.dataBlocks)
      n == getChunkSize(curBlockSize(g), g.dataBlocks)
  IN IF at + n > Len(file) THEN <<>> ELSE SubSeq(file, at + 1, at + n)

(* writeDataBlocks: `length' bytes of the block from `offset' on *)
writeDataBlocks(chunks, offset, length) ==
  LET data == FlattenSeq(chunks)
  IN SubSeq(data, offset + 1, IF offset + length <= Len(data) THEN offset + length ELSE Len(data))

(* One round of erasureReadFile, and what GetObject does once a part is read *)
erasureReadFile ==
  LET g == get
      startBlock == g.partOffset \div g.blockSize
      endBlock == (g.partOffset + g.readSize) \div g.blockSize
      offset == IF g.block = startBlock THEN g.partOffset % g.blockSize ELSE 0
      most == curBlockSize(g) - offset
      length == IF g.readSize - g.written < most THEN g.readSize - g.written ELSE most
      chunks == [i \in 1 .. g.dataBlocks |-> readChunk(g, i)]
      bytes == writeDataBlocks(chunks, offset, length)
      written == g.written + Len(bytes)
  IN
  /\ g.pc = "block"
  /\ get' = CASE \E i \in 1 .. g.dataBlocks : chunks[i] = <<>> -> [g EXCEPT !.pc = "error"]
              [] Len(FlattenSeq(chunks)) < length -> [g EXCEPT !.pc = "error"]
              [] written = g.readSize \/ g.block = endBlock ->
                   [g EXCEPT !.pc = "parts", !.out = @ \o bytes, !.total = @ + written,
                             !.part = @ + 1, !.partOffset = 0]
              [] OTHER -> [g EXCEPT !.out = @ \o bytes, !.written = written, !.block = @ + 1]

RangesNext == GetObjectHandler \/ GetObjectRange \/ NextPart \/ erasureReadFile

RangesSpec == RangesInit /\ [][RangesNext]_rangeVars

-----------------------------------------------------------------------------
(* What the header means, by itself: the positions of the object that it      *)
(* names, all of them if it is absent or makes no sense.                      *)
wanted(g) ==
  LET size == sizeOf(g.parts)
      h == g.header
      senseless == ~h.given \/ (h.first = NoPos /\ h.last = NoPos)
                            \/ (h.first # NoPos /\ h.last # NoPos /\ h.first > h.last)
      named(x) == \/ senseless
                  \/ h.first # NoPos /\ h.first <= x /\ (h.last # NoPos => x <= h.last)
                  \/ h.first = NoPos /\ h.last # NoPos /\ size - x <= h.last
  IN SelectSeq([x \in 1 .. size |-> x - 1], named)

(* A range request is answered with the bytes it names, in order and nothing  *)
(* else - across parts, across blocks whose last one is shorter, over chunks  *)
(* with padding - and fails only if it names none.                            *)
RangeServed == /\ get.pc = "done" => get.out = wanted(get)
               /\ get.pc = "error" => wanted(get) = <<>>

(* Every object that is there can be read: an empty one is served as such.    *)
(* GetObjectHandler: "If ObjectAPI.GetObject did not return error and no data *)
(* has been written it would mean that it is a 0-byte object."                *)
EmptyServed == get.pc = "error" => get.header.given

=============================================================================
