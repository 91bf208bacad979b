------------------------------ MODULE ReadData ------------------------------
(***************************************************************************)
(* The bytes of a file: the loop of read_data and the position file_read   *)
(* keeps (file_system.c), under the program cat (ece391cat.c), which reads *)
(* a file chunk by chunk and writes each chunk to file 1.                  *)
(*                                                                         *)
(* A byte of the image is named by its place: <<data block, byte in it>>.  *)
(***************************************************************************)
EXTENDS Integers, Sequences

CONSTANTS
  FS_BLOCK_SIZE,
  num_datablocks,  \* data blocks of the image
  DATA_BLK,        \* block numbers in an inode
  Chunks           \* lengths that programs pass to read; cat passes 1024

ASSUME ReadDataAssumption ==
  /\ FS_BLOCK_SIZE \in Nat \ {0} /\ num_datablocks \in Nat /\ DATA_BLK \in Nat \ {0}
  /\ Chunks \subseteq Nat \ {0}

\* An entry of data_blocks; num_datablocks stands for every number too large.
BlockNumbers == 0 .. num_datablocks

VARIABLES
  size, data_blocks,  \* the inode
  file_position,      \* of the descriptor
  nbytes,             \* the chunk the program asks for
  cur_datablk, byte_in_blk, cur_addr, copied_bytes_done,  \* of read_data
  chunk,              \* the buffer, as far as it is filled
  reader,             \* "program", "copying", "exited"
  cnt,                \* what the last read returned, 1 before the first
  written             \* what cat has written

readDataVars == <<size, data_blocks, file_position, nbytes, cur_datablk, byte_in_blk,
                  cur_addr, copied_bytes_done, chunk, reader, cnt, written>>
inodeVars == <<size, data_blocks>>
loopVars == <<cur_datablk, byte_in_blk, cur_addr>>

\* Blocks of the file have numbers inside the image; what the other entries of
\* the inode hold is arbitrary.
ReadDataInit ==
  /\ data_blocks \in [0 .. DATA_BLK - 1 -> BlockNumbers]
  /\ size \in 0 .. (DATA_BLK - 1) * FS_BLOCK_SIZE
  /\ \A b \in 0 .. DATA_BLK - 1 :
       b * FS_BLOCK_SIZE < size => data_blocks[b] < num_datablocks
  /\ nbytes \in Chunks
  /\ file_position = 0
  /\ cur_datablk = 0 /\ byte_in_blk = 0 /\ cur_addr = <<0, 0>>
  /\ copied_bytes_done = 0
  /\ chunk = <<>>
  /\ reader = "program" /\ cnt = 1 /\ written = <<>>

\* The place of byte i of the file.
PlaceOf(i) == <<data_blocks[i \div FS_BLOCK_SIZE], i % FS_BLOCK_SIZE>>

\* read(fd, buf, nbytes) up to the loop. The first block number is not
\* compared with num_datablocks.
Call ==
  /\ reader = "program" /\ cnt > 0
  /\ cur_datablk' = file_position \div FS_BLOCK_SIZE
  /\ byte_in_blk' = file_position % FS_BLOCK_SIZE
  /\ cur_addr' = PlaceOf(file_position)
  /\ copied_bytes_done' = 0
  /\ chunk' = <<>>
  /\ reader' = "copying"
  /\ UNCHANGED <<file_position, cnt, written>>

\* read_data returns r, and file_read adds it to the position, -1 too.
ReturnRead(r) ==
  /\ cnt' = r
  /\ file_position' = file_position + r
  /\ reader' = "program"
  /\ UNCHANGED <<copied_bytes_done, chunk, written>>

AtBlockEnd == byte_in_blk >= FS_BLOCK_SIZE

StaleAddress == <<data_blocks[cur_datablk], 0>>      \* mutant

\* cur_addr at the start of the next block.
NextAddress == <<data_blocks[cur_datablk + 1], 0>>

SizeReachedLate == copied_bytes_done + file_position > size \* mutant

SizeReached == copied_bytes_done + file_position >= size

\* One byte is copied from address a, in block number blk of the file.
CopyByte(blk, a) ==
  /\ chunk' = Append(chunk, a)
  /\ copied_bytes_done' = copied_bytes_done + 1
  /\ cur_datablk' = blk
  /\ byte_in_blk' = a[2] + 1
  /\ cur_addr' = <<a[1], a[2] + 1>>
  /\ UNCHANGED <<file_position, reader, cnt, written>>

\* One iteration. The next block number is tested before the size: a read
\* that ends with the file at the end of a block fails if the entry behind
\* the file's last is not a block of the image.
read_data ==
  /\ reader = "copying"
  /\ \/ /\ copied_bytes_done = nbytes
        /\ ReturnRead(copied_bytes_done)
        /\ UNCHANGED loopVars
     \/ /\ copied_bytes_done < nbytes
        /\ AtBlockEnd
        /\ data_blocks[cur_datablk + 1] >= num_datablocks
        /\ ReturnRead(-1)
        /\ UNCHANGED loopVars
     \/ /\ copied_bytes_done < nbytes
        /\ AtBlockEnd
        /\ data_blocks[cur_datablk + 1] < num_datablocks
        /\ IF SizeReached
           THEN ReturnRead(copied_bytes_done) /\ UNCHANGED loopVars
           ELSE CopyByte(cur_datablk + 1, NextAddress)
     \/ /\ copied_bytes_done < nbytes
        /\ ~AtBlockEnd
        /\ IF SizeReached
           THEN ReturnRead(copied_bytes_done) /\ UNCHANGED loopVars
           ELSE CopyByte(cur_datablk, cur_addr)

\* cat writes what it read and asks for the next chunk, as long as the last
\* read returned something.
cat ==
  /\ reader = "program" /\ chunk # <<>> /\ cnt > 0
  /\ written' = written \o chunk
  /\ chunk' = <<>>
  /\ UNCHANGED <<file_position, loopVars, copied_bytes_done, reader, cnt>>

CallNext == chunk = <<>> /\ Call

\* main returns 0 at the end of the file and 3 after a failed read.
Exit ==
  /\ reader = "program" /\ cnt <= 0
  /\ reader' = "exited"
  /\ UNCHANGED <<file_position, loopVars, copied_bytes_done, chunk, cnt, written>>

ReadDataNext ==
  /\ CallNext \/ read_data \/ cat \/ Exit
  /\ UNCHANGED <<inodeVars, nbytes>>

ReadDataSpec == ReadDataInit /\ [][ReadDataNext]_readDataVars

-----------------------------------------------------------------------------

\* A read copies the bytes of the file in order from the position on, through
\* every change of block, and none behind the end of the file. It fails only
\* at the end of a block whose successor has no number in the image.
ReadsInOrder ==
  /\ reader = "copying" =>
       \A k \in 1 .. Len(chunk) :
         /\ chunk[k] = PlaceOf(file_position + k - 1)
         /\ file_position + k <= size
  /\ reader = "copying" => Len(chunk) = copied_bytes_done
  /\ cnt = -1 =>
       LET reached == file_position + 1 + copied_bytes_done IN
       /\ reached % FS_BLOCK_SIZE = 0
       /\ data_blocks[reached \div FS_BLOCK_SIZE] = num_datablocks

\* When cat ends well it has written every byte of the file once and in
\* order. It ends badly only if its chunks do not divide a block: 1024 does,
\* so no read of cat meets the end of a block on its way.
CatWritesFile ==
  reader = "exited" =>
    /\ cnt = 0 => written = [i \in 1 .. size |-> PlaceOf(i - 1)]
    /\ cnt = -1 => FS_BLOCK_SIZE % nbytes # 0

=============================================================================
