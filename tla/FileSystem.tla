----------------------------- MODULE FileSystem -----------------------------
(***************************************************************************)
(* The read-only file system of filesys_mod.c, as pure operators: the      *)
(* directory lookups (read_dentry_by_name, read_dentry_by_index) and       *)
(* read_data, which copies a byte range of a file out of its data blocks.  *)
(*                                                                         *)
(* An inode is [file_length |-> n, dblock_numbers |-> s], s of length      *)
(* MAX_DBLOCKS_PER_FILE like the fixed array of the inode struct.  Data is *)
(* abstracted to addresses: the byte at index i of data block b is <<b, i>>*)
(* so a copy is the sequence of addresses memcpy reads.  An index of KB4   *)
(* or more lies outside the block, in whatever memory follows it.          *)
(*                                                                         *)
(* The code computes in uint32_t; WIDTH scales that width down so that     *)
(* TLC can enumerate every value a caller may pass, a negative int32_t     *)
(* length included (it arrives as a value of 2^(WIDTH-1) or more).         *)
(***************************************************************************)
EXTENDS Integers, Sequences

CONSTANTS
    KB4,                    \* bytes per data block (4096 in the build)
    MAX_DBLOCKS_PER_FILE,   \* filesys_mod.h: entries of dblock_numbers
    WIDTH                   \* bits of uint32_t (32 in the build)

ASSUME /\ KB4 \in Nat \ {0}
       /\ MAX_DBLOCKS_PER_FILE \in Nat \ {0}
       /\ WIDTH \in Nat /\ KB4 * MAX_DBLOCKS_PER_FILE < 2^(WIDTH - 1)

WORD == 2^WIDTH

(* C's conversion of a value to uint32_t, and of a uint32_t to int32_t.   *)
U32(x) == x % WORD
I32(x) == IF x >= WORD \div 2 THEN x - WORD ELSE x

FAIL == -1

(* read_dentry_by_name: scan the directory entries 0 .. num_dir_entries-1*)
(* and take the first whose name has fname's length and equal characters; *)
(* return its index `check` (the dentry the code copies out), or FAIL.    *)
(* Names are model values, so "same length and strncmp = 0" is equality.   *)
ReadDentryByName(dentries, fname) ==
    LET hits == {check \in 0 .. Len(dentries) - 1 :
                    dentries[check + 1].name = fname}
    IN  IF hits = {} THEN FAIL ELSE CHOOSE c \in hits : \A h \in hits : c <= h

(* read_dentry_by_index: FAIL past the last entry (index is a uint32_t,   *)
(* so `index < 0` never holds), else 0 with entry `index` copied out.      *)
ReadDentryByIndex(dentries, index) ==
    IF index >= Len(dentries) THEN FAIL ELSE 0

(* A copy of n bytes starting at byte `offset` of data block b.           *)
Bytes(b, offset, n) == [i \in 1 .. n |-> <<b, offset + i - 1>>]

(* The data block that entry `check` of the inode's array names.          *)
DblockAt(inode, check) == inode.dblock_numbers[check + 1]

(* read_data's first loop: skip whole blocks while offset > KB4 (strictly *)
(* greater: an offset of exactly KB4 stays in block `check`).             *)
RECURSIVE SkipBlocks(_, _, _)
SkipBlocks(offset, check, block_ct) ==
    IF offset > KB4
    THEN SkipBlocks(offset - KB4, check + 1, block_ct - 1)
    ELSE [offset |-> offset, check |-> check, block_ct |-> block_ct]

(* Mutant of the copy loop: the last-block test misses block_ct = 0.      *)
RECURSIVE CopyLoopLastLt(_, _, _, _, _)
CopyLoopLastLt(inode, check, offset, block_ct, read_bytes) ==
    IF read_bytes = 0 THEN <<>>
    ELSE IF block_ct < 0
    THEN Bytes(DblockAt(inode, check), offset, read_bytes)
    ELSE Bytes(DblockAt(inode, check), offset, KB4 - offset)
         \o CopyLoopLastLt(inode, check + 1, 0, block_ct - 1,
                           U32(read_bytes - (KB4 - offset)))

(* read_data's copy loop: while block_ct > 0 copy the rest of the current *)
(* block and move to the next; then copy the remaining read_bytes from the*)
(* current block at `offset`.                                             *)
RECURSIVE CopyLoop(_, _, _, _, _)
CopyLoop(inode, check, offset, block_ct, read_bytes) ==
    IF read_bytes = 0 THEN <<>>
    ELSE IF block_ct <= 0
    THEN Bytes(DblockAt(inode, check), offset, read_bytes)
    ELSE Bytes(DblockAt(inode, check), offset, KB4 - offset)
         \o CopyLoop(inode, check + 1, 0, block_ct - 1,
                     U32(read_bytes - (KB4 - offset)))

(* read_data(inode, offset, buf, length): [ret |-> the int32_t result,    *)
(* copy |-> the addresses memcpy reads into buf].  All of offset + length,*)
(* file_length - offset and the trimmed length are uint32_t arithmetic;   *)
(* `length_check <= 0` on a uint32_t only catches 0.                      *)
ReadData(inode, offset, length) ==
    LET len          == inode.file_length
        length_check == U32(len - offset)
        trim         == U32(offset + length) > len
        adjusted     == IF trim THEN U32(len - offset) ELSE length
        size_total   == U32(offset + adjusted)
        skip         == SkipBlocks(offset, 0, size_total \div KB4)
    IN  CASE len > KB4 * MAX_DBLOCKS_PER_FILE -> [ret |-> FAIL, copy |-> <<>>]
          [] length_check = 0                 -> [ret |-> 0, copy |-> <<>>]
          [] OTHER ->
               [ret  |-> I32(adjusted),
                copy |-> CopyLoop(inode, skip.check, skip.offset,
                                  skip.block_ct, adjusted)]

(* The reference: the bytes of the file from `offset` on, at most n of    *)
(* them, each read from the block that holds it.                          *)
FileBytes(inode, offset, n) ==
    LET cnt == IF offset + n > inode.file_length
               THEN inode.file_length - offset ELSE n
    IN  [i \in 1 .. cnt |->
            <<DblockAt(inode, (offset + i - 1) \div KB4),
              (offset + i - 1) % KB4>>]

=============================================================================
