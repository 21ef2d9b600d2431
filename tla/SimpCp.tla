------------------------------- MODULE SimpCp -------------------------------
(***************************************************************************)
(* A_fileio/simpcp1.c and simpcp2.c: copy a file block by block.  simpcp1  *)
(* calls read(2) and write(2) directly; simpcp2 calls the wrappers fd_read *)
(* and fd_write, which repeat a short transfer.                            *)
(*                                                                         *)
(* A file is a sequence: i stands for byte i of the source, OldByte for a  *)
(* byte of an older destination, Garbage for memory beyond the buffer.     *)
(***************************************************************************)
EXTENDS Naturals, Integers, Sequences

CONSTANTS
  CpSizes,      \* bound: sizes of the source
  CpOldSizes,   \* bound: sizes of an older destination
  CpBlock       \* st_blksize: the buffer

ASSUME CpAssumption ==
  CpSizes \subseteq Nat /\ CpOldSizes \subseteq Nat /\ CpBlock \in Nat \ {0}

OldByte == 0
Garbage == -1

VARIABLES
  cpProgram,   \* "simpcp1" or "simpcp2"
  copier,      \* control point
  srcLen,      \* size of the source
  srcPos,      \* offset of fd_src
  cpBuf,       \* the bytes of the buffer that have been read
  nr,          \* total of the reads / the length to write
  tw,          \* total of the writes of this block
  dest,        \* content of the destination
  dstPos,      \* offset of fd_dest
  oldLen,      \* size of the older destination
  cut          \* a transfer was short in a way the program does not handle

cpFile == <<cpProgram, srcLen, oldLen>>
cpVars == <<cpFile, copier, srcPos, cpBuf, nr, tw, dest, dstPos, cut>>

CpInit ==
  /\ cpProgram \in {"simpcp1", "simpcp2"}
  /\ srcLen \in CpSizes /\ oldLen \in CpOldSizes
  /\ copier = "openSrc"
  /\ srcPos = 0 /\ dstPos = 0 /\ nr = 0 /\ tw = 0
  /\ cpBuf = <<>>
  /\ dest = [i \in 1..oldLen |-> OldByte]
  /\ cut = FALSE

---------------------------------------------------------------------------
(* Opening the files, stat and malloc; each may fail, and the program ends. *)

AfterSetup(step) ==
  CASE step = "openSrc" -> IF cpProgram = "simpcp2" THEN "statSrc" ELSE "openDest"
    [] step = "statSrc" -> "openDest"
    [] step = "openDest" -> "stat"
    [] step = "stat" -> "malloc"
    [] step = "malloc" -> "read"

CpSetup ==
  /\ copier \in {"openSrc", "statSrc", "openDest", "stat", "malloc"}
  /\ copier' \in {AfterSetup(copier), "failed"}
  /\ UNCHANGED <<cpFile, srcPos, cpBuf, nr, tw, dest, dstPos, cut>>

---------------------------------------------------------------------------
(* docopy *)

AtMost(a, b) == IF a < b THEN a ELSE b

\* read(2) puts the k next bytes at the start of the buffer.
Load(k) ==
  [i \in 1..(IF k < Len(cpBuf) THEN Len(cpBuf) ELSE k) |->
     IF i <= k THEN srcPos + i ELSE cpBuf[i]]

\* Mutant of CpRead: the whole buffer is written, not what was read.
CpReadWholeBlock(k) ==
  /\ copier = "read"
  /\ k <= AtMost(CpBlock, srcLen - srcPos)
  /\ k = 0 => srcPos = srcLen
  /\ srcPos' = srcPos + k /\ cpBuf' = Load(k)
  /\ nr' = IF k = 0 THEN 0 ELSE CpBlock
  /\ copier' = IF k = 0 THEN "done" ELSE "write"
  /\ UNCHANGED <<cpFile, tw, dest, dstPos, cut>>

\* One read(2) of docopy (simpcp1) or of fd_read (simpcp2), of k bytes: 0 only
\* at the end of the file.
CpRead(k) ==
  /\ copier = "read"
  /\ k <= AtMost(CpBlock, srcLen - srcPos)
  /\ k = 0 => srcPos = srcLen
  /\ srcPos' = srcPos + k /\ cpBuf' = Load(k)
  /\ nr' = nr + k
  /\ copier' =
       CASE k > 0 /\ cpProgram = "simpcp2" /\ nr + k < CpBlock -> "read"
         [] nr + k = 0 -> "done"
         [] OTHER -> "write"
  /\ cut' = (cut \/ (cpProgram = "simpcp2" /\ nr > 0 /\ k > 0))
  /\ UNCHANGED <<cpFile, tw, dest, dstPos>>

\* write(2) of the first k bytes of the buffer at the offset of fd_dest.
Store(k) ==
  [i \in 1..(IF dstPos + k < Len(dest) THEN Len(dest) ELSE dstPos + k) |->
     IF i \notin (dstPos + 1)..(dstPos + k) THEN dest[i]
     ELSE IF i - dstPos <= Len(cpBuf) THEN cpBuf[i - dstPos]
     ELSE Garbage]

\* One write(2) of docopy or of fd_write, of k of the nr bytes.
CpWrite(k) ==
  /\ copier = "write"
  /\ k \in 1..nr
  /\ dest' = Store(k) /\ dstPos' = dstPos + k
  /\ IF cpProgram = "simpcp2" /\ tw + k < nr
     THEN tw' = tw + k /\ UNCHANGED <<copier, nr, cpBuf>>
     ELSE tw' = 0 /\ nr' = 0 /\ copier' = "read" /\ UNCHANGED cpBuf
  /\ cut' = (cut \/ k < nr)
  /\ UNCHANGED <<cpFile, srcPos>>

\* read(2) or write(2) fails: docopy returns an error, main says FATAL.
CpFails ==
  /\ copier \in {"read", "write"}
  /\ copier' = "failed"
  /\ UNCHANGED <<cpFile, srcPos, cpBuf, nr, tw, dest, dstPos, cut>>

CpCall == CpSetup \/ \E k \in 0..(2 * CpBlock) : CpRead(k) \/ CpWrite(k)

CpNext == CpCall \/ CpFails

CpSpec == CpInit /\ [][CpNext]_cpVars

---------------------------------------------------------------------------
(* Properties. *)

CpTypeOK ==
  /\ copier \in {"openSrc", "statSrc", "openDest", "stat", "malloc",
                 "read", "write", "done", "failed"}
  /\ srcPos \in 0..srcLen /\ dstPos \in Nat
  /\ nr \in 0..(2 * CpBlock) /\ tw \in 0..(2 * CpBlock)
  /\ \A i \in 1..Len(dest) : dest[i] \in {OldByte, Garbage} \cup 1..srcLen

\* Unless a transfer was short in the middle of the file (simpcp1 survives even
\* that where it is a read), what is written is the source from its start, whatever
\* the sizes and wherever a call fails, and a copy that ends well has written all
\* of it.  (The documents promise more: what of an older destination they do is judged
\* by DestOverwritten, what of a short transfer by CopyComplete of MtCopy, which has
\* taken over simpcp2's loops.)
CopyFaithful ==
  ~ cut => /\ copier = "done" => dstPos = srcLen
           /\ \A i \in 1..dstPos : dest[i] = i

\* simpcp1.c's header: the destination file is overwritten if it exists.  It is
\* opened without O_TRUNC, so the tail of a longer one survives the copy.
DestOverwritten == copier = "done" => Len(dest) = srcLen

\* What the buffer holds and how far the copy is: a read only starts where the
\* block is not full, in simpcp1 only where it is empty, and what is written
\* fits into the lengths the program keeps.
CpBuffered ==
  /\ cpBuf \in Seq(1..srcLen) /\ dstPos <= Len(dest)
  /\ tw <= nr
  /\ copier \in {"openSrc", "statSrc", "openDest", "stat", "malloc"} =>
       srcPos = 0 /\ dstPos = 0 /\ nr = 0
  /\ copier = "read" => nr < CpBlock /\ (cpProgram = "simpcp1" => nr = 0) /\ tw = 0
  /\ copier = "done" => nr = 0 /\ srcPos = srcLen

\* Unless a transfer was cut short, the bytes that were read and not yet written
\* lie at the start of the buffer.
CpInStep ==
  ~ cut =>
    /\ tw = 0
    /\ copier # "failed" => dstPos + nr = srcPos /\ nr <= Len(cpBuf)
    /\ copier \in {"read", "write"} => \A i \in 1..nr : cpBuf[i] = dstPos + i

CpInv ==
  /\ cpProgram \in {"simpcp1", "simpcp2"} /\ srcLen \in Nat /\ oldLen \in Nat
  /\ cut \in BOOLEAN /\ dest \in Seq({OldByte, Garbage} \cup 1..srcLen)
  /\ CpTypeOK /\ CpBuffered /\ CpInStep /\ CopyFaithful

============================================================================
