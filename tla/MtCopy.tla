------------------------------- MODULE MtCopy -------------------------------
(***************************************************************************)
(* solutions_to_assgn/ch18/mt_copy.c: a multithreaded file copy.  Worker i *)
(* of numthrds copies fsize/numthrds bytes from offset i*(fsize/numthrds)  *)
(* with pread and pwrite; the last worker also copies the remainder.  The  *)
(* main thread creates the workers, joins them and frees their parameters. *)
(*                                                                         *)
(* A pread or a pwrite is one step.  The destination is two sets of        *)
(* offsets: those that hold their source byte, and those that were given   *)
(* something else (bytes of the buffer no read has filled, or past its     *)
(* end).  A short transfer, which fd_read and fd_write loop for, happens   *)
(* in a run with short TRUE.                                                  *)
(***************************************************************************)
EXTENDS Integers

CONSTANTS
  MAX_THRDS,   \* largest number of threads the command line may ask for
  Sizes,       \* sizes the source file may have
  ShortIO      \* {FALSE}, {TRUE} or both: may a transfer be short of what was asked?

ASSUME MtCopyAssumption ==
  MAX_THRDS \in Nat /\ MAX_THRDS >= 2 /\ Sizes \subseteq Nat /\ ShortIO \subseteq BOOLEAN

MtWorker == 0..(MAX_THRDS - 1)

VARIABLES
  numthrds, fsize,   \* argv[3] and sb.st_size: fixed for a run
  short,             \* the files of this run may give short transfers
  mtMain, mtN,       \* main's control point, its loop index
  param,             \* ToThread[i]: "none", "live", "freed"
  mtPc,              \* control point of a worker
  seg,               \* 1: its own segment, 2: the remainder (last worker)
  tr, tw,            \* bytes counted by fd_read, by fd_write
  good,              \* length of the buffer's prefix that holds source bytes
  copied, junk,      \* destination offsets: right byte, wrong byte
  failed,            \* calls of __do_mt_copy that returned an error
  mtHeap             \* calls whose buffer is allocated

mtInput == <<numthrds, fsize, short>>
fileVars == <<copied, junk>>
mtWorkerVars == <<mtPc, seg, tr, tw, good>>
mtVars == <<mtInput, mtMain, mtN, param, mtWorkerVars, fileVars, failed, mtHeap>>

MtInit ==
  /\ numthrds \in 2..MAX_THRDS
  /\ fsize \in Sizes
  /\ short \in ShortIO
  /\ mtMain = "create" /\ mtN = 0
  /\ param = [t \in MtWorker |-> "none"]
  /\ mtPc = [t \in MtWorker |-> "none"]
  /\ seg = [t \in MtWorker |-> 1]
  /\ tr = [t \in MtWorker |-> 0]
  /\ tw = [t \in MtWorker |-> 0]
  /\ good = [t \in MtWorker |-> 0]
  /\ copied = {} /\ junk = {}
  /\ failed = {} /\ mtHeap = {}

---------------------------------------------------------------------------
(* The division of the file. *)

len == fsize \div numthrds
rem == fsize % numthrds

\* Mutant of start_offset: the first version, recalled in the source's comment.
start_offset_first(t) == (t * fsize) \div numthrds

start_offset(t) == t * len

\* The {offset, length} pair of the call worker t is in.
Off(t) == start_offset(t) + (IF seg[t] = 2 THEN len ELSE 0)
Count(t) == IF seg[t] = 2 THEN rem ELSE len

\* The offsets a..a+c-1.
Span(a, c) == a..(a + c - 1)

---------------------------------------------------------------------------
(* The workers. *)

MtAlive == mtMain # "fatal"
Call(t) == <<t, seg[t]>>

\* What a transfer of c bytes may return.
Transfer(c) == IF short /\ c > 0 THEN 1..c ELSE {c}

\* Mutant of MtReturn: the last worker asks for the remainder after every call.
ReturnForMore(t) ==
  LET again == rem # 0 /\ t = numthrds - 1
  IN  /\ mtPc' = [mtPc EXCEPT ![t] = IF again THEN "malloc" ELSE "done"]
      /\ seg' = [seg EXCEPT ![t] = IF again THEN @ + 1 ELSE @]

\* __do_mt_copy returned: on to the remainder, or pthread_exit.
MtReturn(t) ==
  LET again == rem # 0 /\ t = numthrds - 1 /\ seg[t] = 1
  IN  /\ mtPc' = [mtPc EXCEPT ![t] = IF again THEN "malloc" ELSE "done"]
      /\ seg' = [seg EXCEPT ![t] = IF again THEN 2 ELSE @]

Malloc(t) ==
  /\ MtAlive /\ mtPc[t] = "malloc"
  /\ mtHeap' = mtHeap \cup {Call(t)}
  /\ mtPc' = [mtPc EXCEPT ![t] = "read"]
  /\ tr' = [tr EXCEPT ![t] = 0]
  /\ tw' = [tw EXCEPT ![t] = 0]
  /\ good' = [good EXCEPT ![t] = 0]
  /\ UNCHANGED <<mtInput, mtMain, mtN, param, seg, fileVars, failed>>

MallocFails(t) ==
  /\ MtAlive /\ mtPc[t] = "malloc"
  /\ failed' = failed \cup {Call(t)}
  /\ MtReturn(t)
  /\ UNCHANGED <<mtInput, mtMain, mtN, param, tr, tw, good, fileVars, mtHeap>>

\* One turn of fd_read's loop: every turn reads at the same offset, into the
\* start of the buffer.
PRead(t) ==
  /\ MtAlive /\ mtPc[t] = "read" /\ Count(t) > 0
  /\ \E rd \in Transfer(Count(t)) :
       /\ tr' = [tr EXCEPT ![t] = @ + rd]
       /\ good' = [good EXCEPT ![t] = IF rd > @ THEN rd ELSE @]
       /\ mtPc' = [mtPc EXCEPT ![t] = IF tr[t] + rd < Count(t) THEN @ ELSE "write"]
  /\ UNCHANGED <<mtInput, mtMain, mtN, param, seg, tw, fileVars, failed, mtHeap>>

\* A segment of no bytes is taken for the end of the file; buf is not freed.
ReadNothing(t) ==
  /\ MtAlive /\ mtPc[t] = "read" /\ Count(t) = 0
  /\ MtReturn(t)
  /\ UNCHANGED <<mtInput, mtMain, mtN, param, tr, tw, good, fileVars, failed, mtHeap>>

\* Mutant of IOFails: the error return does not free the buffer.
IOFailsLeaking(t) ==
  /\ MtAlive /\ mtPc[t] \in {"read", "write"}
  /\ failed' = failed \cup {Call(t)}
  /\ MtReturn(t)
  /\ UNCHANGED <<mtInput, mtMain, mtN, param, tr, tw, good, fileVars, mtHeap>>

\* pread or pwrite returned -1: free the buffer, return an error.
IOFails(t) ==
  /\ MtAlive /\ mtPc[t] \in {"read", "write"}
  /\ failed' = failed \cup {Call(t)}
  /\ mtHeap' = mtHeap \ {Call(t)}
  /\ MtReturn(t)
  /\ UNCHANGED <<mtInput, mtMain, mtN, param, tr, tw, good, fileVars>>

\* One turn of fd_write's loop: every turn writes the start of the buffer at
\* the same offset.
PWrite(t) ==
  /\ MtAlive /\ mtPc[t] = "write"
  /\ \E wr \in Transfer(tr[t]) :
       LET right == Span(Off(t), wr) \cap Span(Off(t), good[t])
           wrong == Span(Off(t), wr) \ right
       IN  /\ copied' = (copied \ wrong) \cup right
           /\ junk' = (junk \ right) \cup wrong
           /\ tw' = [tw EXCEPT ![t] = @ + wr]
           /\ IF tw[t] + wr < tr[t]
                THEN UNCHANGED <<mtPc, seg, mtHeap>>
                ELSE MtReturn(t) /\ mtHeap' = mtHeap \ {Call(t)}
  /\ UNCHANGED <<mtInput, mtMain, mtN, param, tr, good, failed>>

MtWorkerStep(t) ==
  \/ Malloc(t) \/ MallocFails(t)
  \/ PRead(t) \/ ReadNothing(t) \/ PWrite(t) \/ IOFails(t)

---------------------------------------------------------------------------
(* The main thread: do_mt_copy. *)

\* calloc and fill ToThread[n], create its worker.
MtCreate ==
  /\ mtMain = "create"
  /\ param' = [param EXCEPT ![mtN] = "live"]
  /\ mtPc' = [mtPc EXCEPT ![mtN] = "malloc"]
  /\ mtMain' = IF mtN + 1 = numthrds THEN "join" ELSE mtMain
  /\ mtN' = IF mtN + 1 = numthrds THEN 0 ELSE mtN + 1
  /\ UNCHANGED <<mtInput, seg, tr, tw, good, fileVars, failed, mtHeap>>

\* calloc or pthread_create failed: FATAL.
CreateFails ==
  /\ mtMain = "create" /\ mtMain' = "fatal"
  /\ UNCHANGED <<mtInput, mtN, param, mtWorkerVars, fileVars, failed, mtHeap>>

\* Mutant of MtJoin: the parameters of the workers are freed without a join.
MtJoinNoWait ==
  /\ mtMain = "join"
  /\ param' = [param EXCEPT ![mtN] = "freed"]
  /\ mtMain' = IF mtN + 1 = numthrds THEN "done" ELSE mtMain
  /\ mtN' = mtN + 1
  /\ UNCHANGED <<mtInput, mtWorkerVars, fileVars, failed, mtHeap>>

\* Mutant of MtJoin: the loop runs on to MAX_THRDS.
JoinTooMany ==
  /\ mtMain = "join" /\ mtPc[mtN] = "done"
  /\ param' = [param EXCEPT ![mtN] = "freed"]
  /\ mtMain' = IF mtN + 1 = MAX_THRDS THEN "done" ELSE mtMain
  /\ mtN' = mtN + 1
  /\ UNCHANGED <<mtInput, mtWorkerVars, fileVars, failed, mtHeap>>

\* pthread_join(tid[n]), free(ToThread[n]); after the last one, exit.
MtJoin ==
  /\ mtMain = "join" /\ mtPc[mtN] = "done"
  /\ param' = [param EXCEPT ![mtN] = "freed"]
  /\ mtMain' = IF mtN + 1 = numthrds THEN "done" ELSE mtMain
  /\ mtN' = mtN + 1
  /\ UNCHANGED <<mtInput, mtWorkerVars, fileVars, failed, mtHeap>>

MtNext == MtCreate \/ CreateFails \/ MtJoin \/ \E t \in MtWorker : MtWorkerStep(t)

MtSpec == MtInit /\ [][MtNext]_mtVars

\* The kernel schedules main and every worker; creation need not fail.
MtFairness ==
  WF_mtVars(MtCreate \/ MtJoin) /\ \A t \in MtWorker : WF_mtVars(MtWorkerStep(t))

MtFairSpec == MtSpec /\ MtFairness

---------------------------------------------------------------------------
(* Properties. *)

MtTypeOK ==
  /\ numthrds \in 2..MAX_THRDS /\ fsize \in Sizes /\ short \in ShortIO
  /\ mtMain \in {"create", "join", "done", "fatal"}
  /\ mtN \in 0..numthrds
  /\ param \in [MtWorker -> {"none", "live", "freed"}]
  /\ mtPc \in [MtWorker -> {"none", "malloc", "read", "write", "done"}]
  /\ seg \in [MtWorker -> 1..2]
  /\ tr \in [MtWorker -> Nat] /\ tw \in [MtWorker -> Nat] /\ good \in [MtWorker -> Nat]
  /\ copied \subseteq Nat /\ junk \subseteq Nat
  /\ failed \subseteq MtWorker \X (1..2)
  /\ mtHeap \subseteq MtWorker \X (1..2)

\* The call of __do_mt_copy that is answerable for the byte at p.
CallOf(p) ==
  IF p < numthrds * len THEN <<p \div len, 1>> ELSE <<numthrds - 1, 2>>

\* The parallel copy is complete and exact when the process exits: every byte
\* whose own {offset, length} call did not fail is in place, and no failure
\* costs a byte of any other call.
FailureIsLocal ==
  (mtMain = "done" /\ ~ short) =>
    /\ junk = {}
    /\ copied \subseteq 0..(fsize - 1)
    /\ \A p \in 0..(fsize - 1) : CallOf(p) \notin failed => p \in copied

\* Workers run without a lock because what two of them write never overlaps,
\* and nobody writes past the end of the source.
Target(t) == Span(Off(t), tr[t])
WritersDisjoint ==
  ~ short =>
    \A t \in MtWorker : mtPc[t] = "write" =>
      /\ Target(t) \subseteq 0..(fsize - 1)
      /\ \A u \in MtWorker \ {t} : mtPc[u] = "write" => Target(t) \cap Target(u) = {}

\* A worker never uses its ToThread after main freed it.
ParamAlive == \A t \in MtWorker : mtPc[t] \notin {"none", "done"} => param[t] = "live"

\* Every return of __do_mt_copy has freed its buffer, but for an empty segment
\* (where malloc(0) is lost).
BufferFreed ==
  \A c \in mtHeap : (mtPc[c[1]] = "done" \/ c[2] < seg[c[1]]) =>
                    (IF c[2] = 2 THEN rem ELSE len) = 0

\* The copy ends, whichever transfers are short or fail.
MtTerminates == <>(mtMain \in {"done", "fatal"})

\* What the header asks for: the source is copied, when nothing failed.
\* (Not true of the code once a transfer is short.)
CopyComplete ==
  (mtMain = "done" /\ failed = {}) => copied = 0..(fsize - 1) /\ junk = {}

---------------------------------------------------------------------------
(* The inductive invariant behind WritersDisjoint and ParamAlive. *)

\* Which workers exist and may still run, by where main is.
MtProgress ==
  /\ \A t \in MtWorker : mtPc[t] # "none" => t < numthrds
  /\ \A t \in MtWorker : seg[t] = 2 => t = numthrds - 1
  /\ mtMain = "create" =>
       mtN < numthrds /\ \A t \in MtWorker : mtPc[t] = "none" <=> t >= mtN
  /\ mtMain = "join" =>
       mtN < numthrds /\ \A t \in MtWorker : t < mtN => mtPc[t] = "done"

\* Without short transfers a call reads its whole segment in one turn.
WholeSegment ==
  ~ short =>
    \A t \in MtWorker :
      /\ mtPc[t] = "read" => tr[t] = 0
      /\ mtPc[t] = "write" => tr[t] = Count(t)

MtInv == MtTypeOK /\ MtProgress /\ WholeSegment /\ ParamAlive

---------------------------------------------------------------------------
(* What FailureIsLocal and BufferFreed need besides. *)

\* The bytes a call is answerable for, by its worker and its segment.
Begins(c) == start_offset(c[1]) + (IF c[2] = 2 THEN len ELSE 0)
Length(c) == IF c[2] = 2 THEN rem ELSE len
Region(c) == Span(Begins(c), Length(c))

\* A call that has returned.  (A worker with one call ends in it.)
Returned(c) == c[2] < seg[c[1]] \/ (c[2] = seg[c[1]] /\ mtPc[c[1]] = "done")

\* main ends after every worker did; the last one has made both its calls.
Joined ==
  /\ mtMain = "done" => \A t \in MtWorker : t < numthrds => mtPc[t] = "done"
  /\ rem # 0 => \A t \in MtWorker :
       (t = numthrds - 1 /\ mtPc[t] = "done") => seg[t] = 2

\* Without short transfers the buffer is full of source bytes when it is
\* written, so that what has returned without an error is in place.
FullBuffer ==
  ~ short => \A t \in MtWorker :
               /\ mtPc[t] = "read" => good[t] = 0
               /\ mtPc[t] = "write" => good[t] = Count(t)

Landed ==
  ~ short =>
    /\ junk = {} /\ copied \subseteq 0..(fsize - 1)
    /\ \A c \in MtWorker \X (1..2) :
         (Returned(c) /\ c \notin failed) => Region(c) \subseteq copied

\* An allocated buffer is in use, or it is that of an empty segment.
InUse(c) == c[2] = seg[c[1]] /\ mtPc[c[1]] \in {"read", "write"}
Buffers == \A c \in mtHeap : InUse(c) \/ (Returned(c) /\ Length(c) = 0)

CopyInv == MtInv /\ Joined /\ FullBuffer /\ Landed /\ Buffers

=============================================================================
