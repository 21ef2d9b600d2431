------------------------------ MODULE MtIobuf ------------------------------
(***************************************************************************)
(* Four multithreaded versions of the same IO loop, ch16:                  *)
(*   "mtx"      mt_iobuf_mtx.c   one global buffer behind a mutex,         *)
(*   "rfct"     mt_iobuf_rfct.c  a heap buffer per thread,                 *)
(*   "tls"      mt_iobuf_tls.c   a thread-local buffer,                    *)
(*   "cleanup"  cleanup_hdlr.c   a heap buffer per thread, a cleanup       *)
(*              handler that frees it, and a cancellation of worker 1.     *)
(* NTHREADS workers read NumIO blocks each from one input stream and write *)
(* them to one output stream.                                              *)
(*                                                                         *)
(* fread and fwrite are atomic on their stream (stdio locks it); each      *)
(* fread returns a new block.  Under the mutex, the transfer and the       *)
(* UNLOCK_MTX after it are one step.  Where faulty, an fwrite may fail.    *)
(***************************************************************************)
EXTENDS Integers, SequencesExt

CONSTANTS
  IoNTHREADS,   \* worker threads
  NumIO,        \* numio: the loop's number of turns
  Variants,     \* the programs to consider
  Faulty        \* {FALSE}, {TRUE} or both: may an fwrite fail?

ASSUME MtIobufAssumption ==
  /\ IoNTHREADS \in Nat \ {0} /\ NumIO \in Nat \ {0}
  /\ Variants \subseteq {"mtx", "rfct", "tls", "cleanup"}
  /\ Faulty \subseteq BOOLEAN

IoWorker == 1..IoNTHREADS
Shared == 0                    \* gbuf of "mtx"
Buffer == {Shared} \cup IoWorker
IoNobody == 0

VARIABLES
  variant, ioCancel, faulty,   \* fixed for a run; cancel: argv[2] is 1
  ioMain, ioN,                 \* main's control point, its loop index
  ioPc, turn,                  \* a worker's control point, its loop index
  ioOwner,                     \* holder of mylock
  ioHeap,                      \* "none", "live", "freed", "corrupt"
  content,                     \* the block a buffer holds, 0 for none
  blocks,                      \* blocks read from the input stream
  ioFile,                      \* blocks written to the output stream
  ioPending, struck            \* worker 1's cancellation: requested, acted on

ioInput == <<variant, ioCancel, faulty>>
streams == <<content, blocks, ioFile>>
ioVars == <<ioInput, ioMain, ioN, ioPc, turn, ioOwner, ioHeap, streams, ioPending, struck>>

IoInit ==
  /\ variant \in Variants /\ faulty \in Faulty
  /\ ioCancel \in (IF variant = "cleanup" THEN BOOLEAN ELSE {FALSE})
  /\ ioMain = "create" /\ ioN = 1
  /\ ioPc = [t \in IoWorker |-> "none"]
  /\ turn = [t \in IoWorker |-> 0]
  /\ ioOwner = IoNobody
  /\ ioHeap = [b \in Buffer |-> IF b = Shared /\ variant = "mtx" THEN "live" ELSE "none"]
  /\ content = [b \in Buffer |-> 0]
  /\ blocks = 0 /\ ioFile = <<>>
  /\ ioPending = FALSE /\ struck = FALSE

IoAlive == ioMain # "fatal"

\* Mutant of Buf: every version uses one buffer.
BufShared(t) == Shared

Buf(t) == IF variant = "mtx" THEN Shared ELSE t

\* free(3) of a buffer that is not allocated corrupts the heap.
Freed(b) == IF ioHeap[b] = "live" THEN "freed" ELSE "corrupt"

---------------------------------------------------------------------------
(* The workers. *)

\* Where a turn of the loop begins.
Top == IF variant = "mtx" THEN "lockread" ELSE "fread"

\* A worker's wrapper routine: allocate the buffer (and push the handler).
Begin(t) ==
  /\ IoAlive /\ ioPc[t] = "begin"
  /\ ioHeap' = IF variant = "mtx" THEN ioHeap ELSE [ioHeap EXCEPT ![t] = "live"]
  /\ ioPc' = [ioPc EXCEPT ![t] = Top]
  /\ UNCHANGED <<ioInput, ioMain, ioN, turn, ioOwner, streams, ioPending, struck>>

\* malloc in the wrapper failed, or fread read nothing: FATAL.  (A cancellation
\* during its message is that of Cancelled at the fread, with no block moved.)
Die(t) ==
  /\ IoAlive
  /\ \/ ioPc[t] = "begin" /\ variant \in {"rfct", "cleanup"}
     \/ ioPc[t] = "fread" /\ faulty
  /\ ioMain' = "fatal"
  /\ UNCHANGED <<ioInput, ioN, ioPc, turn, ioOwner, ioHeap, streams, ioPending, struck>>

\* LOCK_MTX, before fread and again before fwrite.
IoLock(t) ==
  /\ IoAlive /\ ioPc[t] \in {"lockread", "lockwrite"} /\ ioOwner = IoNobody
  /\ ioOwner' = t
  /\ ioPc' = [ioPc EXCEPT ![t] = IF @ = "lockread" THEN "fread" ELSE "fwrite"]
  /\ UNCHANGED <<ioInput, ioMain, ioN, turn, ioHeap, streams, ioPending, struck>>

\* Mutant of Read: the mutex is not released between fread and fwrite.
ReadNoUnlock(t) ==
  /\ IoAlive /\ ioPc[t] = "fread"
  /\ blocks' = blocks + 1
  /\ content' = [content EXCEPT ![Buf(t)] = blocks']
  /\ ioPc' = [ioPc EXCEPT ![t] = IF variant = "mtx" THEN "lockwrite" ELSE "fwrite"]
  /\ UNCHANGED <<ioInput, ioMain, ioN, turn, ioOwner, ioHeap, ioFile, ioPending, struck>>

\* fread, and UNLOCK_MTX.
Read(t) ==
  /\ IoAlive /\ ioPc[t] = "fread"
  /\ blocks' = blocks + 1
  /\ content' = [content EXCEPT ![Buf(t)] = blocks']
  /\ ioOwner' = IoNobody
  /\ ioPc' = [ioPc EXCEPT ![t] = IF variant = "mtx" THEN "lockwrite" ELSE "fwrite"]
  /\ UNCHANGED <<ioInput, ioMain, ioN, turn, ioHeap, ioFile, ioPending, struck>>

\* Mutant of Write: the loop test runs to i <= numio.
WriteOneMore(t) ==
  /\ IoAlive /\ ioPc[t] = "fwrite"
  /\ ioFile' = Append(ioFile, content[Buf(t)])
  /\ ioOwner' = IoNobody
  /\ turn' = [turn EXCEPT ![t] = @ + 1]
  /\ ioPc' = [ioPc EXCEPT ![t] = IF turn'[t] <= NumIO THEN Top ELSE "finish"]
  /\ UNCHANGED <<ioInput, ioMain, ioN, ioHeap, content, blocks, ioPending, struck>>

\* fwrite, UNLOCK_MTX, and the loop's end test.
Write(t) ==
  /\ IoAlive /\ ioPc[t] = "fwrite"
  /\ ioFile' = Append(ioFile, content[Buf(t)])
  /\ ioOwner' = IoNobody
  /\ turn' = [turn EXCEPT ![t] = @ + 1]
  /\ ioPc' = [ioPc EXCEPT ![t] = IF turn'[t] < NumIO THEN Top ELSE "finish"]
  /\ UNCHANGED <<ioInput, ioMain, ioN, ioHeap, content, blocks, ioPending, struck>>

\* fwrite returned 0: free the buffer ("tls" has none to free), FATAL.  (The return
\* on feof before it is not taken: a stream that is only written to never has it.)
WriteFails(t) ==
  /\ IoAlive /\ ioPc[t] = "fwrite" /\ faulty
  /\ ioHeap' = IF variant = "tls" THEN ioHeap
               ELSE [ioHeap EXCEPT ![Buf(t)] = Freed(Buf(t))]
  /\ ioOwner' = IoNobody
  /\ ioPc' = [ioPc EXCEPT ![t] = "failing"]
  /\ UNCHANGED <<ioInput, ioMain, ioN, turn, streams, ioPending, struck>>

\* handle_err has printed its message and calls exit.
Exit(t) ==
  /\ IoAlive /\ ioPc[t] = "failing"
  /\ ioMain' = "fatal"
  /\ UNCHANGED <<ioInput, ioN, ioPc, turn, ioOwner, ioHeap, streams, ioPending, struck>>

\* A worker that ran with a handler pushed meets a cancellation point: the
\* printf before the loop, the messages of handle_err, and the transfers, which
\* may have moved their block by then.
IoCancelled(t) ==
  /\ IoAlive /\ t = 1 /\ ioPending /\ ~ struck
  /\ ioPc[t] \in {"fread", "fwrite", "failing"}
  /\ struck' = TRUE
  /\ blocks' \in blocks..(blocks + (IF ioPc[t] = "fread" THEN 1 ELSE 0))
  /\ \/ ioFile' = ioFile
     \/ ioPc[t] = "fwrite" /\ ioFile' = Append(ioFile, content[Buf(t)])
  /\ ioPc' = [ioPc EXCEPT ![t] = "handler"]
  /\ UNCHANGED <<ioInput, ioMain, ioN, turn, ioOwner, ioHeap, content, ioPending>>

\* Mutant of Handler: the cleanup handler frees nothing.
HandlerIdle(t) ==
  /\ IoAlive /\ ioPc[t] = "handler"
  /\ ioPc' = [ioPc EXCEPT ![t] = "done"]
  /\ UNCHANGED <<ioInput, ioMain, ioN, turn, ioOwner, ioHeap, streams, ioPending, struck>>

\* cleanup_handler, then the thread is gone.
Handler(t) ==
  /\ IoAlive /\ ioPc[t] = "handler"
  /\ ioHeap' = [ioHeap EXCEPT ![t] = Freed(t)]
  /\ ioPc' = [ioPc EXCEPT ![t] = "done"]
  /\ UNCHANGED <<ioInput, ioMain, ioN, turn, ioOwner, streams, ioPending, struck>>

\* Mutant of Finish: pop(1), which runs the handler, and then free.
FinishPopOne(t) ==
  /\ IoAlive /\ ioPc[t] = "finish"
  /\ ioHeap' = CASE variant = "rfct"    -> [ioHeap EXCEPT ![t] = Freed(t)]
               [] variant = "cleanup" -> [ioHeap EXCEPT ![t] = "corrupt"]
               [] OTHER               -> ioHeap
  /\ ioPc' = [ioPc EXCEPT ![t] = "done"]
  /\ UNCHANGED <<ioInput, ioMain, ioN, turn, ioOwner, streams, ioPending, struck>>

\* After the loop: pop the handler without running it, free the buffer, end.
Finish(t) ==
  /\ IoAlive /\ ioPc[t] = "finish"
  /\ ioHeap' = IF variant \in {"rfct", "cleanup"}
               THEN [ioHeap EXCEPT ![t] = Freed(t)] ELSE ioHeap
  /\ ioPc' = [ioPc EXCEPT ![t] = "done"]
  /\ UNCHANGED <<ioInput, ioMain, ioN, turn, ioOwner, streams, ioPending, struck>>

IoWorkerStep(t) ==
  \/ Begin(t) \/ IoLock(t) \/ Read(t) \/ Write(t) \/ Exit(t) \/ Handler(t) \/ Finish(t)

Fault(t) == Die(t) \/ WriteFails(t)

---------------------------------------------------------------------------
(* The main thread. *)

\* Mutant of IoCreate: the join loop goes on with the index of the create loop.
CreateNoReset ==
  /\ ioMain = "create"
  /\ ioPc' = [ioPc EXCEPT ![ioN] = "begin"]
  /\ ioMain' = CASE ioN < IoNTHREADS -> ioMain
               [] ioN = IoNTHREADS /\ ioCancel -> "cancel"
               [] OTHER -> "join"
  /\ ioN' = ioN + 1
  /\ UNCHANGED <<ioInput, turn, ioOwner, ioHeap, streams, ioPending, struck>>

IoCreate ==
  /\ ioMain = "create"
  /\ ioPc' = [ioPc EXCEPT ![ioN] = "begin"]
  /\ ioMain' = CASE ioN < IoNTHREADS -> ioMain
               [] ioN = IoNTHREADS /\ ioCancel -> "cancel"
               [] OTHER -> "join"
  /\ ioN' = IF ioN < IoNTHREADS THEN ioN + 1 ELSE 1
  /\ UNCHANGED <<ioInput, turn, ioOwner, ioHeap, streams, ioPending, struck>>

\* calloc, pthread_create or pthread_mutex_destroy failed, or pthread_cancel found
\* that the thread has already terminated: FATAL.
IoMainDies ==
  /\ \/ ioMain = "create" \/ (ioMain = "cancel" /\ ioPc[1] = "done")
     \/ ioMain = "close" /\ variant = "mtx"
  /\ ioMain' = "fatal"
  /\ UNCHANGED <<ioInput, ioN, ioPc, turn, ioOwner, ioHeap, streams, ioPending, struck>>

\* pthread_cancel of the first worker: a request, acted on at its next
\* cancellation point.
IoSendCancel ==
  /\ ioMain = "cancel" /\ ioMain' = "join"
  /\ ioPending' = TRUE
  /\ UNCHANGED <<ioInput, ioN, ioPc, turn, ioOwner, ioHeap, streams, struck>>

IoJoin ==
  /\ ioMain = "join" /\ ioPc[ioN] = "done"
  /\ ioMain' = IF ioN = IoNTHREADS THEN "close" ELSE ioMain
  /\ ioN' = IF ioN = IoNTHREADS THEN 1 ELSE ioN + 1
  /\ UNCHANGED <<ioInput, ioPc, turn, ioOwner, ioHeap, streams, ioPending, struck>>

\* fclose of the streams, free of gbuf, end of the process.
IoClose ==
  /\ ioMain = "close" /\ ioMain' = "done"
  /\ ioHeap' = IF variant = "mtx" THEN [ioHeap EXCEPT ![Shared] = Freed(Shared)] ELSE ioHeap
  /\ UNCHANGED <<ioInput, ioN, ioPc, turn, ioOwner, streams, ioPending, struck>>

IoMainStep == IoCreate \/ IoSendCancel \/ IoJoin \/ IoClose

IoNext ==
  \/ IoMainStep \/ IoMainDies
  \/ \E t \in IoWorker : IoWorkerStep(t) \/ Fault(t) \/ IoCancelled(t)

IoSpec == IoInit /\ [][IoNext]_ioVars

\* Every thread that can run is scheduled.  A worker asks for mylock only
\* finitely often (numio turns), so weak fairness serves it in the end;
\* failures and cancellation points are not promised.
IoFairness == WF_ioVars(IoMainStep) /\ \A t \in IoWorker : WF_ioVars(IoWorkerStep(t))

IoFairSpec == IoSpec /\ IoFairness

---------------------------------------------------------------------------
(* Properties. *)

IoTypeOK ==
  /\ variant \in Variants /\ ioCancel \in BOOLEAN /\ faulty \in Faulty
  /\ ioMain \in {"create", "cancel", "join", "close", "done", "fatal"}
  /\ ioN \in IoWorker
  /\ ioPc \in [IoWorker -> {"none", "begin", "lockread", "fread", "lockwrite", "fwrite",
                        "failing", "handler", "finish", "done"}]
  /\ turn \in [IoWorker -> 0..NumIO]
  /\ ioOwner \in IoWorker \cup {IoNobody}
  /\ ioHeap \in [Buffer -> {"none", "live", "freed", "corrupt"}]
  /\ content \in [Buffer -> Nat]
  /\ blocks \in Nat /\ ioFile \in Seq(Nat)
  /\ ioPending \in BOOLEAN /\ struck \in BOOLEAN

\* Every block is written at most once and, at the end, all are there, but for
\* the one a cancelled worker held.
BlocksKept ==
  /\ IsInjective(ioFile)
  /\ (ioMain = "done" /\ ~ struck) => ToSet(ioFile) = 1..blocks
  /\ ioMain = "done" => Cardinality((1..blocks) \ ToSet(ioFile)) <= 1

\* The reworkings that give each thread its own buffer lose and repeat nothing.
OwnBufferKeepsBlocks == variant # "mtx" => BlocksKept

\* The global buffer loses and repeats blocks, but writes as many as it reads.
CountKept == (ioMain = "done" /\ ~ struck) => Len(ioFile) = IoNTHREADS * NumIO

\* Transfers use allocated buffers, and no buffer is freed twice.
IoMemorySafe ==
  IoAlive =>
    /\ \A b \in Buffer : ioHeap[b] # "corrupt"
    /\ \A t \in IoWorker : ioPc[t] \in {"fread", "fwrite"} => ioHeap[Buf(t)] = "live"

\* As long as no fwrite fails, in the versions where such a failure leaves a
\* freed buffer within reach (of another thread, of the handler).
MemorySafeUnlessFault ==
  ~ (faulty /\ (variant = "mtx" \/ ioCancel)) => IoMemorySafe

\* When a thread has ended, cancelled or not, its buffer is free again.
NoLeak ==
  \A t \in IoWorker :
    (ioPc[t] = "done" /\ variant \in {"rfct", "cleanup"}) => ioHeap[t] # "live"

\* The process ends, with or without a cancellation and its late arrival.
IoTerminates == <>(ioMain \in {"done", "fatal"})

---------------------------------------------------------------------------
(* The inductive invariant, in parts. *)

\* How far main is tells which workers exist, and which have ended.
IoProgress ==
  /\ (ioMain = "create") => (\A t \in IoWorker : t >= ioN => ioPc[t] = "none")
  /\ (ioMain = "cancel") => (ioCancel /\ ioN = 1)
  /\ (ioMain = "join") => (\A t \in IoWorker : t < ioN => ioPc[t] = "done")
  /\ (ioMain \in {"close", "done"}) => (\A t \in IoWorker : ioPc[t] = "done")

\* Where a worker can be, in this variant, turn and state of the cancellation.
Control ==
  /\ \A t \in IoWorker :
       /\ (ioPc[t] \in {"none", "begin"}) => (turn[t] = 0)
       /\ (ioPc[t] \in {"lockread", "fread", "lockwrite", "fwrite"}) => (turn[t] < NumIO)
       /\ (ioPc[t] \in {"lockread", "lockwrite"}) => (variant = "mtx")
       /\ (ioPc[t] = "handler") => (t = 1 /\ struck)
       /\ (ioPc[t] = "failing") => faulty
  /\ struck => ioPending
  /\ ioPending => ioCancel
  /\ ioCancel => variant = "cleanup"

\* The state of a worker's own buffer: only a failing fwrite that is followed by
\* a cancellation frees it twice.
OwnBuffer(t) ==
  /\ (ioPc[t] \in {"none", "begin"}) => (ioHeap[t] = "none")
  /\ (ioPc[t] \in {"fread", "fwrite", "finish"}) => (ioHeap[t] = "live")
  /\ (ioPc[t] = "failing") => (ioHeap[t] = IF variant = "tls" THEN "live" ELSE "freed")
  /\ (ioPc[t] = "handler") => (ioHeap[t] \in {"live", "freed"} /\ (ioHeap[t] = "live" \/ faulty))
  /\ (ioPc[t] = "done") =>
       IF variant = "tls" THEN ioHeap[t] = "live"
       ELSE ioHeap[t] \in {"freed", "corrupt"} /\ (ioHeap[t] = "freed" \/ (faulty /\ ioCancel))

IoHeap ==
  IF variant = "mtx"
  THEN /\ \A t \in IoWorker : ioHeap[t] = "none"
       /\ faulty \/ ioHeap[Shared] = IF ioMain = "done" THEN "freed" ELSE "live"
  ELSE ioHeap[Shared] = "none" /\ \A t \in IoWorker : OwnBuffer(t)

\* With a buffer of its own, each worker between its fread and its next turn
\* holds a block that no other holds; what has been read is in the file, or
\* held, or is the one block that went with the cancelled worker.
Carries(t) == ioPc[t] \in {"fwrite", "failing"}
InFile(b) == \E j \in 1..Len(ioFile) : ioFile[j] = b
Held(b) == \E t \in IoWorker : Carries(t) /\ content[t] = b

Carried ==
  variant # "mtx" =>
    /\ IsInjective(ioFile)
    /\ \A j \in 1..Len(ioFile) : ioFile[j] \in 1..blocks
    /\ \A t \in IoWorker : Carries(t) => content[t] \in 1..blocks
    /\ \A s, t \in IoWorker : (Carries(s) /\ Carries(t) /\ content[s] = content[t]) => s = t
    /\ \A t \in IoWorker : (ioPc[t] = "fwrite") => ~ InFile(content[t])
    /\ \E x \in 0..blocks : \A b \in 1..blocks :
         InFile(b) \/ Held(b) \/ (struck /\ b = x)

IoInv == IoTypeOK /\ IoProgress /\ Control /\ IoHeap /\ Carried

\* What CountKept needs besides: each turn that a worker has made is one block
\* in the file, and a worker ends with all its turns made.
Turns == {p \in IoWorker \X (1..NumIO) : p[2] <= turn[p[1]]}
Counted ==
  ~ struck =>
    /\ Len(ioFile) = Cardinality(Turns)
    /\ \A t \in IoWorker : ioPc[t] \in {"finish", "done"} => turn[t] = NumIO

=============================================================================
