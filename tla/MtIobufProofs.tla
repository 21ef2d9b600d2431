--------------------------- MODULE MtIobufProofs ---------------------------
(***************************************************************************)
(* Theorems about MtIobuf, for any number of workers and of turns.         *)
(***************************************************************************)
EXTENDS MtIobuf, FiniteSetTheorems, TLAPS

---------------------------------------------------------------------------
(* The invariant. *)

\* The numbers of workers and turns, for the provers.
LEMMA Bounds ==
  /\ IoNTHREADS \in Nat /\ IoNTHREADS >= 1 /\ NumIO \in Nat /\ NumIO >= 1
  /\ IoWorker = 1..IoNTHREADS /\ Buffer = IoWorker \cup {0} /\ 0 \notin IoWorker
  /\ IoNobody = 0 /\ Shared = 0
BY MtIobufAssumption DEF IoWorker, Buffer, IoNobody, Shared

\* The variants are strings, and what is faulty is a Boolean.
LEMMA Chosen ==
  IoInv => /\ faulty \in BOOLEAN /\ ioCancel \in BOOLEAN
           /\ variant \in {"mtx", "rfct", "tls", "cleanup"}
BY MtIobufAssumption, Zenon DEF IoInv, IoTypeOK

\* The invariant holds before main creates the first worker.
LEMMA InitIInv == IoInit => IoInv
<1> SUFFICES ASSUME IoInit PROVE IoInv
  OBVIOUS
<1>1. IoTypeOK
  <2>1. ioCancel \in BOOLEAN /\ ioPending \in BOOLEAN /\ struck \in BOOLEAN /\ faulty \in Faulty
    BY Zenon DEF IoInit
  <2>2. ioHeap \in [Buffer -> {"none", "live", "freed", "corrupt"}]
    BY DEF IoInit
  <2> QED
    BY <2>1, <2>2, Bounds DEF IoInit, IoTypeOK
<1>2. IoProgress
  BY DEF IoInit, IoProgress
<1>3. Control
  <2>1. ioCancel => variant = "cleanup"
    BY Zenon DEF IoInit
  <2> QED
    BY <2>1 DEF IoInit, Control
<1>4. IoHeap
  BY Bounds DEF IoInit, IoHeap, OwnBuffer
<1>5. Carried
  <2>1. Len(ioFile) = 0 /\ blocks = 0 /\ \A t \in IoWorker : ~ Carries(t) /\ ioPc[t] # "fwrite"
    BY DEF IoInit, Carries
  <2>2. IsInjective(ioFile)
    BY DEF IoInit, IsInjective
  <2> QED
    BY <2>1, <2>2 DEF Carried
<1> QED
  BY <1>1, <1>2, <1>3, <1>4, <1>5 DEF IoInv

\* A step that moves no block, and after which the same workers hold one.
LEMMA CarriedStays ==
  ASSUME IoInv, UNCHANGED <<variant, streams>>, struck => struck',
         \A t \in IoWorker : (Carries(t)' <=> Carries(t)) /\ ((ioPc'[t] = "fwrite") => ioPc[t] = "fwrite")
  PROVE  Carried'
<1> SUFFICES ASSUME variant # "mtx" PROVE Carried'
  BY DEF Carried, streams
<1>1. PICK x \in 0..blocks : \A b \in 1..blocks : InFile(b) \/ Held(b) \/ (struck /\ b = x)
  BY DEF IoInv, Carried
<1>2. \A b \in 1..blocks : InFile(b)' \/ Held(b)' \/ (struck' /\ b = x)
  BY <1>1 DEF InFile, Held, streams
<1>3. IsInjective(ioFile)'
  BY DEF IoInv, Carried, streams
<1>4. \A t \in IoWorker : (ioPc[t] = "fwrite")' => ~ InFile(content[t])'
  BY DEF IoInv, Carried, InFile, streams
<1> QED
  BY <1>1, <1>2, <1>3, <1>4 DEF IoInv, Carried, streams

\* A worker allocates its buffer.
LEMMA BeginKeeps ==
  ASSUME IoInv, NEW t \in IoWorker, Begin(t)
  PROVE  IoInv'
<1> USE Bounds, Chosen DEF IoInv, Begin, Top, ioInput, streams
<1>1. IoTypeOK'
  BY DEF IoTypeOK, Buf, Freed
<1>2. IoProgress'
  BY DEF IoTypeOK, IoProgress
<1>3. Control'
  BY DEF IoTypeOK, Control, IoProgress
<1>4. IoHeap'
  BY DEF IoTypeOK, Control, IoProgress, IoHeap, OwnBuffer, Freed, Buf
<1>5. Carried'
  <2>1. UNCHANGED <<variant, streams>> /\ (struck => struck')
    BY Zenon
  <2>2. \A s \in IoWorker :
          (Carries(s)' <=> Carries(s)) /\ ((ioPc'[s] = "fwrite") => ioPc[s] = "fwrite")
    BY DEF Carries, IoTypeOK, Control
  <2> QED
    BY <2>1, <2>2, CarriedStays
<1> QED
  BY <1>1, <1>2, <1>3, <1>4, <1>5

\* A worker of "mtx" takes the mutex.
LEMMA LockKeeps ==
  ASSUME IoInv, NEW t \in IoWorker, IoLock(t)
  PROVE  IoInv'
<1> USE Bounds, Chosen DEF IoInv, IoLock, ioInput, streams
<1>1. IoTypeOK'
  BY DEF IoTypeOK, Buf, Freed
<1>2. IoProgress'
  BY DEF IoTypeOK, IoProgress
<1>3. Control'
  BY DEF IoTypeOK, Control, IoProgress
<1>4. IoHeap'
  BY DEF IoTypeOK, Control, IoProgress, IoHeap, OwnBuffer, Freed, Buf
<1>5. Carried'
  <2>1. variant = "mtx"
    BY DEF Control
  <2> QED
    BY <2>1 DEF Carried
<1> QED
  BY <1>1, <1>2, <1>3, <1>4, <1>5

\* fread brings a block that nobody has had.
LEMMA ReadKeeps ==
  ASSUME IoInv, NEW t \in IoWorker, Read(t)
  PROVE  IoInv'
<1> USE Bounds, Chosen DEF IoInv, Read, ioInput
<1>1. IoTypeOK'
  <2>1. Buf(t) \in Buffer /\ blocks' \in Nat /\ ioOwner' \in IoWorker \cup {IoNobody}
    BY DEF IoTypeOK, Buf
  <2>2. content' \in [Buffer -> Nat]
    BY <2>1 DEF IoTypeOK
  <2>3. ioPc' \in [IoWorker -> {"none", "begin", "lockread", "fread", "lockwrite", "fwrite",
                          "failing", "handler", "finish", "done"}]
    BY DEF IoTypeOK
  <2> QED
    BY <2>1, <2>2, <2>3 DEF IoTypeOK
<1>2. IoProgress'
  BY DEF IoTypeOK, IoProgress
<1>3. Control'
  BY DEF IoTypeOK, Control, IoProgress
<1>4. IoHeap'
  BY DEF IoTypeOK, Control, IoProgress, IoHeap, OwnBuffer
<1>5. Carried'
  <2> SUFFICES ASSUME variant # "mtx" PROVE Carried'
    BY DEF Carried
  <2>1. ioPc' = [ioPc EXCEPT ![t] = "fwrite"] /\ content' = [content EXCEPT ![t] = blocks + 1]
    BY DEF Buf
  <2>2. blocks \in Nat /\ blocks' = blocks + 1 /\ ioFile' = ioFile
    BY DEF IoTypeOK
  <2>3. ~ Carries(t) /\ \A s \in IoWorker : Carries(s)' <=> (s = t \/ Carries(s))
    BY <2>1 DEF IoTypeOK, Carries
  <2>4. \A s \in IoWorker : content'[s] = IF s = t THEN blocks + 1 ELSE content[s]
    BY <2>1 DEF IoTypeOK
  <2>5. \A b \in 1..blocks : Held(b) => Held(b)'
    BY <2>3, <2>4 DEF Held
  <2>6. Held(blocks)'
    BY <2>3, <2>4 DEF Held
  <2>7. PICK x \in 0..blocks : \A b \in 1..blocks : InFile(b) \/ Held(b) \/ (struck /\ b = x)
    BY DEF Carried
  <2>8. \A b \in 1..blocks' : InFile(b)' \/ Held(b)' \/ (struck' /\ b = x)
    <3>1. \A b \in 1..blocks : InFile(b) => InFile(b)'
      BY <2>2 DEF InFile
    <3>2. \A b \in 1..blocks' : b \in 1..blocks \/ b = blocks'
      BY <2>2
    <3> QED
      BY <2>5, <2>6, <2>7, <3>1, <3>2
  <2>9. \A k \in 1..Len(ioFile) : ioFile[k] \in 1..blocks
    BY DEF Carried
  <2>14. \E y \in 0..blocks' : \A b \in 1..blocks' : InFile(b)' \/ Held(b)' \/ (struck' /\ b = y)
    <3>1. x \in 0..blocks'
      BY <2>2
    <3> QED
      BY <2>8, <3>1
  <2>10. \A s \in IoWorker : (ioPc'[s] = "fwrite") => ~ InFile(content[s])'
    <3>1. ~ InFile(blocks)'
      BY <2>2, <2>9 DEF InFile
    <3>2. \A s \in IoWorker \ {t} : (ioPc'[s] = "fwrite") => ioPc[s] = "fwrite"
      BY <2>1 DEF IoTypeOK
    <3> QED
      BY <3>1, <3>2, <2>2, <2>4 DEF Carried, InFile
  <2>11. \A s \in IoWorker : Carries(s)' => content'[s] \in 1..blocks'
    BY <2>2, <2>3, <2>4 DEF Carried
  <2>12. \A r, s \in IoWorker : (Carries(r)' /\ Carries(s)' /\ content'[r] = content'[s]) => r = s
    BY <2>2, <2>3, <2>4 DEF Carried
  <2>13. IsInjective(ioFile)' /\ \A k \in 1..Len(ioFile') : ioFile'[k] \in 1..blocks'
    BY <2>2, <2>9 DEF Carried
  <2> QED
    BY <2>10, <2>11, <2>12, <2>13, <2>14 DEF Carried
<1> QED
  BY <1>1, <1>2, <1>3, <1>4, <1>5

\* Appending a block that is not in the file keeps its blocks distinct.
LEMMA AppendFresh ==
  ASSUME IoInv, NEW b \in Nat, ~ InFile(b), IsInjective(ioFile), ioFile' = Append(ioFile, b)
  PROVE  /\ IsInjective(ioFile')
         /\ Len(ioFile') = Len(ioFile) + 1
         /\ \A k \in 1..Len(ioFile') : ioFile'[k] = IF k = Len(ioFile') THEN b ELSE ioFile[k]
         /\ \A c : InFile(c)' <=> (InFile(c) \/ c = b)
<1>1. ioFile \in Seq(Nat) /\ Len(ioFile) \in Nat /\ DOMAIN ioFile = 1..Len(ioFile)
  BY DEF IoInv, IoTypeOK
<1>2. Len(ioFile') = Len(ioFile) + 1 /\ DOMAIN ioFile' = 1..(Len(ioFile) + 1)
  BY <1>1
<1>3. \A k \in 1..Len(ioFile') : ioFile'[k] = IF k = Len(ioFile') THEN b ELSE ioFile[k]
  BY <1>1, <1>2
<1>4. \A c : InFile(c)' <=> (InFile(c) \/ c = b)
  BY <1>1, <1>2, <1>3 DEF InFile
<1>5. IsInjective(ioFile')
  <2> SUFFICES ASSUME NEW j \in 1..Len(ioFile'), NEW k \in 1..Len(ioFile'), ioFile'[j] = ioFile'[k]
               PROVE  j = k
    BY <1>2 DEF IsInjective
  <2>1. CASE j = Len(ioFile') \/ k = Len(ioFile')
    BY <2>1, <1>1, <1>2, <1>3 DEF InFile
  <2>2. CASE j # Len(ioFile') /\ k # Len(ioFile')
    BY <2>2, <1>1, <1>2, <1>3 DEF IsInjective
  <2> QED
    BY <2>1, <2>2
<1> QED
  BY <1>2, <1>3, <1>4, <1>5

\* fwrite moves the block of its worker into the file.
LEMMA WriteKeeps ==
  ASSUME IoInv, NEW t \in IoWorker, Write(t)
  PROVE  IoInv'
<1> USE Bounds, Chosen DEF IoInv, Write, Top, ioInput
<1>1. IoTypeOK'
  <2>1. content[Buf(t)] \in Nat /\ ioFile \in Seq(Nat)
    BY DEF IoTypeOK, Buf
  <2>2. ioFile' \in Seq(Nat)
    BY <2>1
  <2>3. turn' \in [IoWorker -> 0..NumIO] /\ ioOwner' \in IoWorker \cup {IoNobody}
    <3>1. turn[t] \in 0..NumIO /\ turn[t] < NumIO
      BY DEF IoTypeOK, Control
    <3>2. turn[t] + 1 \in 0..NumIO
      BY <3>1
    <3> QED
      BY <3>2 DEF IoTypeOK
  <2>4. ioPc' \in [IoWorker -> {"none", "begin", "lockread", "fread", "lockwrite", "fwrite",
                          "failing", "handler", "finish", "done"}]
    BY DEF IoTypeOK
  <2> QED
    BY <2>2, <2>3, <2>4 DEF IoTypeOK
<1>2. IoProgress'
  BY DEF IoTypeOK, IoProgress
<1>3. Control'
  BY DEF IoTypeOK, Control, IoProgress
<1>4. IoHeap'
  BY DEF IoTypeOK, Control, IoProgress, IoHeap, OwnBuffer
<1>5. Carried'
  <2> SUFFICES ASSUME variant # "mtx" PROVE Carried'
    BY DEF Carried
  <2>1. ioFile' = Append(ioFile, content[t]) /\ Carries(t)
    BY DEF Buf, Carries
  <2>2. content[t] \in 1..blocks /\ ~ InFile(content[t]) /\ blocks \in Nat
    BY <2>1 DEF Carried, IoTypeOK
  <2>3. /\ IsInjective(ioFile')
        /\ \A k \in 1..Len(ioFile') : ioFile'[k] = IF k = Len(ioFile') THEN content[t] ELSE ioFile[k]
        /\ Len(ioFile') = Len(ioFile) + 1 /\ Len(ioFile) \in Nat
        /\ \A c : InFile(c)' <=> (InFile(c) \/ c = content[t])
    <3>1. content[t] \in Nat /\ Len(ioFile) \in Nat /\ IsInjective(ioFile)
      BY <2>2 DEF Carried, IoTypeOK
    <3> QED
      BY <2>1, <2>2, <3>1, AppendFresh
  <2>4. \A s \in IoWorker : /\ Carries(s)' <=> (s # t /\ Carries(s))
                            /\ (ioPc'[s] = "fwrite") => (s # t /\ ioPc[s] = "fwrite")
    BY DEF IoTypeOK, Carries, Top
  <2>5. PICK x \in 0..blocks : \A b \in 1..blocks : InFile(b) \/ Held(b) \/ (struck /\ b = x)
    BY DEF Carried
  <2>6. \A b \in 1..blocks : InFile(b)' \/ Held(b)' \/ (struck' /\ b = x)
    BY <2>3, <2>4, <2>5 DEF Held
  <2>7. \A k \in 1..Len(ioFile') : ioFile'[k] \in 1..blocks
    BY <2>2, <2>3 DEF Carried
  <2>8. \A s \in IoWorker : (ioPc'[s] = "fwrite") => ~ InFile(content[s])'
    <3> SUFFICES ASSUME NEW s \in IoWorker, ioPc'[s] = "fwrite" PROVE ~ InFile(content[s])'
      OBVIOUS
    <3>1. s # t /\ ioPc[s] = "fwrite" /\ Carries(s)
      BY <2>4 DEF Carries
    <3>2. content[s] # content[t] /\ ~ InFile(content[s]) /\ content'[s] = content[s]
      BY <3>1, <2>1 DEF Carried
    <3> QED
      BY <3>2, <2>3 DEF InFile
  <2> QED
    BY <2>3, <2>4, <2>5, <2>6, <2>7, <2>8 DEF Carried
<1> QED
  BY <1>1, <1>2, <1>3, <1>4, <1>5

\* A failing fwrite leaves its block with the worker.
LEMMA WriteFailsKeeps ==
  ASSUME IoInv, NEW t \in IoWorker, WriteFails(t)
  PROVE  IoInv'
<1> USE Bounds, Chosen DEF IoInv, WriteFails, ioInput, streams
<1>1. IoTypeOK'
  BY DEF IoTypeOK, Buf, Freed
<1>2. IoProgress'
  BY DEF IoTypeOK, IoProgress
<1>3. Control'
  BY DEF IoTypeOK, Control, IoProgress
<1>4. IoHeap'
  BY DEF IoTypeOK, Control, IoProgress, IoHeap, OwnBuffer, Freed, Buf
<1>5. Carried'
  <2>1. UNCHANGED <<variant, streams>> /\ (struck => struck')
    BY Zenon
  <2>2. \A s \in IoWorker :
          (Carries(s)' <=> Carries(s)) /\ ((ioPc'[s] = "fwrite") => ioPc[s] = "fwrite")
    BY DEF Carries, IoTypeOK, Control
  <2> QED
    BY <2>1, <2>2, CarriedStays
<1> QED
  BY <1>1, <1>2, <1>3, <1>4, <1>5

\* FATAL after a failing fwrite ends the process.
LEMMA ExitKeeps ==
  ASSUME IoInv, NEW t \in IoWorker, Exit(t)
  PROVE  IoInv'
<1> USE Bounds, Chosen DEF IoInv, Exit, IoAlive, ioInput, streams
<1>1. IoTypeOK'
  BY DEF IoTypeOK, Buf, Freed
<1>2. IoProgress'
  BY DEF IoTypeOK, IoProgress
<1>3. Control'
  BY DEF IoTypeOK, Control, IoProgress
<1>4. IoHeap'
  BY DEF IoTypeOK, Control, IoProgress, IoHeap, OwnBuffer, Freed, Buf
<1>5. Carried'
  <2>1. UNCHANGED <<variant, streams>> /\ (struck => struck')
    BY Zenon
  <2>2. \A s \in IoWorker :
          (Carries(s)' <=> Carries(s)) /\ ((ioPc'[s] = "fwrite") => ioPc[s] = "fwrite")
    BY DEF Carries, IoTypeOK, Control
  <2> QED
    BY <2>1, <2>2, CarriedStays
<1> QED
  BY <1>1, <1>2, <1>3, <1>4, <1>5

\* FATAL in a worker ends the process.
LEMMA DieKeeps ==
  ASSUME IoInv, NEW t \in IoWorker, Die(t)
  PROVE  IoInv'
<1> USE Bounds, Chosen DEF IoInv, Die, IoAlive, ioInput, streams
<1>1. IoTypeOK'
  BY DEF IoTypeOK, Buf, Freed
<1>2. IoProgress'
  BY DEF IoTypeOK, IoProgress
<1>3. Control'
  BY DEF IoTypeOK, Control, IoProgress
<1>4. IoHeap'
  BY DEF IoTypeOK, Control, IoProgress, IoHeap, OwnBuffer, Freed, Buf
<1>5. Carried'
  <2>1. UNCHANGED <<variant, streams>> /\ (struck => struck')
    BY Zenon
  <2>2. \A s \in IoWorker :
          (Carries(s)' <=> Carries(s)) /\ ((ioPc'[s] = "fwrite") => ioPc[s] = "fwrite")
    BY DEF Carries, IoTypeOK, Control
  <2> QED
    BY <2>1, <2>2, CarriedStays
<1> QED
  BY <1>1, <1>2, <1>3, <1>4, <1>5

\* The output stays a sequence of numbers when a block is appended to it, or nothing.
LEMMA OutputGrows ==
  ASSUME NEW s \in Seq(Nat), NEW n \in Nat, NEW r, r = s \/ r = Append(s, n)
  PROVE  r \in Seq(Nat)
OBVIOUS

\* A cancellation takes at most one block with it.
LEMMA CancelledKeeps ==
  ASSUME IoInv, NEW t \in IoWorker, IoCancelled(t)
  PROVE  IoInv'
<1> USE Bounds, Chosen DEF IoInv, IoCancelled, ioInput
<1>1. IoTypeOK'
  <2>1. ioFile' \in Seq(Nat)
    <3>1. content[Buf(t)] \in Nat /\ ioFile \in Seq(Nat)
      BY DEF IoTypeOK, Buf
    <3>2. ioFile' = ioFile \/ ioFile' = Append(ioFile, content[Buf(t)])
      OBVIOUS
    <3> HIDE Bounds, Chosen DEF IoInv, IoCancelled, ioInput
    <3> QED
      BY <3>1, <3>2, OutputGrows
  <2>2. blocks' \in Nat
    BY DEF IoTypeOK
  <2>3. struck' \in BOOLEAN
    BY Zenon
  <2> QED
    BY <2>1, <2>2, <2>3 DEF IoTypeOK
<1>2. IoProgress'
  BY DEF IoTypeOK, IoProgress
<1>3. Control'
  BY DEF IoTypeOK, Control, IoProgress
<1>4. IoHeap'
  BY DEF IoTypeOK, Control, IoProgress, IoHeap, OwnBuffer
<1>5. Carried'
  <2>1. variant = "cleanup" /\ ~ struck /\ struck' /\ blocks \in Nat /\ blocks' \in blocks..(blocks + 1)
    BY DEF Control, IoTypeOK
  <2>2. \A s \in IoWorker : /\ Carries(s)' <=> (s # t /\ Carries(s))
                            /\ (ioPc'[s] = "fwrite") => (s # t /\ ioPc[s] = "fwrite")
    BY DEF IoTypeOK, Carries
  <2>3. content' = content /\ \A b \in 1..blocks : InFile(b) \/ Held(b)
    BY <2>1 DEF Carried
  <2>4. CASE ioFile' = ioFile
    <3>1. \A b \in 1..blocks : InFile(b)' \/ Held(b)' \/ (Carries(t) /\ b = content[t])
      BY <2>2, <2>3, <2>4 DEF InFile, Held
    <3>2. \E x \in 0..blocks' : \A b \in 1..blocks' : InFile(b)' \/ Held(b)' \/ b = x
      <4>1. CASE ioPc[t] = "fread"
        <5>1. ~ Carries(t)
          BY <4>1 DEF Carries
        <5>2. \A b \in 1..blocks' : InFile(b)' \/ Held(b)' \/ b = blocks'
          BY <5>1, <3>1, <2>1
        <5> QED
          BY <5>2, <2>1
      <4>2. CASE ioPc[t] # "fread"
        <5>1. Carries(t) /\ content[t] \in 1..blocks /\ blocks' = blocks
          BY <4>2, <2>1 DEF Carries, Carried
        <5> QED
          <6>1. content[t] \in 0..blocks'
            BY <5>1, <2>1
          <6>2. \A b \in 1..blocks' : InFile(b)' \/ Held(b)' \/ b = content[t]
            BY <5>1, <3>1
          <6> QED
            BY <6>1, <6>2
      <4> QED
        BY <4>1, <4>2
    <3>3. IsInjective(ioFile)' /\ \A k \in 1..Len(ioFile') : ioFile'[k] \in 1..blocks'
      BY <2>1, <2>4 DEF Carried
    <3>4. \A s \in IoWorker : (ioPc'[s] = "fwrite") => ~ InFile(content[s])'
      BY <2>1, <2>2, <2>3, <2>4 DEF Carried, InFile
    <3>5. \A s \in IoWorker : Carries(s)' => content'[s] \in 1..blocks'
      BY <2>1, <2>2, <2>3 DEF Carried
    <3>6. \A r, s \in IoWorker : (Carries(r)' /\ Carries(s)' /\ content'[r] = content'[s]) => r = s
      BY <2>1, <2>2, <2>3 DEF Carried
    <3> QED
      BY <2>1, <3>2, <3>3, <3>4, <3>5, <3>6 DEF Carried
  <2>5. CASE ioPc[t] = "fwrite" /\ ioFile' = Append(ioFile, content[Buf(t)])
    <3>1. ioFile' = Append(ioFile, content[t]) /\ Carries(t) /\ blocks' = blocks
      BY <2>1, <2>5 DEF Buf, Carries
    <3>2. content[t] \in 1..blocks /\ ~ InFile(content[t])
      BY <2>1, <2>5, <3>1 DEF Carried
    <3>3. /\ IsInjective(ioFile')
          /\ \A k \in 1..Len(ioFile') : ioFile'[k] = IF k = Len(ioFile') THEN content[t] ELSE ioFile[k]
          /\ Len(ioFile') = Len(ioFile) + 1 /\ Len(ioFile) \in Nat
          /\ \A c : InFile(c)' <=> (InFile(c) \/ c = content[t])
      <4>1. content[t] \in Nat /\ Len(ioFile) \in Nat /\ IsInjective(ioFile)
        BY <2>1, <3>2 DEF Carried, IoTypeOK
      <4> QED
        BY <3>1, <3>2, <4>1, AppendFresh
    <3>4. \A b \in 1..blocks : InFile(b)' \/ Held(b)'
      BY <2>2, <2>3, <3>3 DEF Held
    <3>5. \A k \in 1..Len(ioFile') : ioFile'[k] \in 1..blocks
      BY <2>1, <3>2, <3>3 DEF Carried
    <3>6. \A s \in IoWorker : (ioPc'[s] = "fwrite") => ~ InFile(content[s])'
      <4> SUFFICES ASSUME NEW s \in IoWorker, ioPc'[s] = "fwrite" PROVE ~ InFile(content[s])'
        OBVIOUS
      <4>1. s # t /\ ioPc[s] = "fwrite" /\ Carries(s)
        BY <2>2 DEF Carries
      <4>2. content[s] # content[t] /\ ~ InFile(content[s]) /\ content'[s] = content[s]
        BY <4>1, <3>1, <2>1, <2>3 DEF Carried
      <4> QED
        BY <4>2, <3>3 DEF InFile
    <3>7. \E x \in 0..blocks' : \A b \in 1..blocks' : InFile(b)' \/ Held(b)' \/ (struck' /\ b = x)
      <4>1. 0 \in 0..blocks'
        BY <2>1
      <4> QED
        BY <4>1, <3>1, <3>4
    <3>8. \A r, s \in IoWorker : (Carries(r)' /\ Carries(s)' /\ content'[r] = content'[s]) => r = s
      BY <2>1, <2>2, <2>3 DEF Carried
    <3>9. \A s \in IoWorker : Carries(s)' => content'[s] \in 1..blocks'
      BY <2>1, <2>2, <2>3, <3>1 DEF Carried
    <3> QED
      BY <3>1, <3>3, <3>5, <3>6, <3>7, <3>8, <3>9 DEF Carried
  <2> QED
    BY <2>4, <2>5
<1> QED
  BY <1>1, <1>2, <1>3, <1>4, <1>5

\* The cleanup handler frees the buffer of its thread.
LEMMA HandlerKeeps ==
  ASSUME IoInv, NEW t \in IoWorker, Handler(t)
  PROVE  IoInv'
<1> USE Bounds, Chosen DEF IoInv, Handler, ioInput, streams
<1>1. IoTypeOK'
  BY DEF IoTypeOK, Buf, Freed
<1>2. IoProgress'
  BY DEF IoTypeOK, IoProgress
<1>3. Control'
  BY DEF IoTypeOK, Control, IoProgress
<1>4. IoHeap'
  BY DEF IoTypeOK, Control, IoProgress, IoHeap, OwnBuffer, Freed, Buf
<1>5. Carried'
  <2>1. UNCHANGED <<variant, streams>> /\ (struck => struck')
    BY Zenon
  <2>2. \A s \in IoWorker :
          (Carries(s)' <=> Carries(s)) /\ ((ioPc'[s] = "fwrite") => ioPc[s] = "fwrite")
    BY DEF Carries, IoTypeOK, Control
  <2> QED
    BY <2>1, <2>2, CarriedStays
<1> QED
  BY <1>1, <1>2, <1>3, <1>4, <1>5

\* A worker that has done its turns frees its buffer.
LEMMA FinishKeeps ==
  ASSUME IoInv, NEW t \in IoWorker, Finish(t)
  PROVE  IoInv'
<1> USE Bounds, Chosen DEF IoInv, Finish, ioInput, streams
<1>1. IoTypeOK'
  BY DEF IoTypeOK, Buf, Freed
<1>2. IoProgress'
  BY DEF IoTypeOK, IoProgress
<1>3. Control'
  BY DEF IoTypeOK, Control, IoProgress
<1>4. IoHeap'
  <2>1. CASE variant = "mtx"
    BY <2>1 DEF IoHeap
  <2>2. CASE variant # "mtx"
    <3>1. ioHeap[t] = "live" /\ ioHeap[Shared] = "none"
      BY <2>2 DEF IoHeap, OwnBuffer
    <3>2. ioHeap' = IF variant = "tls" THEN ioHeap ELSE [ioHeap EXCEPT ![t] = "freed"]
      BY <2>2, <3>1 DEF Freed
    <3>3. \A s \in IoWorker \ {t} : ioPc'[s] = ioPc[s] /\ ioHeap'[s] = ioHeap[s]
      BY <3>2 DEF IoTypeOK
    <3>4. ioPc'[t] = "done" /\ ioHeap'[Shared] = "none"
          /\ ioHeap'[t] = IF variant = "tls" THEN "live" ELSE "freed"
      BY <3>1, <3>2 DEF IoTypeOK
    <3> QED
      BY <2>2, <3>3, <3>4 DEF IoHeap, OwnBuffer
  <2> QED
    BY <2>1, <2>2
<1>5. Carried'
  <2>1. UNCHANGED <<variant, streams>> /\ (struck => struck')
    BY Zenon
  <2>2. \A s \in IoWorker :
          (Carries(s)' <=> Carries(s)) /\ ((ioPc'[s] = "fwrite") => ioPc[s] = "fwrite")
    BY DEF Carries, IoTypeOK, Control
  <2> QED
    BY <2>1, <2>2, CarriedStays
<1> QED
  BY <1>1, <1>2, <1>3, <1>4, <1>5

\* Main creates the next worker.
LEMMA CreateKeeps ==
  ASSUME IoInv, IoCreate
  PROVE  IoInv'
<1> USE Bounds, Chosen DEF IoInv, IoCreate, ioInput, streams
<1>1. IoTypeOK'
  BY DEF IoTypeOK, Buf, Freed
<1>2. IoProgress'
  BY DEF IoTypeOK, IoProgress
<1>3. Control'
  BY DEF IoTypeOK, Control, IoProgress
<1>4. IoHeap'
  BY DEF IoTypeOK, Control, IoProgress, IoHeap, OwnBuffer, Freed, Buf
<1>5. Carried'
  <2>1. ioN \in IoWorker /\ ioPc[ioN] = "none"
    BY DEF IoProgress, IoTypeOK
  <2>2. \A s \in IoWorker :
          (Carries(s)' <=> Carries(s)) /\ ((ioPc'[s] = "fwrite") => ioPc[s] = "fwrite")
    BY <2>1 DEF Carries, IoTypeOK
  <2>3. UNCHANGED <<variant, streams>> /\ (struck => struck')
    BY Zenon
  <2> QED
    BY <2>2, <2>3, CarriedStays
<1> QED
  BY <1>1, <1>2, <1>3, <1>4, <1>5

\* FATAL in main ends the process.
LEMMA MainDiesKeeps ==
  ASSUME IoInv, IoMainDies
  PROVE  IoInv'
<1> USE Bounds, Chosen DEF IoInv, IoMainDies, ioInput, streams
<1>1. IoTypeOK'
  BY DEF IoTypeOK, Buf, Freed
<1>2. IoProgress'
  BY DEF IoTypeOK, IoProgress
<1>3. Control'
  BY DEF IoTypeOK, Control, IoProgress
<1>4. IoHeap'
  BY DEF IoTypeOK, Control, IoProgress, IoHeap, OwnBuffer, Freed, Buf
<1>5. Carried'
  <2>1. UNCHANGED <<variant, streams>> /\ (struck => struck')
    BY Zenon
  <2>2. \A s \in IoWorker :
          (Carries(s)' <=> Carries(s)) /\ ((ioPc'[s] = "fwrite") => ioPc[s] = "fwrite")
    BY DEF Carries, IoTypeOK, Control
  <2> QED
    BY <2>1, <2>2, CarriedStays
<1> QED
  BY <1>1, <1>2, <1>3, <1>4, <1>5

\* Main requests the cancellation of the first worker.
LEMMA SendCancelKeeps ==
  ASSUME IoInv, IoSendCancel
  PROVE  IoInv'
<1> USE Bounds, Chosen DEF IoInv, IoSendCancel, ioInput, streams
<1>1. IoTypeOK'
  BY DEF IoTypeOK, Buf, Freed
<1>2. IoProgress'
  BY DEF IoTypeOK, IoProgress
<1>3. Control'
  BY DEF IoTypeOK, Control, IoProgress
<1>4. IoHeap'
  BY DEF IoTypeOK, Control, IoProgress, IoHeap, OwnBuffer, Freed, Buf
<1>5. Carried'
  <2>1. UNCHANGED <<variant, streams>> /\ (struck => struck')
    BY Zenon
  <2>2. \A s \in IoWorker :
          (Carries(s)' <=> Carries(s)) /\ ((ioPc'[s] = "fwrite") => ioPc[s] = "fwrite")
    BY DEF Carries, IoTypeOK, Control
  <2> QED
    BY <2>1, <2>2, CarriedStays
<1> QED
  BY <1>1, <1>2, <1>3, <1>4, <1>5

\* Main joins the next worker.
LEMMA JoinKeeps ==
  ASSUME IoInv, IoJoin
  PROVE  IoInv'
<1> USE Bounds, Chosen DEF IoInv, IoJoin, ioInput, streams
<1>1. IoTypeOK'
  <2>1. ioN \in 1..IoNTHREADS /\ ioN' = IF ioN = IoNTHREADS THEN 1 ELSE ioN + 1
    BY DEF IoTypeOK
  <2>2. ioN' \in IoWorker
    BY <2>1
  <2> QED
    BY <2>2 DEF IoTypeOK
<1>2. IoProgress'
  <2>1. ioN \in 1..IoNTHREADS /\ \A s \in IoWorker : s < ioN => ioPc[s] = "done"
    BY DEF IoTypeOK, IoProgress
  <2>2. CASE ioN = IoNTHREADS
    <3>1. \A s \in IoWorker : s < ioN \/ s = ioN
      BY <2>1, <2>2
    <3>2. ioMain' = "close" /\ \A s \in IoWorker : ioPc'[s] = "done"
      BY <2>1, <2>2, <3>1
    <3> QED
      BY <3>2 DEF IoProgress
  <2>3. CASE ioN # IoNTHREADS
    <3>1. ioN' = ioN + 1 /\ ioMain' = "join"
      BY <2>3
    <3>2. \A s \in IoWorker : s < ioN + 1 => s < ioN \/ s = ioN
      BY <2>1
    <3> QED
      BY <2>1, <3>1, <3>2 DEF IoProgress
  <2> QED
    BY <2>2, <2>3
<1>3. Control'
  BY DEF IoTypeOK, Control, IoProgress
<1>4. IoHeap'
  BY DEF IoTypeOK, Control, IoProgress, IoHeap, OwnBuffer, Freed, Buf
<1>5. Carried'
  <2>1. UNCHANGED <<variant, streams>> /\ (struck => struck')
    BY Zenon
  <2>2. \A s \in IoWorker :
          (Carries(s)' <=> Carries(s)) /\ ((ioPc'[s] = "fwrite") => ioPc[s] = "fwrite")
    BY DEF Carries, IoTypeOK, Control
  <2> QED
    BY <2>1, <2>2, CarriedStays
<1> QED
  BY <1>1, <1>2, <1>3, <1>4, <1>5

\* Main frees the global buffer of "mtx".
LEMMA CloseKeeps ==
  ASSUME IoInv, IoClose
  PROVE  IoInv'
<1> USE Bounds, Chosen DEF IoInv, IoClose, ioInput, streams
<1>1. IoTypeOK'
  BY DEF IoTypeOK, Buf, Freed
<1>2. IoProgress'
  BY DEF IoTypeOK, IoProgress
<1>3. Control'
  BY DEF IoTypeOK, Control, IoProgress
<1>4. IoHeap'
  BY DEF IoTypeOK, Control, IoProgress, IoHeap, OwnBuffer, Freed, Buf
<1>5. Carried'
  <2>1. UNCHANGED <<variant, streams>> /\ (struck => struck')
    BY Zenon
  <2>2. \A s \in IoWorker :
          (Carries(s)' <=> Carries(s)) /\ ((ioPc'[s] = "fwrite") => ioPc[s] = "fwrite")
    BY DEF Carries, IoTypeOK, Control
  <2> QED
    BY <2>1, <2>2, CarriedStays
<1> QED
  BY <1>1, <1>2, <1>3, <1>4, <1>5

\* A step that changes nothing keeps the invariant.
LEMMA StutterKeeps ==
  ASSUME IoInv, UNCHANGED ioVars
  PROVE  IoInv'
<1> USE Bounds, Chosen DEF IoInv, ioVars, ioInput, streams
<1>1. IoTypeOK'
  BY DEF IoTypeOK, Buf, Freed
<1>2. IoProgress'
  BY DEF IoTypeOK, IoProgress
<1>3. Control'
  BY DEF IoTypeOK, Control, IoProgress
<1>4. IoHeap'
  BY DEF IoTypeOK, Control, IoProgress, IoHeap, OwnBuffer, Freed, Buf
<1>5. Carried'
  <2>1. UNCHANGED <<variant, streams>> /\ (struck => struck')
    BY Zenon
  <2>2. \A s \in IoWorker :
          (Carries(s)' <=> Carries(s)) /\ ((ioPc'[s] = "fwrite") => ioPc[s] = "fwrite")
    BY DEF Carries, IoTypeOK, Control
  <2> QED
    BY <2>1, <2>2, CarriedStays
<1> QED
  BY <1>1, <1>2, <1>3, <1>4, <1>5

\* The invariant of MtIobuf is inductive: main's position tells which workers
\* have ended, a worker's control point the state of its buffer, and who holds
\* which block.
THEOREM Inductive == IoSpec => []IoInv
<1>1. IoInv /\ [IoNext]_ioVars => IoInv'
  <2> SUFFICES ASSUME IoInv, [IoNext]_ioVars PROVE IoInv'
    OBVIOUS
  <2>1. CASE IoMainStep
    BY <2>1, CreateKeeps, SendCancelKeeps, JoinKeeps, CloseKeeps DEF IoMainStep
  <2>2. CASE IoMainDies
    BY <2>2, MainDiesKeeps
  <2>3. ASSUME NEW t \in IoWorker, IoWorkerStep(t) PROVE IoInv'
    BY <2>3, BeginKeeps, LockKeeps, ReadKeeps, WriteKeeps, ExitKeeps, HandlerKeeps,
       FinishKeeps DEF IoWorkerStep
  <2>4. ASSUME NEW t \in IoWorker, Fault(t) \/ IoCancelled(t) PROVE IoInv'
    BY <2>4, DieKeeps, WriteFailsKeeps, CancelledKeeps DEF Fault
  <2>5. CASE UNCHANGED ioVars
    BY <2>5, StutterKeeps
  <2> QED
    BY <2>1, <2>2, <2>3, <2>4, <2>5 DEF IoNext
<1> QED
  BY InitIInv, <1>1, PTL DEF IoSpec

---------------------------------------------------------------------------
(* The safety properties. *)

\* Type correctness of the model of the four IO loops.
THEOREM TypeCorrect == IoSpec => []IoTypeOK
<1>1. IoInv => IoTypeOK
  BY DEF IoInv
<1> QED
  BY Inductive, <1>1, PTL

\* No thread uses a buffer that is not allocated, and none is freed twice, but
\* where a failing fwrite leaves a freed buffer to another thread or handler.
THEOREM MemorySafeHolds == IoSpec => []MemorySafeUnlessFault
<1>1. IoInv => MemorySafeUnlessFault
  <2> SUFFICES ASSUME IoInv, ~ (faulty /\ (variant = "mtx" \/ ioCancel)), IoAlive
               PROVE  /\ \A b \in Buffer : ioHeap[b] # "corrupt"
                      /\ \A t \in IoWorker : ioPc[t] \in {"fread", "fwrite"} => ioHeap[Buf(t)] = "live"
    BY DEF MemorySafeUnlessFault, IoMemorySafe
  <2> USE Bounds, Chosen DEF IoInv, IoTypeOK, Control, IoHeap, OwnBuffer, IoProgress, Buf
  <2>1. CASE variant = "mtx"
    BY <2>1
  <2>2. CASE variant # "mtx"
    <3>1. \A t \in IoWorker : ioHeap[t] # "corrupt"
      BY <2>2
    <3> QED
      BY <2>2, <3>1
  <2> QED
    BY <2>1, <2>2
<1> QED
  BY Inductive, <1>1, PTL

\* The buffer of a thread that has ended, cancelled or not, is not allocated.
THEOREM NoLeakHolds == IoSpec => []NoLeak
<1>1. IoInv => NoLeak
  BY DEF IoInv, IoHeap, OwnBuffer, NoLeak
<1> QED
  BY Inductive, <1>1, PTL

\* A thread with a buffer of its own loses and repeats no block, but for the one
\* that goes with a cancelled thread.
THEOREM OwnBufferHolds == IoSpec => []OwnBufferKeepsBlocks
<1>1. IoInv => OwnBufferKeepsBlocks
  <2> SUFFICES ASSUME IoInv, variant # "mtx" PROVE BlocksKept
    BY DEF OwnBufferKeepsBlocks
  <2>1. IsInjective(ioFile)
    BY DEF IoInv, Carried
  <2> SUFFICES ASSUME ioMain = "done"
               PROVE  /\ ~ struck => ToSet(ioFile) = 1..blocks
                      /\ Cardinality((1..blocks) \ ToSet(ioFile)) <= 1
    BY <2>1 DEF BlocksKept
  <2>2. \A t \in IoWorker : ~ Carries(t)
    BY DEF IoInv, IoProgress, Carries
  <2>3. \A b : b \in ToSet(ioFile) <=> InFile(b)
    BY DEF IoInv, IoTypeOK, ToSet, InFile
  <2>4. PICK x \in 0..blocks : \A b \in 1..blocks : InFile(b) \/ (struck /\ b = x)
    BY <2>2 DEF IoInv, Carried, Held
  <2>5. \A b : InFile(b) => b \in 1..blocks
    BY DEF IoInv, Carried, InFile
  <2>6. ~ struck => ToSet(ioFile) = 1..blocks
    BY <2>3, <2>4, <2>5
  <2>7. Cardinality((1..blocks) \ ToSet(ioFile)) <= 1
    <3>1. (1..blocks) \ ToSet(ioFile) \subseteq {x}
      BY <2>3, <2>4
    <3>2. IsFiniteSet({x}) /\ Cardinality({x}) = 1
      BY FS_Singleton
    <3>3. IsFiniteSet((1..blocks) \ ToSet(ioFile))
          /\ Cardinality((1..blocks) \ ToSet(ioFile)) <= Cardinality({x})
      BY <3>1, <3>2, FS_Subset
    <3> QED
      BY <3>2, <3>3
  <2> QED
    BY <2>6, <2>7
<1> QED
  BY Inductive, <1>1, PTL

---------------------------------------------------------------------------
(* The count of the blocks written. *)

\* The turns made are a finite set.
LEMMA TurnsFinite ==
  /\ IsFiniteSet(IoWorker \X (1..NumIO))
  /\ Cardinality(IoWorker \X (1..NumIO)) = IoNTHREADS * NumIO
  /\ IsFiniteSet(Turns)
<1>1. /\ IsFiniteSet(IoWorker) /\ Cardinality(IoWorker) = IoNTHREADS
      /\ IsFiniteSet(1..NumIO) /\ Cardinality(1..NumIO) = NumIO
  BY Bounds, FS_Interval
<1>2. /\ IsFiniteSet(IoWorker \X (1..NumIO))
      /\ Cardinality(IoWorker \X (1..NumIO)) = IoNTHREADS * NumIO
  BY <1>1, FS_Product
<1>3. Turns \subseteq IoWorker \X (1..NumIO)
  BY DEF Turns
<1> QED
  BY <1>2, <1>3, FS_Subset

\* A turn that ends is one more turn and one more block in the file.
LEMMA WriteCounts ==
  ASSUME IoInv, Counted, NEW t \in IoWorker, Write(t)
  PROVE  Counted'
<1> USE Bounds
<1>1. /\ turn \in [IoWorker -> 0..NumIO] /\ ioFile \in Seq(Nat) /\ content \in [Buffer -> Nat]
      /\ ioPc[t] = "fwrite" /\ turn[t] \in Nat /\ turn[t] < NumIO /\ Buf(t) \in Buffer
      /\ ioPc \in [IoWorker -> {"none", "begin", "lockread", "fread", "lockwrite", "fwrite",
                            "failing", "handler", "finish", "done"}]
  BY DEF IoInv, IoTypeOK, Control, Write, Buf
<1>2. /\ ioFile' = Append(ioFile, content[Buf(t)]) /\ turn' = [turn EXCEPT ![t] = @ + 1]
      /\ struck' = struck
      /\ ioPc' = [ioPc EXCEPT ![t] = IF turn'[t] < NumIO THEN Top ELSE "finish"]
  BY DEF Write
<1>3. turn'[t] = turn[t] + 1 /\ \A u \in IoWorker \ {t} : turn'[u] = turn[u]
  BY <1>1, <1>2
<1>4. Len(ioFile') = Len(ioFile) + 1 /\ Len(ioFile) \in Nat
  BY <1>1, <1>2
<1>5. Turns' = Turns \cup {<<t, turn[t] + 1>>}
  <2>1. ASSUME NEW p \in IoWorker \X (1..NumIO)
        PROVE  p[2] <= turn'[p[1]] <=> (p[2] <= turn[p[1]] \/ p = <<t, turn[t] + 1>>)
    <3>1. p = <<p[1], p[2]>> /\ p[1] \in IoWorker /\ p[2] \in Int /\ turn[p[1]] \in Int
      BY <1>1
    <3>2. CASE p[1] = t
      <4>1. p = <<t, turn[t] + 1>> <=> p[2] = turn[t] + 1
        BY <3>1, <3>2
      <4>2. p[2] <= turn[t] + 1 <=> (p[2] <= turn[t] \/ p[2] = turn[t] + 1)
        BY <1>1, <3>1
      <4> QED
        BY <1>3, <3>2, <4>1, <4>2
    <3>3. CASE p[1] # t
      BY <1>3, <3>1, <3>3
    <3> QED
      BY <3>2, <3>3
  <2>2. <<t, turn[t] + 1>> \in IoWorker \X (1..NumIO)
    BY <1>1
  <2> QED
    BY <2>1, <2>2 DEF Turns
<1>6. <<t, turn[t] + 1>> \notin Turns
  BY <1>1 DEF Turns
<1>7. Cardinality(Turns') = Cardinality(Turns) + 1
  BY <1>5, <1>6, TurnsFinite, FS_AddElement
<1>8. ASSUME NEW u \in IoWorker, ioPc'[u] \in {"finish", "done"}, ~ struck
      PROVE  turn'[u] = NumIO
  <2>1. CASE u = t
    <3>1. ~ (turn'[t] < NumIO)
      BY <1>1, <1>2, <1>8, <2>1 DEF Top
    <3> QED
      BY <1>1, <1>3, <2>1, <3>1
  <2>2. CASE u # t
    BY <1>1, <1>2, <1>3, <1>8, <2>2 DEF Counted
  <2> QED
    BY <2>1, <2>2
<1>9. ~ struck => Len(ioFile) = Cardinality(Turns)
  BY DEF Counted
<1> QED
  BY <1>2, <1>4, <1>7, <1>8, <1>9 DEF Counted

\* Every other step leaves the file and the turns, or is a cancellation.
LEMMA CountKeeps ==
  ASSUME IoInv, Counted, [IoNext]_ioVars
  PROVE  Counted'
<1>1. CASE \E t \in IoWorker : Write(t)
  BY <1>1, WriteCounts
<1>2. CASE \E t \in IoWorker : IoCancelled(t)
  BY <1>2 DEF IoCancelled, Counted
<1>3. ASSUME UNCHANGED <<ioFile, turn, struck>>,
             \A u \in IoWorker : ioPc'[u] \in {"finish", "done"} => ioPc[u] \in {"finish", "done"} \/ struck
      PROVE  Counted'
  BY <1>3 DEF Counted, Turns
<1>4. ioPc \in [IoWorker -> {"none", "begin", "lockread", "fread", "lockwrite", "fwrite",
                         "failing", "handler", "finish", "done"}]
  BY DEF IoInv, IoTypeOK
<1>5. CASE \E t \in IoWorker : Begin(t) \/ IoLock(t) \/ Read(t) \/ Finish(t) \/ WriteFails(t)
  BY <1>3, <1>4, <1>5 DEF Begin, IoLock, Read, Finish, WriteFails, streams, Top
<1>6. CASE \E t \in IoWorker : Exit(t) \/ Die(t)
  BY <1>3, <1>6 DEF Exit, Die, streams
<1>7. CASE \E t \in IoWorker : Handler(t)
  BY <1>3, <1>4, <1>7 DEF Handler, IoInv, Control, streams
<1>8. CASE IoMainDies \/ IoSendCancel \/ IoJoin \/ IoClose \/ UNCHANGED ioVars
  BY <1>3, <1>8 DEF IoMainDies, IoSendCancel, IoJoin, IoClose, ioVars, streams
<1>9. CASE IoCreate
  BY <1>3, <1>4, <1>9 DEF IoCreate, streams
<1> QED
  BY <1>1, <1>2, <1>5, <1>6, <1>7, <1>8, <1>9 DEF IoNext, IoMainStep, IoWorkerStep, Fault

\* Whatever the version and however the turns interleave, as many blocks are
\* written as turns were asked for, if no worker was cancelled.
THEOREM CountKeptHolds == IoSpec => []CountKept
<1>1. IoInit => Counted
  <2> SUFFICES ASSUME IoInit PROVE Counted
    OBVIOUS
  <2>1. Turns = {}
    BY Bounds DEF IoInit, Turns
  <2>2. ioFile = <<>> /\ \A t \in IoWorker : ioPc[t] = "none"
    BY DEF IoInit
  <2> QED
    BY <2>1, <2>2, FS_EmptySet DEF Counted
<1>2. IoInv /\ Counted /\ [IoNext]_ioVars => Counted'
  BY CountKeeps
<1>3. IoInv /\ Counted => CountKept
  <2> SUFFICES ASSUME IoInv, Counted, ioMain = "done", ~ struck
               PROVE  Len(ioFile) = IoNTHREADS * NumIO
    BY DEF CountKept
  <2>1. \A t \in IoWorker : turn[t] = NumIO
    BY DEF IoInv, IoProgress, Counted
  <2>2. Turns = IoWorker \X (1..NumIO)
    BY <2>1, Bounds DEF Turns
  <2> QED
    BY <2>2, TurnsFinite DEF Counted
<1> QED
  BY Inductive, <1>1, <1>2, <1>3, PTL DEF IoSpec

============================================================================
