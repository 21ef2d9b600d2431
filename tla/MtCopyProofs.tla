---------------------------- MODULE MtCopyProofs ----------------------------
(***************************************************************************)
(* Theorems about MtCopy: for every number of threads and every file size. *)
(***************************************************************************)
EXTENDS MtCopy, TLAPS

\* What / and % of the division of the file are.
LEMMA Division ==
  ASSUME NEW d \in Nat \ {0}, NEW x \in Nat
  PROVE  /\ x \div d \in Nat /\ x % d \in 0..(d - 1)
         /\ x = d * (x \div d) + (x % d)
<1>1. x \div d \in Int /\ x % d \in 0..(d - 1)
  OBVIOUS
<1>2. x = d * (x \div d) + (x % d)
  OBVIOUS
<1>3. x \div d >= 0
  BY <1>1, <1>2
<1> QED
  BY <1>1, <1>2, <1>3

\* Multiplication by a natural number is monotonic.
LEMMA Monotonic ==
  ASSUME NEW a \in Nat, NEW b \in Nat, NEW q \in Nat, a <= b
  PROVE  a * q <= b * q /\ a * q \in Nat
<1>1. (b - a) * q >= 0
  BY SMT
<1>2. b * q = a * q + (b - a) * q
  BY SMT
<1> QED
  BY <1>1, <1>2, SMT

\* The segments of two calls do not overlap, and none passes the file's end.
LEMMA Segments ==
  ASSUME MtTypeOK, MtProgress, NEW t \in MtWorker, t < numthrds
  PROVE  /\ Off(t) \in Nat /\ Count(t) \in Nat
         /\ Off(t) + Count(t) <= fsize
         /\ \A u \in MtWorker : u < t => Off(u) + Count(u) <= Off(t)
<1> DEFINE q == fsize \div numthrds
           r == fsize % numthrds
<1>1. /\ numthrds \in Nat \ {0} /\ fsize \in Nat
      /\ t \in Nat /\ \A u \in MtWorker : u \in Nat
  BY MtCopyAssumption DEF MtTypeOK, MtWorker
<1>2. q \in Nat /\ r \in 0..(numthrds - 1) /\ fsize = numthrds * q + r
  BY <1>1, Division
<1> HIDE DEF q, r
<1>3. \A u \in MtWorker :
        /\ Off(u) = u * q + (IF seg[u] = 2 THEN q ELSE 0)
        /\ Count(u) = (IF seg[u] = 2 THEN r ELSE q)
  BY DEF Off, Count, start_offset, len, rem, q, r
<1>4. \A a, b \in Nat : a <= b => a * q <= b * q /\ a * q \in Nat
  BY <1>2, Monotonic
<1>5. \A a \in Nat : (a + 1) * q = a * q + q
  BY <1>2, SMT
<1>6. (t + 1) * q <= numthrds * q /\ t * q \in Nat
  BY <1>1, <1>4
<1>7. (t + 1) * q = t * q + q
  BY <1>1, <1>5
<1>8. seg[t] = 2 => t + 1 = numthrds
  BY <1>1 DEF MtProgress
<1>9. Off(t) \in Nat /\ Count(t) \in Nat
  BY <1>2, <1>3, <1>6
<1>10. Off(t) + Count(t) <= fsize
  <2>1. CASE seg[t] = 2
    BY <2>1, <1>2, <1>3, <1>6, <1>7, <1>8
  <2>2. CASE seg[t] # 2
    <3>1. Off(t) = t * q /\ Count(t) = q
      BY <2>2, <1>2, <1>3, <1>6
    <3>2. (t * q) + q <= fsize
      BY <1>1, <1>2, <1>6, <1>7
    <3> QED
      BY <3>1, <3>2
  <2> QED
    BY <2>1, <2>2
<1>11. ASSUME NEW u \in MtWorker, u < t PROVE Off(u) + Count(u) <= Off(t)
  <2>1. seg[u] # 2
    BY <1>1, <1>11 DEF MtProgress
  <2>2. u \in Nat /\ u + 1 <= t
    BY <1>1, <1>11
  <2>3. (u + 1) * q <= t * q /\ (u + 1) * q = u * q + q /\ u * q \in Nat
    BY <1>1, <1>4, <1>5, <2>2
  <2>4. Off(u) = u * q /\ Count(u) = q
    BY <1>2, <1>3, <2>1, <2>3
  <2>5. t * q <= Off(t)
    BY <1>2, <1>3, <1>6
  <2>6. Off(u) + Count(u) = (u + 1) * q
    BY <2>3, <2>4
  <2>7. Off(u) + Count(u) <= t * q
    BY <2>3, <2>6
  <2> QED
    BY <1>1, <1>2, <1>6, <1>9, <2>3, <2>5, <2>6, <2>7
<1> QED
  BY <1>9, <1>10, <1>11

\* What two workers write never overlaps, and lies within the source's size.
LEMMA DisjointTargets == MtInv => WritersDisjoint
<1> SUFFICES ASSUME MtInv, ~ short, NEW t \in MtWorker, mtPc[t] = "write"
             PROVE  /\ Target(t) \subseteq 0..(fsize - 1)
                    /\ \A u \in MtWorker \ {t} :
                         mtPc[u] = "write" => Target(t) \cap Target(u) = {}
  BY DEF WritersDisjoint
<1>1. MtTypeOK /\ MtProgress /\ WholeSegment
  BY DEF MtInv
<1>2. \A u \in MtWorker : mtPc[u] = "write" =>
        u < numthrds /\ Target(u) = Off(u)..(Off(u) + Count(u) - 1)
  BY <1>1 DEF MtProgress, WholeSegment, Target, Span
<1>3. /\ Off(t) \in Nat /\ Count(t) \in Nat /\ Off(t) + Count(t) <= fsize
      /\ \A u \in MtWorker : u < t => Off(u) + Count(u) <= Off(t)
  BY <1>1, <1>2, Segments
<1>4. fsize \in Nat
  BY MtCopyAssumption DEF MtInv, MtTypeOK
<1>5. Target(t) \subseteq 0..(fsize - 1)
  BY <1>2, <1>3, <1>4
<1>6. ASSUME NEW u \in MtWorker, u # t, mtPc[u] = "write"
      PROVE  Target(t) \cap Target(u) = {}
  <2>1. u < numthrds /\ Target(u) = Off(u)..(Off(u) + Count(u) - 1)
    BY <1>2, <1>6
  <2>2. /\ Off(u) \in Nat /\ Count(u) \in Nat
        /\ t < u => Off(t) + Count(t) <= Off(u)
    BY <1>1, <2>1, Segments
  <2>3. t < u \/ u < t
    BY <1>6, MtCopyAssumption DEF MtWorker
  <2>4. /\ Target(t) = Off(t)..(Off(t) + Count(t) - 1)
        /\ \/ Off(t) + Count(t) <= Off(u)
           \/ Off(u) + Count(u) <= Off(t)
    BY <1>2, <1>3, <2>2, <2>3
  <2> HIDE DEF Target
  <2> QED
    BY <1>3, <2>1, <2>2, <2>4
<1> QED
  BY <1>5, <1>6

\* The division of the file gives natural numbers.
LEMMA CountTyping ==
  ASSUME MtTypeOK, NEW t \in MtWorker
  PROVE  Count(t) \in Nat /\ len \in Nat /\ rem \in Nat /\ numthrds \in Nat
<1>1. numthrds \in Nat \ {0} /\ fsize \in Nat
  BY MtCopyAssumption DEF MtTypeOK
<1>2. len \in Nat /\ rem \in Nat
  BY <1>1, Division DEF len, rem
<1> QED
  BY <1>1, <1>2 DEF Count

\* What a return from __do_mt_copy leaves of the invariant: the worker is at
\* its next call or at its end.
LEMMA Returning ==
  ASSUME MtTypeOK, MtProgress, NEW t \in MtWorker, mtPc[t] \notin {"none", "done"},
         MtReturn(t), UNCHANGED numthrds
  PROVE  /\ mtPc' \in [MtWorker -> {"none", "malloc", "read", "write", "done"}]
         /\ seg' \in [MtWorker -> 1..2]
         /\ mtPc'[t] \in {"malloc", "done"}
         /\ \A u \in MtWorker \ {t} : mtPc'[u] = mtPc[u] /\ seg'[u] = seg[u]
         /\ \A u \in MtWorker : seg'[u] = 2 => u = numthrds - 1
<1> DEFINE again == rem # 0 /\ t = numthrds - 1 /\ seg[t] = 1
<1>1. /\ mtPc' = [mtPc EXCEPT ![t] = IF again THEN "malloc" ELSE "done"]
      /\ seg' = [seg EXCEPT ![t] = IF again THEN 2 ELSE @]
  BY DEF MtReturn
<1>2. again => t = numthrds - 1
  OBVIOUS
<1> HIDE DEF again
<1>3. mtPc'[t] \in {"malloc", "done"} /\ seg'[t] \in {2, seg[t]}
  BY <1>1 DEF MtTypeOK
<1>4. seg'[t] = 2 => t = numthrds - 1
  BY <1>1, <1>2 DEF MtTypeOK, MtProgress
<1>5. \A u \in MtWorker \ {t} : mtPc'[u] = mtPc[u] /\ seg'[u] = seg[u]
  BY <1>1 DEF MtTypeOK
<1>6. /\ mtPc' \in [MtWorker -> {"none", "malloc", "read", "write", "done"}]
      /\ seg' \in [MtWorker -> 1..2]
  BY <1>1, <1>3 DEF MtTypeOK
<1>7. \A u \in MtWorker : seg'[u] = 2 => u = numthrds - 1
  BY <1>4, <1>5 DEF MtProgress
<1> QED
  BY <1>3, <1>5, <1>6, <1>7

\* The parts of the invariant a worker's step cannot break, from what it
\* leaves alone and from the step's effect on its own pc and seg.
LEMMA WorkerFrame ==
  ASSUME MtInv, NEW t \in MtWorker, mtPc[t] \notin {"none", "done"},
         UNCHANGED <<mtInput, mtMain, mtN, param>>,
         mtPc' \in [MtWorker -> {"none", "malloc", "read", "write", "done"}],
         mtPc'[t] # "none",
         \A u \in MtWorker \ {t} : mtPc'[u] = mtPc[u] /\ seg'[u] = seg[u],
         \A u \in MtWorker : seg'[u] = 2 => u = numthrds - 1
  PROVE  MtProgress' /\ ParamAlive'
<1>1. /\ numthrds' = numthrds /\ mtMain' = mtMain /\ mtN' = mtN /\ param' = param
      /\ \A u \in MtWorker : mtPc'[u] = "none" <=> mtPc[u] = "none"
      /\ \A u \in MtWorker : mtPc[u] = "done" => mtPc'[u] = "done"
  BY DEF mtInput
<1>2. ParamAlive'
  BY <1>1 DEF MtInv, ParamAlive
<1>3. MtProgress'
  BY <1>1 DEF MtInv, MtProgress
<1> QED
  BY <1>2, <1>3

\* WholeSegment of the other workers: what t does to its own entries is not
\* theirs.
LEMMA WholeFrame ==
  ASSUME MtInv, NEW t \in MtWorker, UNCHANGED mtInput,
         \A u \in MtWorker \ {t} :
           mtPc'[u] = mtPc[u] /\ seg'[u] = seg[u] /\ tr'[u] = tr[u],
         ~ short => /\ mtPc'[t] = "read" => tr'[t] = 0
                    /\ mtPc'[t] = "write" => tr'[t] = Count(t)'
  PROVE  WholeSegment'
<1>1. short' = short /\ \A u \in MtWorker \ {t} : Count(u)' = Count(u)
  BY DEF mtInput, Count, len, rem
<1>2. SUFFICES ASSUME ~ short, NEW u \in MtWorker
               PROVE  /\ mtPc'[u] = "read" => tr'[u] = 0
                      /\ mtPc'[u] = "write" => tr'[u] = Count(u)'
  BY <1>1 DEF WholeSegment
<1>3. CASE u = t
  BY <1>2, <1>3
<1>4. CASE u # t
  BY <1>1, <1>2, <1>4 DEF MtInv, WholeSegment
<1> QED
  BY <1>3, <1>4

\* A transfer returns a natural number, and all that was asked for unless the
\* files of the run give short transfers.
LEMMA TransferTyping ==
  ASSUME NEW c \in Nat, NEW x \in Transfer(c)
  PROVE  x \in Nat /\ (~ short => x = c)
BY DEF Transfer

\* A step of a worker keeps the invariant.
LEMMA WorkerKeeps ==
  ASSUME MtInv, NEW t \in MtWorker, MtWorkerStep(t)
  PROVE  MtInv'
<1> USE DEF MtInv
<1>1. MtTypeOK /\ MtProgress /\ UNCHANGED <<mtInput, mtMain, mtN, param>>
  BY DEF MtWorkerStep, Malloc, MallocFails, PRead, ReadNothing, PWrite, IOFails
<1>2. /\ numthrds' = numthrds /\ fsize' = fsize /\ short' = short
      /\ mtMain' = mtMain /\ mtN' = mtN /\ param' = param
  BY <1>1 DEF mtInput
<1>3. Count(t) \in Nat
  BY CountTyping
<1>4. /\ Call(t) \in MtWorker \X (1..2)
      /\ mtHeap \cup {Call(t)} \subseteq MtWorker \X (1..2)
      /\ failed \cup {Call(t)} \subseteq MtWorker \X (1..2)
      /\ mtHeap \ {Call(t)} \subseteq MtWorker \X (1..2)
  BY DEF Call, MtTypeOK
<1>5. Off(t) \in Nat
  BY <1>1, Segments
  DEF MtWorkerStep, Malloc, MallocFails, PRead, ReadNothing, PWrite, IOFails, MtProgress
<1>6. failed' \subseteq MtWorker \X (1..2) /\ mtHeap' \subseteq MtWorker \X (1..2)
  BY <1>4
  DEF MtWorkerStep, Malloc, MallocFails, PRead, ReadNothing, PWrite, IOFails, MtTypeOK
<1>7. CASE Malloc(t)
  <2>1. /\ mtPc[t] = "malloc" /\ mtPc' = [mtPc EXCEPT ![t] = "read"] /\ seg' = seg
        /\ tr' = [tr EXCEPT ![t] = 0]
    BY <1>7 DEF Malloc
  <2>2. MtTypeOK'
    BY <1>1, <1>2, <1>6, <1>7 DEF Malloc, MtTypeOK, fileVars
  <2>3. MtProgress' /\ ParamAlive'
    BY <1>1, <2>1, <2>2, WorkerFrame DEF MtTypeOK, MtProgress
  <2>4. WholeSegment'
    BY <1>1, <2>1, <2>2, WholeFrame DEF MtTypeOK
  <2> QED
    BY <2>2, <2>3, <2>4
<1>8. ASSUME mtPc[t] \in {"malloc", "read", "write"}, MtReturn(t),
             tr' = tr, good' = good, tw' \in [MtWorker -> Nat],
             copied' \subseteq Nat, junk' \subseteq Nat
      PROVE  MtInv'
  <2>1. /\ mtPc' \in [MtWorker -> {"none", "malloc", "read", "write", "done"}]
        /\ seg' \in [MtWorker -> 1..2]
        /\ mtPc'[t] \in {"malloc", "done"}
        /\ \A u \in MtWorker \ {t} : mtPc'[u] = mtPc[u] /\ seg'[u] = seg[u]
        /\ \A u \in MtWorker : seg'[u] = 2 => u = numthrds - 1
    BY <1>1, <1>2, <1>8, Returning
  <2>2. MtProgress' /\ ParamAlive'
    BY <1>1, <1>8, <2>1, WorkerFrame
  <2>3. WholeSegment'
    BY <1>1, <1>8, <2>1, WholeFrame
  <2>4. MtTypeOK'
    BY <1>1, <1>2, <1>6, <1>8, <2>1 DEF MtTypeOK
  <2> QED
    BY <2>2, <2>3, <2>4
<1>9. CASE MallocFails(t)
  BY <1>1, <1>8, <1>9 DEF MallocFails, fileVars, MtTypeOK
<1>10. CASE PRead(t)
  <2>1. PICK rd \in Transfer(Count(t)) :
          /\ tr' = [tr EXCEPT ![t] = @ + rd]
          /\ good' = [good EXCEPT ![t] = IF rd > @ THEN rd ELSE @]
          /\ mtPc' = [mtPc EXCEPT ![t] = IF tr[t] + rd < Count(t) THEN @ ELSE "write"]
    BY <1>10 DEF PRead
  <2>2. /\ mtPc[t] = "read" /\ seg' = seg /\ tw' = tw
        /\ copied' = copied /\ junk' = junk
    BY <1>10 DEF PRead, fileVars
  <2>3. rd \in Nat /\ (~ short => rd = Count(t))
    BY <1>3, TransferTyping
  <2>4. tr' \in [MtWorker -> Nat] /\ good' \in [MtWorker -> Nat]
    BY <2>1, <2>3 DEF MtTypeOK
  <2>5. mtPc' \in [MtWorker -> {"none", "malloc", "read", "write", "done"}]
    BY <2>1, <2>2 DEF MtTypeOK
  <2>6. MtTypeOK'
    BY <1>1, <1>2, <1>6, <2>2, <2>4, <2>5 DEF MtTypeOK
  <2>7. mtPc'[t] # "none" /\ \A u \in MtWorker \ {t} : mtPc'[u] = mtPc[u] /\ tr'[u] = tr[u]
    BY <2>1, <2>2 DEF MtTypeOK
  <2>8. MtProgress' /\ ParamAlive'
    BY <1>1, <2>2, <2>5, <2>7, WorkerFrame DEF MtProgress
  <2>9. Count(t)' = Count(t)
    BY <1>2, <2>2 DEF Count, len, rem
  <2>10. ~ short => mtPc'[t] = "write" /\ tr'[t] = Count(t)
    BY <1>3, <2>1, <2>2, <2>3 DEF MtTypeOK, WholeSegment
  <2>11. WholeSegment'
    BY <1>1, <2>2, <2>7, <2>9, <2>10, WholeFrame
  <2> QED
    BY <2>6, <2>8, <2>11
<1>11. CASE ReadNothing(t)
  BY <1>1, <1>8, <1>11 DEF ReadNothing, fileVars, MtTypeOK
<1>12. CASE IOFails(t)
  BY <1>1, <1>8, <1>12 DEF IOFails, fileVars, MtTypeOK
<1>13. CASE PWrite(t)
  <2>1. PICK wr \in Transfer(tr[t]) :
          LET right == Span(Off(t), wr) \cap Span(Off(t), good[t])
              wrong == Span(Off(t), wr) \ right
          IN  /\ copied' = (copied \ wrong) \cup right
              /\ junk' = (junk \ right) \cup wrong
              /\ tw' = [tw EXCEPT ![t] = @ + wr]
              /\ IF tw[t] + wr < tr[t]
                   THEN UNCHANGED <<mtPc, seg, mtHeap>>
                   ELSE MtReturn(t) /\ mtHeap' = mtHeap \ {Call(t)}
    BY <1>13 DEF PWrite
  <2>2. mtPc[t] = "write" /\ tr' = tr /\ good' = good
    BY <1>13 DEF PWrite
  <2>3. wr \in Nat
    BY TransferTyping DEF MtTypeOK
  <2>4. Span(Off(t), wr) \subseteq Nat
    BY <1>5, <2>3 DEF Span
  <2>5. copied' \subseteq Nat /\ junk' \subseteq Nat /\ tw' \in [MtWorker -> Nat]
    <3> DEFINE right == Span(Off(t), wr) \cap Span(Off(t), good[t])
               wrong == Span(Off(t), wr) \ right
    <3>1. right \subseteq Nat /\ wrong \subseteq Nat
      BY <2>4
    <3>2. /\ copied' = (copied \ wrong) \cup right
          /\ junk' = (junk \ right) \cup wrong
          /\ tw' = [tw EXCEPT ![t] = @ + wr]
      BY <2>1
    <3> HIDE DEF right, wrong
    <3>3. copied \subseteq Nat /\ junk \subseteq Nat /\ tw \in [MtWorker -> Nat]
      BY DEF MtTypeOK
    <3>4. copied' \subseteq Nat /\ junk' \subseteq Nat
      BY <3>1, <3>2, <3>3
    <3>5. tw' \in [MtWorker -> Nat]
      BY <2>3, <3>2, <3>3
    <3> QED
      BY <3>4, <3>5
  <2>6. MtReturn(t) \/ UNCHANGED <<mtPc, seg>>
    BY <2>1
  <2>7. CASE MtReturn(t)
    BY <1>8, <2>2, <2>5, <2>7
  <2>8. CASE UNCHANGED <<mtPc, seg>>
    <3>1. MtTypeOK'
      BY <1>1, <1>2, <1>6, <2>2, <2>5, <2>8 DEF MtTypeOK
    <3>2. MtProgress' /\ ParamAlive'
      BY <1>2, <2>8 DEF MtProgress, ParamAlive
    <3>3. \A u \in MtWorker : Count(u)' = Count(u)
      BY <1>2, <2>8 DEF Count, len, rem
    <3>4. WholeSegment'
      BY <1>2, <2>2, <2>8, <3>3 DEF WholeSegment
    <3> QED
      BY <3>1, <3>2, <3>4
  <2> QED
    BY <2>6, <2>7, <2>8
<1> QED
  BY <1>7, <1>9, <1>10, <1>11, <1>12, <1>13 DEF MtWorkerStep

\* The invariant holds at the start.
LEMMA InitIInv ==
  ASSUME MtInit
  PROVE  MtInv
<1>1. numthrds \in Nat /\ numthrds >= 2 /\ \A t \in MtWorker : t \in Nat
  BY MtCopyAssumption DEF MtInit, MtWorker
<1>2. MtTypeOK
  BY <1>1, MtCopyAssumption DEF MtInit, MtTypeOK
<1>3. MtProgress
  BY <1>1 DEF MtInit, MtProgress
<1>4. WholeSegment /\ ParamAlive
  BY DEF MtInit, WholeSegment, ParamAlive
<1> QED
  BY <1>2, <1>3, <1>4 DEF MtInv

\* The invariant of MtCopy is inductive: workers exist in the order main made
\* them, and run on parameters and segments of their own.
THEOREM Inductive == MtSpec => []MtInv
<1>1. MtInit => MtInv
  BY InitIInv
<1>2. MtInv /\ [MtNext]_mtVars => MtInv'
  <2> SUFFICES ASSUME MtInv, [MtNext]_mtVars PROVE MtInv'
    OBVIOUS
  <2>1. /\ MtTypeOK /\ MtProgress /\ WholeSegment /\ ParamAlive
        /\ numthrds \in Nat /\ MAX_THRDS \in Nat /\ numthrds <= MAX_THRDS
        /\ MtWorker = 0..(MAX_THRDS - 1)
    BY MtCopyAssumption DEF MtInv, MtTypeOK, MtWorker
  <2>2. CASE MtCreate
    <3> USE <2>2 DEF MtCreate
    <3>1. /\ mtN \in MtWorker /\ mtN < numthrds /\ mtN + 1 \in Nat
          /\ mtPc' = [mtPc EXCEPT ![mtN] = "malloc"] /\ param' = [param EXCEPT ![mtN] = "live"]
          /\ numthrds' = numthrds /\ fsize' = fsize /\ short' = short
          /\ seg' = seg /\ tr' = tr
      BY <2>1 DEF MtProgress, MtTypeOK, mtInput
    <3>2. MtTypeOK'
      BY <2>1, <3>1 DEF MtTypeOK, fileVars
    <3>3. MtProgress'
      <4>1. \A u \in MtWorker : mtPc'[u] = "none" <=> u >= mtN + 1
        <5>1. \A u \in MtWorker : u \in Int /\ (mtPc[u] = "none" <=> u >= mtN)
          BY <2>1 DEF MtProgress
        <5>2. \A u \in MtWorker : mtPc'[u] = IF u = mtN THEN "malloc" ELSE mtPc[u]
          BY <2>1, <3>1 DEF MtTypeOK
        <5>3. mtN \in Int
          BY <2>1 DEF MtTypeOK
        <5> QED
          BY <5>1, <5>2, <5>3
      <4>2. \/ mtMain' = "join" /\ mtN' = 0 /\ mtN + 1 = numthrds
            \/ mtMain' = "create" /\ mtN' = mtN + 1 /\ mtN + 1 # numthrds
        OBVIOUS
      <4>3. \A u \in MtWorker : mtPc'[u] # "none" => u < numthrds
        BY <2>1, <3>1, <4>1
      <4> QED
        BY <2>1, <3>1, <4>1, <4>2, <4>3 DEF MtProgress
    <3>4. \A u \in MtWorker : Count(u)' = Count(u)
      BY <3>1 DEF Count, len, rem
    <3>5. WholeSegment'
      BY <2>1, <3>1, <3>4 DEF WholeSegment, MtTypeOK
    <3>6. ParamAlive'
      BY <2>1, <3>1 DEF ParamAlive, MtTypeOK
    <3> QED
      BY <3>2, <3>3, <3>5, <3>6 DEF MtInv
  <2>3. CASE MtJoin
    <3> USE <2>3 DEF MtJoin
    <3>1. /\ mtN \in MtWorker /\ mtN < numthrds /\ mtN + 1 \in Nat /\ mtPc[mtN] = "done"
          /\ mtPc' = mtPc /\ param' = [param EXCEPT ![mtN] = "freed"]
          /\ numthrds' = numthrds /\ fsize' = fsize /\ short' = short
          /\ seg' = seg /\ tr' = tr
      BY <2>1 DEF MtProgress, MtTypeOK, mtInput, mtWorkerVars
    <3>2. MtTypeOK'
      BY <2>1, <3>1 DEF MtTypeOK, fileVars, mtWorkerVars
    <3>3. MtProgress'
      BY <2>1, <3>1 DEF MtProgress, MtTypeOK
    <3>4. \A u \in MtWorker : Count(u)' = Count(u)
      BY <3>1 DEF Count, len, rem
    <3>5. WholeSegment'
      BY <2>1, <3>1, <3>4 DEF WholeSegment
    <3>6. ParamAlive'
      BY <2>1, <3>1 DEF ParamAlive, MtTypeOK
    <3> QED
      BY <3>2, <3>3, <3>5, <3>6 DEF MtInv
  <2>4. CASE CreateFails \/ UNCHANGED mtVars
    <3>1. /\ UNCHANGED <<mtInput, mtN, param, mtWorkerVars, fileVars, failed, mtHeap>>
          /\ mtMain' \in {mtMain, "fatal"}
      BY <2>4 DEF CreateFails, mtVars
    <3>2. UNCHANGED <<numthrds, fsize, short, mtN, param, mtPc, seg, tr, tw, good,
                      copied, junk, failed, mtHeap>>
      BY <3>1 DEF mtInput, mtWorkerVars, fileVars
    <3>3. MtTypeOK'
      BY <2>1, <3>1, <3>2 DEF MtTypeOK
    <3>4. MtProgress' /\ ParamAlive'
      BY <2>1, <3>1, <3>2 DEF MtProgress, ParamAlive
    <3>5. \A u \in MtWorker : Count(u)' = Count(u)
      BY <3>2 DEF Count, len, rem
    <3>6. WholeSegment'
      BY <2>1, <3>2, <3>5 DEF WholeSegment
    <3> QED
      BY <3>3, <3>4, <3>6 DEF MtInv
  <2>5. CASE \E t \in MtWorker : MtWorkerStep(t)
    BY <2>5, WorkerKeeps
  <2> QED
    BY <2>2, <2>3, <2>4, <2>5 DEF MtNext
<1> QED
  BY <1>1, <1>2, PTL DEF MtSpec

\* Every variable keeps its type.
THEOREM TypeCorrect == MtSpec => []MtTypeOK
<1>1. MtInv => MtTypeOK
  BY DEF MtInv
<1> QED
  BY <1>1, Inductive, PTL

\* Without short transfers, the writes of two workers never overlap and stay
\* inside the source's size: the copy needs no lock.
THEOREM WritersDisjointHolds == MtSpec => []WritersDisjoint
BY Inductive, DisjointTargets, PTL

\* No worker touches its parameters after main freed them.
THEOREM ParamAliveHolds == MtSpec => []ParamAlive
<1>1. MtInv => ParamAlive
  BY DEF MtInv
<1> QED
  BY <1>1, Inductive, PTL

---------------------------------------------------------------------------
(* What the file holds when main is done, and what becomes of the buffers. *)

\* The offset and the count of a worker are those of the call it is in.
LEMMA CallRegion ==
  ASSUME NEW t \in MtWorker
  PROVE  Begins(Call(t)) = Off(t) /\ Length(Call(t)) = Count(t)
BY DEF Begins, Length, Call, Off, Count

\* The regions of the calls depend on the input alone.
LEMMA RegionsFixed ==
  ASSUME UNCHANGED mtInput
  PROVE  /\ len' = len /\ rem' = rem /\ numthrds' = numthrds
         /\ fsize' = fsize /\ short' = short
         /\ \A c \in MtWorker \X (1..2) : Length(c)' = Length(c) /\ Region(c)' = Region(c)
BY DEF mtInput, len, rem, Length, Region, Begins, start_offset

\* A worker that does not return leaves every call where it was.
LEMMA NotReturning ==
  ASSUME CopyInv, NEW t \in MtWorker, UNCHANGED <<mtInput, mtMain, seg, failed>>,
         mtPc[t] \in {"malloc", "read", "write"}, mtPc'[t] \in {"malloc", "read", "write"},
         \A u \in MtWorker \ {t} : mtPc'[u] = mtPc[u],
         ~ short => UNCHANGED fileVars
  PROVE  /\ \A c \in MtWorker \X (1..2) : Returned(c)' <=> Returned(c)
         /\ Joined' /\ Landed'
<1> USE RegionsFixed DEF CopyInv
<1>1. \A c \in MtWorker \X (1..2) : Returned(c)' <=> Returned(c)
  <2> SUFFICES ASSUME NEW c \in MtWorker \X (1..2)
               PROVE  Returned(c)' <=> Returned(c)
    OBVIOUS
  <2>1. c[1] \in MtWorker /\ seg' = seg
    OBVIOUS
  <2>2. mtPc'[c[1]] = "done" <=> mtPc[c[1]] = "done"
    BY <2>1
  <2> QED
    BY <2>1, <2>2 DEF Returned
<1>2. Joined'
  <2>1. \A u \in MtWorker : mtPc'[u] = "done" <=> mtPc[u] = "done"
    OBVIOUS
  <2> QED
    BY <2>1 DEF Joined
<1>3. Landed'
  <2> SUFFICES ASSUME ~ short
               PROVE  /\ junk' = {} /\ copied' \subseteq 0..(fsize' - 1)
                      /\ \A c \in MtWorker \X (1..2) :
                           (Returned(c)' /\ c \notin failed') => Region(c)' \subseteq copied'
    BY DEF Landed
  <2>1. junk' = junk /\ copied' = copied /\ failed' = failed
    BY DEF fileVars
  <2> QED
    BY <1>1, <2>1 DEF Landed
<1> QED
  BY <1>1, <1>2, <1>3

\* A return makes the call of the worker a returned one, and no other.
LEMMA ReturnOf ==
  ASSUME MtTypeOK, NEW t \in MtWorker, mtPc[t] \in {"malloc", "read", "write"}, MtReturn(t),
         UNCHANGED mtInput
  PROVE  /\ \A c \in MtWorker \X (1..2) : Returned(c)' <=> (Returned(c) \/ c = Call(t))
         /\ (rem # 0 /\ t = numthrds - 1 /\ mtPc'[t] = "done") => seg'[t] = 2
         /\ mtPc'[t] \in {"malloc", "done"}
         /\ \A u \in MtWorker \ {t} : mtPc'[u] = mtPc[u] /\ seg'[u] = seg[u]
<1> DEFINE again == rem # 0 /\ t = numthrds - 1 /\ seg[t] = 1
<1>1. /\ mtPc' = [mtPc EXCEPT ![t] = IF again THEN "malloc" ELSE "done"]
      /\ seg' = [seg EXCEPT ![t] = IF again THEN 2 ELSE @]
  BY DEF MtReturn
<1>2. (again => seg[t] = 1) /\ ((rem # 0 /\ t = numthrds - 1 /\ ~ again) => seg[t] = 2)
  BY DEF MtTypeOK
<1> HIDE DEF again
<1>3. /\ \A u \in MtWorker \ {t} : mtPc'[u] = mtPc[u] /\ seg'[u] = seg[u]
      /\ mtPc'[t] = (IF again THEN "malloc" ELSE "done")
      /\ seg'[t] = (IF again THEN 2 ELSE seg[t])
  BY <1>1 DEF MtTypeOK
<1>4. ASSUME NEW c \in MtWorker \X (1..2)
      PROVE  Returned(c)' <=> (Returned(c) \/ c = Call(t))
  <2>1. c = <<c[1], c[2]>> /\ c[1] \in MtWorker /\ c[2] \in 1..2 /\ seg[t] \in 1..2
    BY DEF MtTypeOK
  <2>2. CASE c[1] = t
    <3>1. c = Call(t) <=> c[2] = seg[t]
      BY <2>1, <2>2 DEF Call
    <3>2. Returned(c) <=> c[2] < seg[t]
      BY <2>2 DEF Returned
    <3>3. Returned(c)' <=> (c[2] < seg'[t] \/ (c[2] = seg'[t] /\ mtPc'[t] = "done"))
      BY <2>2 DEF Returned
    <3>4. CASE again
      BY <1>2, <1>3, <2>1, <3>1, <3>2, <3>3, <3>4
    <3>5. CASE ~ again
      BY <1>3, <2>1, <3>1, <3>2, <3>3, <3>5
    <3> QED
      BY <3>4, <3>5
  <2>3. CASE c[1] # t
    BY <1>3, <2>1, <2>3 DEF Returned, Call
  <2> QED
    BY <2>2, <2>3
<1> QED
  BY <1>2, <1>3, <1>4

\* A return keeps the invariant, if it leaves the bytes of its call in place or
\* its failure on record, and no buffer that holds anything.
LEMMA ReturnKeeps ==
  ASSUME CopyInv, NEW t \in MtWorker, mtPc[t] \in {"malloc", "read", "write"}, MtReturn(t),
         UNCHANGED <<mtInput, mtMain, good>>,
         failed \subseteq failed', mtHeap' \subseteq mtHeap,
         Call(t) \in mtHeap' => Length(Call(t)) = 0,
         ~ short =>
           /\ junk' = {} /\ copied' \subseteq 0..(fsize - 1) /\ copied \subseteq copied'
           /\ Call(t) \notin failed' => Region(Call(t)) \subseteq copied'
  PROVE  (Joined /\ FullBuffer /\ Landed /\ Buffers)'
<1> USE DEF CopyInv
<1>1. /\ MtTypeOK /\ MtProgress /\ UNCHANGED mtInput /\ mtMain' = mtMain /\ good' = good
      /\ seg[t] \in 1..2 /\ t < numthrds /\ Call(t) \in MtWorker \X (1..2)
  BY DEF MtInv, MtProgress, MtTypeOK, Call
<1>2. /\ \A c \in MtWorker \X (1..2) : Returned(c)' <=> (Returned(c) \/ c = Call(t))
      /\ (rem # 0 /\ t = numthrds - 1 /\ mtPc'[t] = "done") => seg'[t] = 2
      /\ mtPc'[t] \in {"malloc", "done"}
      /\ \A u \in MtWorker \ {t} : mtPc'[u] = mtPc[u] /\ seg'[u] = seg[u]
  BY <1>1, ReturnOf
<1>3. /\ len' = len /\ rem' = rem /\ numthrds' = numthrds
      /\ fsize' = fsize /\ short' = short
      /\ \A c \in MtWorker \X (1..2) : Length(c)' = Length(c) /\ Region(c)' = Region(c)
  BY <1>1, RegionsFixed
<1>4. Joined'
  <2>1. mtMain # "done"
    BY <1>1 DEF Joined
  <2>2. ASSUME NEW u \in MtWorker, rem # 0, u = numthrds - 1, mtPc'[u] = "done"
        PROVE  seg'[u] = 2
    BY <1>2, <2>2 DEF Joined
  <2> QED
    BY <1>1, <1>3, <2>1, <2>2 DEF Joined
<1>5. FullBuffer'
  <2> SUFFICES ASSUME ~ short, NEW u \in MtWorker, mtPc'[u] \in {"read", "write"}
               PROVE  /\ mtPc'[u] = "read" => good'[u] = 0
                      /\ mtPc'[u] = "write" => good'[u] = Count(u)'
    BY <1>3 DEF FullBuffer
  <2>1. u # t
    BY <1>2
  <2>2. mtPc'[u] = mtPc[u] /\ Count(u)' = Count(u)
    BY <1>2, <1>3, <2>1 DEF Count
  <2> QED
    BY <1>1, <2>2 DEF FullBuffer
<1>6. Landed'
  <2> SUFFICES ASSUME ~ short
               PROVE  /\ junk' = {} /\ copied' \subseteq 0..(fsize' - 1)
                      /\ \A c \in MtWorker \X (1..2) :
                           (Returned(c)' /\ c \notin failed') => Region(c)' \subseteq copied'
    BY <1>3 DEF Landed
  <2> SUFFICES ASSUME NEW c \in MtWorker \X (1..2), Returned(c)', c \notin failed'
               PROVE  Region(c) \subseteq copied'
    BY <1>3
  <2>1. CASE c = Call(t)
    BY <2>1
  <2>2. CASE c # Call(t)
    BY <1>2, <2>2 DEF Landed
  <2> QED
    BY <2>1, <2>2
<1>7. Buffers'
  <2> SUFFICES ASSUME NEW c \in mtHeap'
               PROVE  InUse(c)' \/ (Returned(c)' /\ Length(c)' = 0)
    BY DEF Buffers
  <2>1. c \in mtHeap /\ c \in MtWorker \X (1..2)
    BY <1>1 DEF MtTypeOK
  <2>2. CASE c = Call(t)
    BY <1>2, <1>3, <2>1, <2>2
  <2>3. CASE c # Call(t)
    <3>1. CASE InUse(c)
      <4>1. c[1] # t
        BY <1>1, <2>1, <2>3, <3>1 DEF InUse, Call
      <4> QED
        BY <1>2, <2>1, <3>1, <4>1 DEF InUse
    <3>2. CASE Returned(c) /\ Length(c) = 0
      BY <1>2, <1>3, <2>1, <3>2
    <3> QED
      BY <2>1, <3>1, <3>2 DEF Buffers
  <2> QED
    BY <2>2, <2>3
<1> QED
  BY <1>4, <1>5, <1>6, <1>7


\* A step of a worker keeps the rest of the invariant.
LEMMA CopyWorkerKeeps ==
  ASSUME CopyInv, NEW t \in MtWorker, MtWorkerStep(t)
  PROVE  (Joined /\ FullBuffer /\ Landed /\ Buffers)'
<1> USE DEF CopyInv
<1>1. MtTypeOK /\ MtProgress /\ WholeSegment /\ UNCHANGED <<mtInput, mtMain>>
  BY DEF MtInv, MtWorkerStep, Malloc, MallocFails, PRead, ReadNothing, PWrite, IOFails
<1>2. /\ mtPc[t] \in {"malloc", "read", "write"}
      /\ Call(t) \in MtWorker \X (1..2) /\ seg[t] \in 1..2 /\ t < numthrds
  BY <1>1 DEF MtTypeOK, Call, MtProgress, MtWorkerStep, Malloc, MallocFails, PRead, ReadNothing,
              PWrite, IOFails
<1>3. /\ Off(t) \in Nat /\ Count(t) \in Nat /\ Off(t) + Count(t) <= fsize
  BY <1>1, <1>2, Segments
<1>4. Begins(Call(t)) = Off(t) /\ Length(Call(t)) = Count(t)
  BY CallRegion
<1>5. /\ len' = len /\ rem' = rem /\ numthrds' = numthrds
      /\ fsize' = fsize /\ short' = short
      /\ \A c \in MtWorker \X (1..2) : Length(c)' = Length(c) /\ Region(c)' = Region(c)
  BY <1>1, RegionsFixed
<1>6. ASSUME seg' = seg PROVE \A u \in MtWorker : Count(u)' = Count(u)
  BY <1>5, <1>6 DEF Count
<1>7. mtHeap \subseteq MtWorker \X (1..2)
  BY <1>1 DEF MtTypeOK
<1>8. CASE Malloc(t)
  <2>1. /\ mtPc' = [mtPc EXCEPT ![t] = "read"] /\ mtPc[t] = "malloc"
        /\ good' = [good EXCEPT ![t] = 0] /\ seg' = seg
        /\ UNCHANGED <<failed, fileVars>> /\ mtHeap' = mtHeap \cup {Call(t)}
    BY <1>8 DEF Malloc
  <2>2. /\ \A u \in MtWorker \ {t} : mtPc'[u] = mtPc[u] /\ good'[u] = good[u]
        /\ mtPc'[t] = "read" /\ good'[t] = 0
    BY <1>1, <2>1 DEF MtTypeOK
  <2>3. /\ \A c \in MtWorker \X (1..2) : Returned(c)' <=> Returned(c)
        /\ Joined' /\ Landed'
    BY <1>1, <1>2, <2>1, <2>2, NotReturning
  <2>4. FullBuffer'
    BY <1>5, <1>6, <2>1, <2>2 DEF FullBuffer
  <2>5. Buffers'
    <3> SUFFICES ASSUME NEW c \in mtHeap'
                 PROVE  InUse(c)' \/ (Returned(c)' /\ Length(c)' = 0)
      BY DEF Buffers
    <3>1. CASE c = Call(t)
      BY <2>1, <2>2, <3>1 DEF InUse, Call
    <3>2. CASE c \in mtHeap
      <4>1. InUse(c) => InUse(c)'
        BY <1>7, <2>1, <2>2, <3>2 DEF InUse
      <4> QED
        BY <1>5, <1>7, <2>3, <3>2, <4>1 DEF Buffers
    <3> QED
      BY <2>1, <3>1, <3>2
  <2> QED
    BY <2>3, <2>4, <2>5
<1>9. CASE MallocFails(t)
  <2>1. /\ mtPc[t] = "malloc" /\ MtReturn(t) /\ failed' = failed \cup {Call(t)}
        /\ UNCHANGED <<good, mtHeap, copied, junk>>
    BY <1>9 DEF MallocFails, fileVars
  <2>2. Call(t) \notin mtHeap
    BY <1>2, <2>1 DEF Buffers, InUse, Returned, Call
  <2>3. ~ short => junk' = {} /\ copied' \subseteq 0..(fsize - 1)
    BY <2>1 DEF Landed
  <2> QED
    BY <1>1, <1>2, <2>1, <2>2, <2>3, ReturnKeeps
<1>10. CASE ReadNothing(t)
  <2>1. /\ mtPc[t] = "read" /\ MtReturn(t) /\ Count(t) = 0
        /\ UNCHANGED <<good, mtHeap, copied, junk, failed>>
    BY <1>10 DEF ReadNothing, fileVars
  <2>2. Region(Call(t)) = {}
    BY <1>3, <1>4, <2>1 DEF Region, Span
  <2>3. ~ short => junk' = {} /\ copied' \subseteq 0..(fsize - 1)
    BY <2>1 DEF Landed
  <2> QED
    BY <1>1, <1>2, <1>4, <2>1, <2>2, <2>3, ReturnKeeps
<1>11. CASE IOFails(t)
  <2>1. /\ mtPc[t] \in {"read", "write"} /\ MtReturn(t) /\ failed' = failed \cup {Call(t)}
        /\ mtHeap' = mtHeap \ {Call(t)} /\ UNCHANGED <<good, copied, junk>>
    BY <1>11 DEF IOFails, fileVars
  <2>2. ~ short => junk' = {} /\ copied' \subseteq 0..(fsize - 1)
    BY <2>1 DEF Landed
  <2> QED
    BY <1>1, <1>2, <2>1, <2>2, ReturnKeeps
<1>12. CASE PRead(t)
  <2>1. PICK rd \in Transfer(Count(t)) :
          /\ good' = [good EXCEPT ![t] = IF rd > @ THEN rd ELSE @]
          /\ mtPc' = [mtPc EXCEPT ![t] = IF tr[t] + rd < Count(t) THEN @ ELSE "write"]
    BY <1>12 DEF PRead
  <2>2. /\ mtPc[t] = "read" /\ Count(t) > 0 /\ seg' = seg
        /\ UNCHANGED <<failed, fileVars, mtHeap>>
    BY <1>12 DEF PRead
  <2>3. /\ \A u \in MtWorker \ {t} : mtPc'[u] = mtPc[u] /\ good'[u] = good[u]
        /\ mtPc'[t] \in {"read", "write"}
        /\ tr[t] + rd >= Count(t) => mtPc'[t] = "write"
        /\ good'[t] = IF rd > good[t] THEN rd ELSE good[t]
    <3>1. tr[t] \in Nat /\ rd \in Nat
      BY <1>1, <1>3, TransferTyping DEF MtTypeOK
    <3> QED
      BY <1>1, <1>3, <2>1, <2>2, <3>1 DEF MtTypeOK
  <2>4. /\ \A c \in MtWorker \X (1..2) : Returned(c)' <=> Returned(c)
        /\ Joined' /\ Landed'
    BY <1>1, <1>2, <2>2, <2>3, NotReturning
  <2>5. ~ short => mtPc'[t] = "write" /\ good'[t] = Count(t)
    <3> SUFFICES ASSUME ~ short PROVE mtPc'[t] = "write" /\ good'[t] = Count(t)
      OBVIOUS
    <3>1. rd = Count(t) /\ tr[t] = 0 /\ good[t] = 0
      BY <1>1, <1>3, <2>2, TransferTyping DEF WholeSegment, FullBuffer
    <3> QED
      BY <1>3, <2>2, <2>3, <3>1
  <2>6. FullBuffer'
    BY <1>5, <1>6, <2>2, <2>3, <2>5 DEF FullBuffer
  <2>7. Buffers'
    <3> SUFFICES ASSUME NEW c \in mtHeap
                 PROVE  InUse(c)' \/ (Returned(c)' /\ Length(c)' = 0)
      BY <2>2 DEF Buffers
    <3>1. InUse(c) => InUse(c)'
      BY <1>7, <2>2, <2>3 DEF InUse
    <3> QED
      BY <1>5, <1>7, <2>4, <3>1 DEF Buffers
  <2> QED
    BY <2>4, <2>6, <2>7
<1>13. CASE PWrite(t)
  <2>1. PICK wr \in Transfer(tr[t]) :
          LET right == Span(Off(t), wr) \cap Span(Off(t), good[t])
              wrong == Span(Off(t), wr) \ right
          IN  /\ copied' = (copied \ wrong) \cup right
              /\ junk' = (junk \ right) \cup wrong
              /\ IF tw[t] + wr < tr[t]
                   THEN UNCHANGED <<mtPc, seg, mtHeap>>
                   ELSE MtReturn(t) /\ mtHeap' = mtHeap \ {Call(t)}
    BY <1>13 DEF PWrite
  <2>2. /\ mtPc[t] = "write" /\ UNCHANGED <<good, failed>>
        /\ tw[t] \in Nat /\ tr[t] \in Nat /\ wr \in Nat
    BY <1>1, <1>13, TransferTyping DEF PWrite, MtTypeOK
  <2>3. ASSUME ~ short
        PROVE  /\ ~ (tw[t] + wr < tr[t])
               /\ junk' = {} /\ copied' = copied \cup Region(Call(t))
               /\ copied' \subseteq 0..(fsize - 1)
    <3>1. wr = Count(t) /\ tr[t] = Count(t) /\ good[t] = Count(t)
      BY <1>1, <2>2, <2>3, TransferTyping DEF WholeSegment, FullBuffer
    <3>2. Span(Off(t), wr) = Region(Call(t)) /\ Span(Off(t), good[t]) = Region(Call(t))
      BY <1>4, <3>1 DEF Region
    <3>3. /\ copied' = (copied \ (Region(Call(t)) \ Region(Call(t)))) \cup Region(Call(t))
          /\ junk' = (junk \ Region(Call(t))) \cup (Region(Call(t)) \ Region(Call(t)))
      BY <2>1, <3>2
    <3>4. junk = {} /\ copied \subseteq 0..(fsize - 1)
      BY <2>3 DEF Landed
    <3>5. Region(Call(t)) \subseteq 0..(fsize - 1)
      <4>1. fsize \in Nat
        BY <1>1, MtCopyAssumption DEF MtTypeOK
      <4> QED
        BY <1>3, <1>4, <4>1 DEF Region, Span
    <3>6. ~ (tw[t] + wr < tr[t])
      BY <2>2, <3>1
    <3>7. junk' = {} /\ copied' = copied \cup Region(Call(t))
      BY <3>3, <3>4
    <3>8. copied' \subseteq 0..(fsize - 1)
      BY <3>4, <3>5, <3>7, Zenon
    <3> QED
      BY <3>6, <3>7, <3>8
  <2>4. CASE tw[t] + wr < tr[t]
    <3>1. short /\ UNCHANGED <<mtPc, seg, mtHeap>>
      BY <2>1, <2>3, <2>4
    <3>2. /\ \A c \in MtWorker \X (1..2) : Returned(c)' <=> Returned(c)
          /\ Joined' /\ Landed'
      BY <1>1, <1>2, <2>2, <3>1, NotReturning
    <3>3. FullBuffer'
      BY <1>5, <3>1 DEF FullBuffer
    <3>4. Buffers'
      BY <1>5, <1>7, <3>1, <3>2 DEF Buffers, InUse
    <3> QED
      BY <3>2, <3>3, <3>4
  <2>5. CASE ~ (tw[t] + wr < tr[t])
    <3>1. MtReturn(t) /\ mtHeap' = mtHeap \ {Call(t)}
      BY <2>1, <2>5
    <3> QED
      BY <1>1, <1>2, <2>2, <2>3, <3>1, ReturnKeeps
  <2> QED
    BY <2>4, <2>5
<1> QED
  BY <1>8, <1>9, <1>10, <1>11, <1>12, <1>13 DEF MtWorkerStep

\* A step of main, or none, keeps the rest of the invariant.
LEMMA CopyMainKeeps ==
  ASSUME CopyInv,
         MtCreate \/ CreateFails \/ MtJoin \/ UNCHANGED mtVars
  PROVE  (Joined /\ FullBuffer /\ Landed /\ Buffers)'
<1> USE DEF CopyInv
<1>1. /\ MtTypeOK /\ MtProgress
      /\ UNCHANGED <<mtInput, seg, tr, tw, good, failed, mtHeap, copied, junk>>
  BY DEF MtInv, MtCreate, CreateFails, MtJoin, mtVars, mtWorkerVars, fileVars
<1>2. /\ len' = len /\ rem' = rem /\ numthrds' = numthrds
      /\ fsize' = fsize /\ short' = short
      /\ \A c \in MtWorker \X (1..2) : Length(c)' = Length(c) /\ Region(c)' = Region(c)
  BY <1>1, RegionsFixed
<1>3. \A u \in MtWorker : Count(u)' = Count(u)
  BY <1>1, <1>2 DEF Count
<1>4. \A u \in MtWorker : mtPc'[u] # mtPc[u] => mtPc'[u] = "malloc" /\ mtPc[u] = "none"
  <2>1. CASE MtCreate
    <3>1. mtN \in MtWorker /\ mtPc' = [mtPc EXCEPT ![mtN] = "malloc"] /\ mtPc[mtN] = "none"
      BY <1>1, <2>1, MtCopyAssumption DEF MtCreate, MtProgress, MtTypeOK, MtWorker
    <3> QED
      BY <1>1, <3>1 DEF MtTypeOK
  <2>2. CASE CreateFails \/ MtJoin \/ UNCHANGED mtVars
    BY <2>2 DEF CreateFails, MtJoin, mtVars, mtWorkerVars
  <2> QED
    BY <2>1, <2>2
<1>5. \A c \in MtWorker \X (1..2) : Returned(c)' <=> Returned(c)
  <2> SUFFICES ASSUME NEW c \in MtWorker \X (1..2)
               PROVE  Returned(c)' <=> Returned(c)
    OBVIOUS
  <2>1. c[1] \in MtWorker /\ seg' = seg
    BY <1>1
  <2>2. mtPc'[c[1]] = "done" <=> mtPc[c[1]] = "done"
    BY <1>4, <2>1
  <2> QED
    BY <2>1, <2>2 DEF Returned
<1>6. Joined'
  <2>1. ASSUME mtMain' = "done", NEW u \in MtWorker, u < numthrds
        PROVE  mtPc'[u] = "done"
    <3>1. CASE mtMain = "done"
      BY <1>4, <2>1, <3>1 DEF Joined
    <3>2. CASE mtMain # "done"
      <4>1. /\ mtMain = "join" /\ mtN + 1 = numthrds /\ mtPc[mtN] = "done" /\ mtPc' = mtPc
        BY <2>1, <3>2 DEF MtCreate, CreateFails, MtJoin, mtVars, mtWorkerVars
      <4>2. u \in Int /\ mtN \in Int /\ numthrds \in Int
        BY <1>1, MtCopyAssumption DEF MtWorker, MtTypeOK
      <4>3. u = mtN \/ u < mtN
        BY <2>1, <4>1, <4>2
      <4> QED
        BY <1>1, <4>1, <4>3 DEF MtProgress
    <3> QED
      BY <3>1, <3>2
  <2>2. ASSUME rem # 0, NEW u \in MtWorker, u = numthrds - 1, mtPc'[u] = "done"
        PROVE  seg'[u] = 2
    BY <1>1, <1>4, <2>2 DEF Joined
  <2> QED
    BY <1>2, <2>1, <2>2 DEF Joined
<1>7. FullBuffer'
  BY <1>1, <1>2, <1>3, <1>4 DEF FullBuffer
<1>8. Landed'
  BY <1>1, <1>2, <1>5 DEF Landed
<1>9. Buffers'
  <2> SUFFICES ASSUME NEW c \in mtHeap
               PROVE  InUse(c)' \/ (Returned(c)' /\ Length(c)' = 0)
    BY <1>1 DEF Buffers
  <2>1. c \in MtWorker \X (1..2) /\ c[1] \in MtWorker
    BY <1>1 DEF MtTypeOK
  <2>2. InUse(c) => InUse(c)'
    BY <1>1, <1>4, <2>1 DEF InUse
  <2> QED
    BY <1>2, <1>5, <2>1, <2>2 DEF Buffers
<1> QED
  BY <1>6, <1>7, <1>8, <1>9

\* What has returned without an error is in the file, at its own place, and
\* what has returned at all holds no buffer but an empty one: inductively.
THEOREM CopyInductive == MtSpec => []CopyInv
<1>1. MtInit => CopyInv
  <2> SUFFICES ASSUME MtInit PROVE CopyInv
    OBVIOUS
  <2>1. MtInv
    BY InitIInv
  <2>2. Joined /\ FullBuffer /\ Buffers
    BY DEF MtInit, Joined, FullBuffer, Buffers
  <2>3. Landed
    <3>1. \A c \in MtWorker \X (1..2) : ~ Returned(c)
      BY DEF MtInit, Returned
    <3> QED
      BY <3>1 DEF MtInit, Landed
  <2> QED
    BY <2>1, <2>2, <2>3 DEF CopyInv
<1>2. CopyInv /\ MtInv' /\ [MtNext]_mtVars => CopyInv'
  BY CopyMainKeeps, CopyWorkerKeeps DEF MtNext, CopyInv
<1> QED
  BY <1>1, <1>2, Inductive, PTL DEF MtSpec

\* A byte of the source belongs to the region of the call answerable for it,
\* a call that the division of the file makes.
LEMMA CallOfByte ==
  ASSUME MtTypeOK, NEW p \in 0..(fsize - 1)
  PROVE  /\ CallOf(p) \in MtWorker \X (1..2) /\ CallOf(p)[1] < numthrds
         /\ CallOf(p)[2] = 2 => rem # 0 /\ CallOf(p)[1] = numthrds - 1
         /\ p \in Region(CallOf(p))
<1>1. /\ numthrds \in Nat \ {0} /\ fsize \in Nat /\ p \in Nat /\ p < fsize
      /\ MAX_THRDS \in Nat /\ numthrds <= MAX_THRDS
  BY MtCopyAssumption DEF MtTypeOK
<1>2. len \in Nat /\ rem \in 0..(numthrds - 1) /\ fsize = numthrds * len + rem
  BY <1>1, Division DEF len, rem
<1>3. numthrds * len \in Nat
  BY <1>1, <1>2, SMT
<1>4. CASE p < numthrds * len
  <2> DEFINE t == p \div len
  <2>1. CallOf(p) = <<t, 1>>
    BY <1>4 DEF CallOf
  <2>2. len \in Nat \ {0}
    BY <1>1, <1>2, <1>4, SMT
  <2>3. t \in Nat /\ p % len \in 0..(len - 1) /\ p = len * t + (p % len)
    BY <1>1, <2>2, Division
  <2> HIDE DEF t
  <2>4. t < numthrds
    <3>1. ASSUME t >= numthrds PROVE FALSE
      <4>1. numthrds * len <= t * len
        BY <1>1, <1>2, <2>3, <3>1, Monotonic
      <4> QED
        BY <1>1, <1>2, <1>3, <1>4, <2>3, <4>1, SMT
    <3> QED
      BY <1>1, <2>3, <3>1
  <2>5. Region(<<t, 1>>) = Span(t * len, len)
    <3>1. t * len \in Nat
      BY <1>2, <2>3, SMT
    <3> QED
      BY <3>1 DEF Region, Begins, Length, start_offset
  <2>6. p \in Span(t * len, len)
    <3>1. t * len \in Nat /\ t * len = len * t
      BY <1>2, <2>3, SMT
    <3> QED
      BY <1>1, <1>2, <2>3, <3>1 DEF Span
  <2> QED
    BY <1>1, <2>1, <2>3, <2>4, <2>5, <2>6 DEF MtWorker
<1>5. CASE ~ (p < numthrds * len)
  <2>1. CallOf(p) = <<numthrds - 1, 2>>
    BY <1>5 DEF CallOf
  <2>2. rem # 0 /\ p <= numthrds * len + rem - 1 /\ p >= numthrds * len
    BY <1>1, <1>2, <1>3, <1>5
  <2>3. (numthrds - 1) * len + len = numthrds * len
    BY <1>1, <1>2, SMT
  <2>4. Region(<<numthrds - 1, 2>>) = Span(numthrds * len, rem)
    BY <2>3 DEF Region, Begins, Length, start_offset
  <2>5. p \in Span(numthrds * len, rem)
    BY <1>1, <1>2, <1>3, <2>2 DEF Span
  <2> QED
    BY <1>1, <2>1, <2>2, <2>4, <2>5 DEF MtWorker
<1> QED
  BY <1>4, <1>5

\* When the process exits, a file of any size copied by any number of threads
\* holds every byte whose own call did not fail, and nothing else: a failure
\* costs its own segment only.
THEOREM FailureIsLocalHolds == MtSpec => []FailureIsLocal
<1>1. CopyInv => FailureIsLocal
  <2> SUFFICES ASSUME CopyInv, mtMain = "done", ~ short
               PROVE  /\ junk = {}
                      /\ copied \subseteq 0..(fsize - 1)
                      /\ \A p \in 0..(fsize - 1) : CallOf(p) \notin failed => p \in copied
    BY DEF FailureIsLocal
  <2>1. MtTypeOK /\ Joined /\ Landed
    BY DEF CopyInv, MtInv
  <2>2. ASSUME NEW p \in 0..(fsize - 1), CallOf(p) \notin failed
        PROVE  p \in copied
    <3> DEFINE c == CallOf(p)
    <3>1. /\ c \in MtWorker \X (1..2) /\ c[1] < numthrds
          /\ c[2] = 2 => rem # 0 /\ c[1] = numthrds - 1
          /\ p \in Region(c)
      BY <2>1, CallOfByte
    <3> HIDE DEF c
    <3>2. mtPc[c[1]] = "done" /\ seg[c[1]] \in 1..2
      BY <2>1, <3>1 DEF Joined, MtTypeOK
    <3>3. c[2] = 2 => seg[c[1]] = 2
      BY <2>1, <3>1, <3>2 DEF Joined
    <3>4. Returned(c)
      BY <3>1, <3>2, <3>3 DEF Returned
    <3>5. c \notin failed
      BY <2>2 DEF c
    <3> QED
      BY <2>1, <3>1, <3>4, <3>5 DEF Landed
  <2> QED
    BY <2>1, <2>2 DEF Landed
<1> QED
  BY <1>1, CopyInductive, PTL

\* No call returns with its buffer allocated, whichever transfers are short or
\* fail, but one of an empty segment.
THEOREM BufferFreedHolds == MtSpec => []BufferFreed
<1>1. CopyInv => BufferFreed
  <2> SUFFICES ASSUME CopyInv, NEW c \in mtHeap,
                      mtPc[c[1]] = "done" \/ c[2] < seg[c[1]]
               PROVE  Length(c) = 0
    BY DEF BufferFreed, Length
  <2>1. c[1] \in MtWorker /\ c[2] \in 1..2 /\ seg[c[1]] \in 1..2
    BY DEF CopyInv, MtInv, MtTypeOK
  <2>2. ~ InUse(c)
    BY <2>1 DEF InUse
  <2> QED
    BY <2>2 DEF CopyInv, Buffers
<1> QED
  BY <1>1, CopyInductive, PTL
=============================================================================
