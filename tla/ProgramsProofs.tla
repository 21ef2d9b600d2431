---------------------------- MODULE ProgramsProofs ----------------------------
(***************************************************************************)
(* What the stand-alone programs keep, for every value of their constants: *)
(* first that a run of MCPrograms is a run of each of the programs it is   *)
(* composed of, then the invariants of the programs that copy files and of *)
(* those that start threads, and last the invariants of the composition.   *)
(***************************************************************************)
EXTENDS MCPrograms, ProcessProofs, SignalProofs, WellFoundedInduction

---------------------------------------------------------------------------
(* The composition. *)

\* A program that is not chosen stays where it is.
LEMMA OnlyOneSteps ==
  ASSUME [Next]_vars
  PROVE  /\ [CpNext]_cpVars /\ [ShNext]_shVars /\ [OfNext]_ofVars /\ [DmNext]_dmVars
         /\ [SgNext]_sgVars /\ [PvNext]_pvVars /\ [ReNext]_reVars /\ [TmNext]_tmVars
         /\ [ScNext]_scVars /\ [SiNext]_siVars /\ [FhNext]_fhVars /\ [StNext]_stVars
         /\ [TlNext]_tlVars /\ [PsNext]_psVars /\ [LdNext]_ldVars /\ [SdNext]_sdVars
  BY DEF Next, Only, vars

\* A run of the composition is a run of each program.
THEOREM EachProgramRuns ==
  Spec => /\ CpSpec /\ ShSpec /\ OfSpec /\ DmSpec /\ SgSpec /\ PvSpec /\ ReSpec
          /\ TmInit /\ [][TmNext]_tmVars
          /\ ScSpec /\ SiSpec /\ FhSpec /\ StInit /\ [][StNext]_stVars
          /\ TlSpec /\ PsSpec /\ LdSpec /\ SdSpec
<1>1. Init => /\ CpInit /\ ShInit /\ OfInit /\ DmInit /\ SgInit /\ PvInit /\ ReInit
              /\ TmInit /\ ScInit /\ SiInit /\ FhInit /\ StInit /\ TlInit /\ PsInit
              /\ LdInit /\ SdInit
  BY DEF Init
<1> QED
  BY <1>1, OnlyOneSteps, PTL
     DEF Spec, CpSpec, ShSpec, OfSpec, DmSpec, SgSpec, PvSpec, ReSpec, ScSpec,
         SiSpec, FhSpec, TlSpec, PsSpec, LdSpec, SdSpec

---------------------------------------------------------------------------
(* ThreadLife *)

\* How the programs hand out their parameters and what they do with them.
LEMMA TlProgramFacts ==
  ASSUME tlProg \in TlPrograms
  PROVE  /\ tlProg.param \in {"value", "own", "shared", "index"}
         /\ tlProg.join \in {"none", "wait", "timed"}
         /\ tlProg.param = "own" => tlProg.frees = "joined" /\ tlProg.join # "none"
         /\ tlProg.param = "shared" => tlProg.frees = "end" /\ tlProg.join = "wait"
         /\ tlProg.param \in {"value", "index"} => tlProg.frees = "none"
         /\ tlProg.param = "index" => tlProg.join = "none"
BY DEF TlPrograms, Pthreads1, Pthreads2, Pthreads3, Pthreads1Wrong, Joiner1, Joiner2,
       StructAsParam, Joiner3, MtPrimes1, JoinerBuggy3, Joiner4

\* The numbers of the threads.
LEMMA WorkerFacts ==
  /\ TlThreads \in Nat /\ 0 \in Worker /\ 0 \in 0..TlThreads
  /\ \A w \in Worker : /\ w \in Nat /\ w < TlThreads /\ w \in 0..TlThreads
                       /\ w \in w..TlThreads /\ w \in 0..Unread /\ w # Unread
                       /\ w + 1 \in 0..TlThreads /\ w # TlThreads
  /\ \A n \in 0..TlThreads : /\ n < TlThreads => n \in Worker
                             /\ n \in Nat /\ n # Unread
                             /\ \A w \in Worker : w <= n => n \in w..TlThreads
  /\ \A w \in Worker : \A n \in w..TlThreads : n \in 0..Unread /\ n # Unread
  /\ Unread \in 0..Unread
BY TlAssumption DEF Worker, Unread

\* A place of an array is assigned.
LEMMA Assigned ==
  ASSUME NEW D, NEW S, NEW f \in [D -> S], NEW d \in D, NEW x \in S
  PROVE  /\ [f EXCEPT ![d] = x] \in [D -> S] /\ [f EXCEPT ![d] = x][d] = x
         /\ \A e \in D : e # d => [f EXCEPT ![d] = x][e] = f[e]
OBVIOUS

\* main starts a thread, with a parameter that is its own or the shared one.
LEMMA CreateThreadKeeps ==
  ASSUME TlInv, CreateThread
  PROVE  TlInv'
<1>1. /\ tlMain = "create" /\ tlMain' = "next" /\ tl_i < TlThreads
      /\ thread' = [thread EXCEPT ![tl_i] = "created"]
      /\ UNCHANGED <<tlProg, cancels, tl_i, requested, got, status>>
  BY DEF CreateThread
<1>2. /\ tlProg \in TlPrograms /\ tl_i \in 0..TlThreads /\ passthis \in Worker \cup {Unread}
      /\ thread \in [Worker -> {"none", "created", "critical", "work", "ended"}]
      /\ block \in [Worker -> {"none", "live", "freed"}]
  BY DEF TlInv, TlTypeOK
<1>3. tl_i \in Worker /\ tl_i \in Nat /\ 0 \in Worker
  BY <1>1, <1>2, WorkerFacts
<1>4. \A w \in Worker : /\ block[w] # "freed"
                        /\ thread[w] # "none" => w < tl_i
  BY <1>1 DEF TlInv, TlBlocks, TlStarted
<1>5. /\ thread' \in [Worker -> {"none", "created", "critical", "work", "ended"}]
      /\ thread'[tl_i] = "created"
      /\ \A w \in Worker : w # tl_i => thread'[w] = thread[w]
  BY <1>1, <1>2, <1>3
<1>6. thread[tl_i] = "none" /\ got[tl_i] = Unread
  BY <1>3, <1>4 DEF TlInv, TlStarted
<1>7. /\ tlProg.param = "own" => block' = [block EXCEPT ![tl_i] = "live"]
      /\ tlProg.param = "shared" => block' = [block EXCEPT ![0] = "live"]
      /\ tlProg.param \in {"value", "index"} => block' = block
      /\ tlProg.param = "shared" => passthis' = tl_i
      /\ tlProg.param # "shared" => passthis' = passthis
  BY DEF CreateThread
<1>8. /\ block' \in [Worker -> {"none", "live", "freed"}]
      /\ \A w \in Worker : block'[w] # "freed"
      /\ \A w \in Worker : block'[w] # "none" =>
           tlProg.param = "own" \/ (tlProg.param = "shared" /\ w = 0)
  BY <1>2, <1>3, <1>4, <1>7, TlProgramFacts DEF TlInv, TlBlocks
<1>9. passthis' \in Worker \cup {Unread}
  BY <1>2, <1>3, <1>7
<1>10. TlTypeOK'
  BY <1>1, <1>5, <1>8, <1>9 DEF TlInv, TlTypeOK
<1>11. TlStarted'
  <2> SUFFICES ASSUME NEW w \in Worker
               PROVE  /\ thread'[w] # "none" => w <= tl_i
                      /\ thread'[w] \in {"none", "created"} => got[w] = Unread
                      /\ thread'[w] # "none" =>
                           /\ tlProg.param = "index" => w <= tl_i
                           /\ tlProg.param = "shared" =>
                                passthis' \in Worker /\ w <= passthis'
    BY <1>1, <1>3 DEF TlStarted
  <2>1. w \in Nat
    BY WorkerFacts
  <2>2. thread'[w] # "none" => w <= tl_i
    BY <1>3, <1>4, <1>5, <2>1
  <2> QED
    BY <1>3, <1>5, <1>6, <1>7, <2>2 DEF TlInv, TlStarted
<1>12. TlCancels' /\ TlBlocks'
  BY <1>1, <1>8 DEF TlInv, TlCancels, TlBlocks
<1>13. ParamsOutlive'
  BY <1>1, <1>3, <1>8 DEF TlInv, ParamsOutlive, Param
<1> QED
  BY <1>10, <1>11, <1>12, <1>13 DEF TlInv

\* main waits for a thread, or no longer, and frees its block if it has ended.
LEMMA JoinKeeps ==
  ASSUME TlInv, Join \/ JoinTimesOut
  PROVE  TlInv'
<1>1. /\ tlMain = "join" /\ tl_i < TlThreads /\ tl_i' = tl_i + 1
      /\ UNCHANGED <<tlProg, cancels, tlMain, passthis, requested, thread, got, status>>
  BY DEF Join, JoinTimesOut, tlWorker
<1>2. /\ tlProg \in TlPrograms /\ tl_i \in 0..TlThreads
      /\ block \in [Worker -> {"none", "live", "freed"}]
  BY DEF TlInv, TlTypeOK
<1>3. tl_i \in Worker /\ tl_i \in Nat /\ tl_i + 1 \in 0..TlThreads
  BY <1>1, <1>2, WorkerFacts
<1>4. \/ thread[tl_i] = "ended" /\ block' = Freed(tl_i)
      \/ tlProg.join = "timed" /\ block' = block
  BY DEF Join, JoinTimesOut
<1>5. /\ block' \in [Worker -> {"none", "live", "freed"}]
      /\ \A w \in Worker : w # tl_i => block'[w] = block[w]
      /\ block'[tl_i] # block[tl_i] =>
           block'[tl_i] = "freed" /\ thread[tl_i] = "ended" /\ tlProg.param = "own"
      /\ tlProg.join = "wait" =>
           thread[tl_i] = "ended" /\ (tlProg.param = "own" => block'[tl_i] = "freed")
  BY <1>2, <1>3, <1>4, TlProgramFacts DEF Freed
<1>6. TlTypeOK'
  BY <1>1, <1>3, <1>5 DEF TlInv, TlTypeOK
<1>7. TlStarted' /\ TlCancels'
  <2>1. ASSUME NEW w \in Worker, w <= tl_i PROVE w <= tl_i + 1
    BY <1>3, <2>1, WorkerFacts
  <2> QED
    BY <1>1, <2>1 DEF TlInv, TlStarted, TlCancels
<1>8. TlBlocks'
  <2>1. ASSUME NEW w \in Worker, w < tl_i + 1 PROVE w = tl_i \/ w < tl_i
    BY <1>3, <2>1, WorkerFacts
  <2> QED
    BY <1>1, <1>5, <2>1 DEF TlInv, TlBlocks
<1>9. ParamsOutlive'
  <2>1. \A w \in Worker : thread[w] \in {"created", "critical", "work"} => Param(w)' # "freed"
    <3> TAKE w \in Worker
    <3>1. CASE tlProg.param = "shared"
      BY <1>1, <1>3, <1>5, <3>1, WorkerFacts DEF TlInv, ParamsOutlive, Param
    <3>2. CASE tlProg.param # "shared"
      BY <1>1, <1>3, <1>5, <3>2 DEF TlInv, ParamsOutlive, Param
    <3> QED
      BY <3>1, <3>2
  <2> QED
    BY <1>1, <2>1 DEF TlInv, ParamsOutlive
<1> QED
  BY <1>6, <1>7, <1>8, <1>9 DEF TlInv

\* main counts on, gives up, or ends, without touching a thread or a block.
LEMMA TlMainKeeps ==
  ASSUME TlInv, NextIndex \/ CreateThreadFails \/ MainEnds
  PROVE  TlInv'
<1>1. /\ UNCHANGED <<tlProg, cancels, block, passthis, requested, thread, got, status>>
      /\ \/ tlMain = "next" /\ tlMain' = "create" /\ tl_i' = tl_i + 1
         \/ tlMain = "create" /\ tl_i < TlThreads /\ tlMain' = "exit" /\ tl_i' = tl_i
         \/ tlMain = "end" /\ tlMain' = "exit" /\ tl_i' = tl_i
  BY DEF NextIndex, CreateThreadFails, MainEnds, tlWorker
<1>2. tl_i \in 0..TlThreads /\ tl_i \in Nat /\ TlThreads \in Nat
  BY WorkerFacts DEF TlInv, TlTypeOK
<1>3. tlMain = "next" => tl_i \in Worker /\ tl_i + 1 \in 0..TlThreads
  BY WorkerFacts DEF TlInv, TlStarted
<1>4. \A w \in Worker : w \in Nat /\ (w <= tl_i => w < tl_i + 1 /\ w <= tl_i + 1)
  BY <1>2, WorkerFacts
<1>5. TlTypeOK'
  BY <1>1, <1>2, <1>3 DEF TlInv, TlTypeOK
<1>6. TlStarted'
  BY <1>1, <1>4 DEF TlInv, TlStarted
<1>7. TlCancels' /\ TlBlocks'
  BY <1>1 DEF TlInv, TlCancels, TlBlocks
<1>8. ParamsOutlive'
  <2>1. \A w \in Worker : Param(w)' = Param(w)
    BY <1>1 DEF Param
  <2>2. tl_i < TlThreads => tl_i # TlThreads
    BY <1>2
  <2>3. (tlMain' = "exit" /\ tlProg.join = "wait" /\ tl_i' = TlThreads) =>
           \A w \in Worker : block[w] # "live"
    BY <1>1, <2>2 DEF TlInv, TlBlocks
  <2> QED
    BY <1>1, <2>1, <2>3 DEF TlInv, ParamsOutlive, TlCancels
<1> QED
  BY <1>5, <1>6, <1>7, <1>8 DEF TlInv

\* main has started the threads: it waits for them or ends.
LEMMA AllCreatedKeeps ==
  ASSUME TlInv, AllThreadsCreated
  PROVE  TlInv'
<1>1. /\ tlMain = "create" /\ tl_i = TlThreads /\ requested' = cancels
      /\ UNCHANGED <<tlProg, cancels, block, passthis, thread, got, status>>
      /\ \/ tlProg.join = "none" /\ tlMain' = "end" /\ tl_i' = tl_i
         \/ tlProg.join # "none" /\ tlMain' = "join" /\ tl_i' = 0
  BY DEF AllThreadsCreated, tlWorker
<1>2. tlProg \in TlPrograms /\ tl_i \in 0..TlThreads
  BY DEF TlInv, TlTypeOK
<1>3. \A w \in Worker : ~ (w < 0)
  BY WorkerFacts
<1>4. TlTypeOK'
  BY <1>1, WorkerFacts DEF TlInv, TlTypeOK
<1>5. TlStarted'
  BY <1>1, <1>2, TlProgramFacts DEF TlInv, TlStarted
<1>6. \A w \in Worker : status[w] = "canceled" => requested'
  <2>1. ~ requested
    BY <1>1 DEF TlInv, TlCancels
  <2> QED
    BY <2>1 DEF TlInv, TlCancels
<1>7. TlCancels'
  BY <1>1, <1>6 DEF TlCancels
<1>8. TlBlocks'
  BY <1>1, <1>3 DEF TlInv, TlBlocks
<1>9. ParamsOutlive'
  <2>1. \A w \in Worker : Param(w)' = Param(w)
    BY <1>1 DEF Param
  <2> QED
    BY <1>1, <2>1 DEF TlInv, ParamsOutlive
<1> QED
  BY <1>4, <1>5, <1>7, <1>8, <1>9 DEF TlInv

\* main has waited for the threads: the shared block goes.
LEMMA AllJoinedKeeps ==
  ASSUME TlInv, AllJoined
  PROVE  TlInv'
<1>1. /\ tlMain = "join" /\ tl_i = TlThreads /\ tlMain' = "end"
      /\ UNCHANGED <<tlProg, cancels, tl_i, passthis, requested, thread, got, status>>
      /\ tlProg.frees = "end" => block' = [block EXCEPT ![0] = "freed"]
      /\ tlProg.frees # "end" => block' = block
  BY DEF AllJoined, tlWorker
<1>2. /\ tlProg \in TlPrograms /\ block \in [Worker -> {"none", "live", "freed"}]
  BY DEF TlInv, TlTypeOK
<1>3. tlProg.join = "wait" => \A w \in Worker :
        thread[w] = "ended" /\ (tlProg.param = "own" => block[w] # "live")
  BY <1>1, WorkerFacts DEF TlInv, TlBlocks
<1>4. /\ block' \in [Worker -> {"none", "live", "freed"}]
      /\ \A w \in Worker : block'[w] = block[w] \/ (tlProg.param = "shared" /\ w = 0)
      /\ tlProg.param = "shared" => block'[0] = "freed"
  BY <1>1, <1>2, WorkerFacts, TlProgramFacts
<1>5. tlProg.join = "wait" => \A w \in Worker : block'[w] # "live"
  BY <1>2, <1>3, <1>4, TlProgramFacts DEF TlInv, TlBlocks
<1>6. TlTypeOK' /\ TlStarted' /\ TlCancels'
  BY <1>1, <1>4 DEF TlInv, TlTypeOK, TlStarted, TlCancels
<1>7. TlBlocks'
  BY <1>1, <1>2, <1>3, <1>4, <1>5, TlProgramFacts DEF TlInv, TlBlocks
<1>8. ParamsOutlive'
  <2>1. \A w \in Worker : thread[w] \in {"created", "critical", "work"} => Param(w)' # "freed"
    <3> TAKE w \in Worker
    <3>1. CASE tlProg.param = "shared"
      BY <1>2, <1>3, <3>1, TlProgramFacts
    <3>2. CASE tlProg.param # "shared"
      BY <1>1, <1>4, <3>2 DEF TlInv, ParamsOutlive, Param
    <3> QED
      BY <3>1, <3>2
  <2> QED
    BY <1>1, <2>1 DEF TlInv, ParamsOutlive
<1> QED
  BY <1>6, <1>7, <1>8 DEF TlInv

\* A thread reads its parameter, works, ends or is cancelled.
LEMMA TlWorkerKeeps ==
  ASSUME TlInv, NEW w \in Worker,
         ReadParam(w) \/ EnableCancel(w) \/ ThreadEnds(w) \/ Canceled(w)
  PROVE  TlInv'
<1>1. /\ tlMain # "exit" /\ thread[w] \in {"created", "critical", "work"}
      /\ UNCHANGED <<tlProg, cancels, tlMain, tl_i, block, passthis, requested>>
      /\ \/ thread' = [thread EXCEPT ![w] = "critical"]
         \/ thread' = [thread EXCEPT ![w] = "work"]
         \/ thread' = [thread EXCEPT ![w] = "ended"]
  BY DEF ReadParam, EnableCancel, ThreadEnds, Canceled, Running0
<1>2. /\ tlProg \in TlPrograms /\ tl_i \in 0..TlThreads
      /\ thread \in [Worker -> {"none", "created", "critical", "work", "ended"}]
      /\ got \in [Worker -> 0..Unread]
      /\ status \in [Worker -> {"alive", "success", "canceled", "canceled early"}]
  BY DEF TlInv, TlTypeOK
<1>3. /\ thread' \in [Worker -> {"none", "created", "critical", "work", "ended"}]
      /\ thread'[w] \in {"critical", "work", "ended"}
      /\ \A v \in Worker : v # w => thread'[v] = thread[v]
  BY <1>1, <1>2
<1>4. /\ status' \in [Worker -> {"alive", "success", "canceled", "canceled early"}]
      /\ \A v \in Worker : status'[v] = "canceled" => (status[v] = "canceled" \/ requested)
  BY <1>2 DEF ReadParam, EnableCancel, ThreadEnds, Canceled
<1>5. \/ got' = got
      \/ thread[w] = "created" /\ got' = [got EXCEPT ![w] = Reads(w)]
  BY DEF ReadParam, EnableCancel, ThreadEnds, Canceled
<1>6. thread[w] = "created" =>
        /\ Reads(w) \in w..TlThreads
        /\ tlProg.param \in {"value", "own"} => Reads(w) = w
        /\ tlProg.param = "shared" => Reads(w) # TlThreads
  <2> SUFFICES ASSUME thread[w] = "created"
               PROVE  /\ Reads(w) \in w..TlThreads
                      /\ tlProg.param \in {"value", "own"} => Reads(w) = w
                      /\ tlProg.param = "shared" => Reads(w) # TlThreads
    OBVIOUS
  <2>1. CASE tlProg.param = "shared"
    <3>1. Reads(w) = passthis /\ passthis \in Worker /\ w <= passthis
      BY <2>1 DEF Reads, TlInv, TlStarted
    <3> QED
      BY <2>1, <3>1, WorkerFacts
  <2>2. CASE tlProg.param = "index"
    <3>1. Reads(w) = tl_i /\ w <= tl_i
      BY <2>2 DEF Reads, TlInv, TlStarted
    <3> QED
      BY <1>2, <2>2, <3>1, WorkerFacts
  <2>3. CASE tlProg.param \in {"value", "own"}
    BY <2>3, WorkerFacts DEF Reads
  <2> QED
    BY <1>2, <2>1, <2>2, <2>3, TlProgramFacts
<1>7. /\ got' \in [Worker -> 0..Unread]
      /\ \A v \in Worker : v # w => got'[v] = got[v]
      /\ got'[w] = got[w] \/ (thread[w] = "created" /\ got'[w] = Reads(w))
  <2>1. thread[w] = "created" => Reads(w) \in 0..Unread
    BY <1>6, WorkerFacts
  <2> QED
    BY <1>2, <1>5, <2>1
<1>8. TlTypeOK'
  BY <1>1, <1>3, <1>4, <1>7 DEF TlInv, TlTypeOK
<1>9. TlStarted'
  BY <1>1, <1>3, <1>7 DEF TlInv, TlStarted
<1>10. TlCancels'
  BY <1>1, <1>4 DEF TlInv, TlCancels
<1>11. TlBlocks'
  BY <1>1, <1>3 DEF TlInv, TlBlocks
<1>12. ParamsOutlive'
  <2>1. ASSUME NEW v \in Worker, got'[v] # Unread
        PROVE  /\ (tlProg.param \in {"value", "own"}) => (got'[v] = v)
               /\ got'[v] \in v..TlThreads
               /\ (tlProg.param = "shared") => (got'[v] # TlThreads)
    BY <1>6, <1>7, <2>1 DEF TlInv, ParamsOutlive
  <2>2. ASSUME NEW v \in Worker, thread'[v] \in {"created", "critical", "work"}
        PROVE  Param(v)' # "freed"
    BY <1>1, <1>3, <2>2 DEF TlInv, ParamsOutlive, Param
  <2> QED
    BY <1>1, <2>1, <2>2 DEF ParamsOutlive
<1> QED
  BY <1>8, <1>9, <1>10, <1>11, <1>12 DEF TlInv

\* Which threads have started and which blocks are theirs.
THEOREM ThreadLifeInductive == TlSpec => []TlInv
<1>1. ASSUME TlInit PROVE TlInv
  <2>1. /\ tlProg \in TlPrograms /\ cancels \in BOOLEAN
        /\ tlMain = "create" /\ tl_i = 0 /\ requested = FALSE /\ passthis = Unread
        /\ thread = [w \in Worker |-> "none"] /\ block = [w \in Worker |-> "none"]
        /\ got = [w \in Worker |-> Unread] /\ status = [w \in Worker |-> "alive"]
    BY <1>1 DEF TlInit, TlPrograms
  <2>2. TlTypeOK
    BY <2>1, WorkerFacts DEF TlTypeOK
  <2> QED
    BY <2>1, <2>2 DEF TlInv, TlStarted, TlCancels, TlBlocks, ParamsOutlive, Param
<1>2. TlInv /\ [TlNext]_tlVars => TlInv'
  <2>1. ASSUME TlInv, UNCHANGED tlVars PROVE TlInv'
    <3>1. UNCHANGED <<tlProg, cancels, tlMain, tl_i, block, passthis, requested,
                      thread, got, status>>
      BY <2>1 DEF tlVars, tlWorker
    <3>2. \A w \in Worker : Param(w)' = Param(w)
      BY <3>1 DEF Param
    <3> QED
      BY <2>1, <3>1, <3>2 DEF TlInv, TlTypeOK, TlStarted, TlCancels, TlBlocks, ParamsOutlive
  <2> QED
    BY <2>1, CreateThreadKeeps, JoinKeeps, TlMainKeeps, AllCreatedKeeps, AllJoinedKeeps,
       TlWorkerKeeps DEF TlNext
<1> QED
  BY <1>1, <1>2, PTL DEF TlSpec

\* The threads of ch14, whatever main waits for.
THEOREM ParamsOutliveHolds == TlSpec => []ParamsOutlive
<1>1. TlInv => ParamsOutlive
  BY DEF TlInv
<1> QED
  BY ThreadLifeInductive, <1>1, PTL

---------------------------------------------------------------------------
(* SchedThreads *)

\* The threads' numbers, and the numbers of all tasks, main's among them.
LEMMA SdWorkerFacts ==
  /\ SdThreads \in Nat /\ 0 \in 0..SdThreads /\ 0 \notin SdWorker /\ 1 \in SdWorker
  /\ \A w \in SdWorker : /\ w \in 0..SdThreads /\ w \in Nat /\ w < w + 1
                         /\ w # SdThreads => w + 1 \in SdWorker
  /\ \A v, w \in SdWorker : (v < w => v < w + 1) /\ (w < v => v # w)
  /\ \A task \in 0..SdThreads : task # 0 => task \in SdWorker
BY SdAssumption DEF SdWorker

\* The priorities the programs let pass.
LEMMA SdPrioFacts ==
  /\ SdMaxPrio \in Nat
  /\ \A n \in 1..SdTop : /\ n \in Nat /\ n # 0 /\ n <= SdMaxPrio
                         /\ n + SdBoost \in Nat /\ n + SdBoost # 0
                         /\ sdProg # "assgn2" => n + SdBoost <= SdMaxPrio
BY SdAssumption DEF SdTop

\* What a task has after it was asked to be given a policy.
LEMMA GrantedGives ==
  ASSUME attrs \in [0..SdThreads -> Policies \X Nat],
         NEW task \in 0..SdThreads, NEW policy \in Policies, NEW prio \in Nat,
         NEW allowed \in BOOLEAN, Granted(task, policy, prio, allowed)
  PROVE  /\ attrs' \in [0..SdThreads -> Policies \X Nat]
         /\ \A t \in 0..SdThreads : t # task => attrs'[t] = attrs[t]
         /\ \/ attrs'[task] = attrs[task]
            \/ attrs'[task] = <<policy, prio>> /\ (policy = "OTHER" <=> prio = 0)
<1>1. \/ attrs' = attrs
      \/ /\ attrs' = [attrs EXCEPT ![task] = <<policy, prio>>]
         /\ policy = "OTHER" <=> prio = 0
  BY DEF Granted
<1>2. <<policy, prio>> \in Policies \X Nat
  OBVIOUS
<1> HIDE DEF Policies
<1> QED
  BY <1>1, <1>2

\* Before the threads are changed: the arguments, the creation.
LEMMA SdMainKeeps ==
  ASSUME SdInv, CheckArgs \/ SdCreate \/ MainLeaves
  PROVE  SdInv'
<1>1. /\ UNCHANGED <<sdProg, asked, tpid, attrs, sdShown>>
      /\ sdMain \in {"args", "create", "work"}
      /\ life' # life => sdMain = "create" /\ life' = [life EXCEPT ![at] = "new"]
      /\ \/ at' = at
         \/ sdMain = "create" /\ at' = IF at = SdThreads THEN 1 ELSE at + 1
      /\ sdMain = "args" =>
           at' = at /\ (sdMain' = "exit" \/ (sdMain' = "create" /\ asked.prio \in 1..SdTop))
      /\ sdMain = "create" => \/ sdMain' \in {"create", "work", "exit"}
                              \/ sdMain' = "look" /\ sdProg = "assgn2"
      /\ sdMain = "work" => sdMain' = "ended"
  BY DEF CheckArgs, SdCreate, MainLeaves, SdTop
<1>2. /\ at \in SdWorker /\ life \in [SdWorker -> {"none", "new", "work", "done"}]
  BY DEF SdInv, SdTypeOK
<1>3. at' \in SdWorker
  BY <1>1, <1>2, SdWorkerFacts
<1>4. /\ life' \in [SdWorker -> {"none", "new", "work", "done"}]
      /\ \A w \in SdWorker : \/ life'[w] = life[w]
                             \/ sdMain = "create" /\ life'[w] = "new"
  BY <1>1, <1>2
<1>5. SdTypeOK'
  BY <1>1, <1>3, <1>4 DEF SdInv, SdTypeOK
<1>6. SdTop' = SdTop
  BY <1>1 DEF SdTop
<1>7. SdStages'
  BY <1>1, <1>4, <1>6 DEF SdInv, SdStages
<1>8. ChangesTheAskedThread'
  <2>1. sdMain \in {"args", "create"} => sdShown \notin {"FIFO", "RR"}
    BY DEF SdInv, SdStages
  <2>2. (sdShown \in {"FIFO", "RR"}) => life' = life
    BY <1>1, <2>1
  <2> QED
    BY <1>1, <2>2 DEF SdInv, ChangesTheAskedThread
<1> QED
  BY <1>1, <1>5, <1>7, <1>8 DEF SdInv

\* main goes past the workers, shows the asked one after its change, and joins.
LEMMA SdPassKeeps ==
  ASSUME SdInv, ChangeOrPass \/ ShowSched \/ SdJoin
  PROVE  SdInv'
<1>1. /\ UNCHANGED <<sdProg, asked, life, tpid, attrs>>
      /\ sdMain \in {"look", "show", "join"}
      /\ at' \in {at, 1} \/ (at # SdThreads /\ at' = at + 1)
      /\ \/ sdMain' = "look" /\ at' = at + 1 /\ sdMain \in {"look", "show"}
         \/ sdMain = "look" /\ sdMain' = "set" /\ at' = at /\ at = asked.thread
         \/ sdMain' = "join" /\ sdMain \in {"look", "show", "join"}
         \/ sdMain' = "ended"
  BY DEF ChangeOrPass, ShowSched, SdJoin
<1>2. /\ sdMain # "show" => sdShown' = sdShown
      /\ sdMain = "show" =>
           \/ sdShown' \in Policies \cup {"unknown"} /\ life[at] = "done"
           \/ sdShown' = attrs[tpid[at]][1]
  BY DEF ChangeOrPass, ShowSched, SdJoin
<1>3. /\ at \in SdWorker /\ tpid \in [SdWorker -> 0..SdThreads]
      /\ attrs \in [0..SdThreads -> Policies \X Nat]
      /\ asked.thread \in SdWorker /\ sdProg = "assgn2" /\ attrs[0] = Normal
      /\ sdMain = "show" => at = asked.thread
      /\ sdMain = "look" => sdShown = "nothing" \/ asked.thread < at
      /\ tpid[at] \in {0, at}
  BY <1>1 DEF SdInv, SdTypeOK, SdStages, ChangesTheAskedThread
<1>4. at' \in SdWorker
  BY <1>1, <1>3, SdWorkerFacts
<1>5. sdShown' \in Policies \cup {"nothing", "unknown"}
  <2>1. attrs[tpid[at]][1] \in Policies
    BY <1>3
  <2>2. sdShown \in Policies \cup {"nothing", "unknown"}
    BY DEF SdInv, SdTypeOK
  <2> QED
    BY <1>2, <2>1, <2>2
<1>6. sdMain' \in {"look", "set", "join", "ended"}
  BY <1>1
<1>7. SdTypeOK'
  BY <1>1, <1>4, <1>5, <1>6 DEF SdInv, SdTypeOK
<1>8. SdStages'
  <2>1. SdTop' = SdTop
    BY <1>1 DEF SdTop
  <2>2. sdMain' = "look" => sdShown' = "nothing" \/ asked.thread < at'
    BY <1>1, <1>2, <1>3, SdWorkerFacts
  <2>3. sdMain' = "set" => sdShown' = "nothing" /\ at' = asked.thread
    <3>1. at = asked.thread => ~ (asked.thread < at)
      BY <1>3, SdWorkerFacts
    <3> QED
      BY <1>1, <1>2, <1>3, <3>1
  <2> QED
    BY <1>1, <1>3, <1>6, <2>1, <2>2, <2>3 DEF SdInv, SdStages
<1>9. ChangesTheAskedThread'
  <2>1. (sdShown' \in {"FIFO", "RR"} /\ life[asked.thread] # "done") =>
           attrs[asked.thread][1] = sdShown'
    <3>1. CASE sdMain = "show"
      <4>1. attrs[0][1] = "OTHER"
        BY <1>3 DEF Normal
      <4> QED
        BY <1>2, <1>3, <3>1, <4>1
    <3>2. CASE sdMain # "show"
      BY <1>2, <1>3, <3>2 DEF SdInv, ChangesTheAskedThread
    <3> QED
      BY <3>1, <3>2
  <2> QED
    BY <1>1, <2>1 DEF SdInv, ChangesTheAskedThread
<1> QED
  BY <1>1, <1>7, <1>8, <1>9 DEF SdInv

\* main asks the kernel for the policy of the asked thread.
LEMMA SetSchedKeeps ==
  ASSUME SdInv, SetSched
  PROVE  SdInv'
<1>1. /\ UNCHANGED <<sdProg, asked, at, life, tpid, sdShown>>
      /\ sdMain = "set" /\ sdMain' = "show"
      /\ \/ attrs' = attrs
         \/ /\ tpid[at] # 0
            /\ \E allowed \in BOOLEAN : Granted(tpid[at], asked.policy, asked.prio, allowed)
  BY DEF SetSched
<1>2. /\ at \in SdWorker /\ at = asked.thread /\ tpid[at] \in {0, at} /\ sdShown = "nothing"
      /\ sdProg = "assgn2" /\ asked.policy \in Policies /\ asked.prio \in 1..SdTop
      /\ attrs \in [0..SdThreads -> Policies \X Nat] /\ attrs[0] = Normal
  BY <1>1 DEF SdInv, SdTypeOK, SdStages, ChangesTheAskedThread
<1>3. /\ at \in 0..SdThreads /\ at # 0 /\ asked.prio \in Nat /\ asked.prio # 0
      /\ asked.prio <= SdMaxPrio
  BY <1>2, SdWorkerFacts, SdPrioFacts
<1>4. /\ attrs' \in [0..SdThreads -> Policies \X Nat]
      /\ \A t \in 0..SdThreads : t # at => attrs'[t] = attrs[t]
      /\ \/ attrs'[at] = attrs[at]
         \/ attrs'[at] = <<asked.policy, asked.prio>> /\ asked.policy # "OTHER"
  <2>1. CASE attrs' = attrs
    BY <1>2, <2>1
  <2>2. CASE tpid[at] = at /\ \E allowed \in BOOLEAN :
               Granted(tpid[at], asked.policy, asked.prio, allowed)
    BY <1>2, <1>3, <2>2, GrantedGives
  <2> QED
    BY <1>1, <1>2, <2>1, <2>2
<1>5. SdTypeOK'
  BY <1>1, <1>4 DEF SdInv, SdTypeOK
<1>6. SdStages'
  <2>1. SdTop' = SdTop
    BY <1>1 DEF SdTop
  <2> QED
    BY <1>1, <1>2, <2>1 DEF SdInv, SdStages
<1>7. ChangesTheAskedThread'
  <2>1. \A task \in 0..SdThreads : attrs'[task][2] <= SdMaxPrio
    BY <1>3, <1>4 DEF SdInv, ChangesTheAskedThread
  <2>2. attrs'[0] = Normal
    BY <1>2, <1>3, <1>4, SdWorkerFacts
  <2>3. \A task \in SdWorker : attrs'[task] # Normal =>
              /\ task = asked.thread /\ attrs'[task] = <<asked.policy, asked.prio>>
              /\ asked.policy # "OTHER"
    BY <1>2, <1>4, SdWorkerFacts DEF SdInv, ChangesTheAskedThread
  <2> QED
    BY <1>1, <1>2, <2>1, <2>2, <2>3 DEF ChangesTheAskedThread
<1> QED
  BY <1>1, <1>5, <1>6, <1>7 DEF SdInv

\* A worker stores its id, makes itself a realtime thread, or ends.
LEMMA SdWorkerKeeps ==
  ASSUME SdInv, NEW w \in SdWorker, StoreTid(w) \/ SdWorkerEnds(w) \/ RealTime(w)
  PROVE  SdInv'
<1>1. /\ UNCHANGED <<sdProg, asked, sdMain, at, sdShown>> /\ life[w] # "none"
      /\ life' = [life EXCEPT ![w] = "work"] \/ life' = [life EXCEPT ![w] = "done"]
      /\ life[w] = "done" => life'[w] = "done"
      /\ tpid' = tpid \/ tpid' = [tpid EXCEPT ![w] = w]
      /\ \/ attrs' = attrs
         \/ /\ sdProg = "sched_rt_eg"
            /\ \E allowed \in BOOLEAN :
                 IF w = 1 THEN Granted(w, "RR", asked.prio, allowed)
                 ELSE Granted(w, "FIFO", asked.prio + SdBoost, allowed)
  BY DEF StoreTid, SdWorkerEnds, RealTime
<1>2. /\ life \in [SdWorker -> {"none", "new", "work", "done"}]
      /\ tpid \in [SdWorker -> 0..SdThreads] /\ asked.prio \in 1..SdTop
      /\ attrs \in [0..SdThreads -> Policies \X Nat] /\ attrs[0] = Normal
  BY <1>1 DEF SdInv, SdTypeOK, SdStages, ChangesTheAskedThread
<1>3. w \in 0..SdThreads /\ w # 0
  BY SdWorkerFacts
<1>4. /\ life' \in [SdWorker -> {"none", "new", "work", "done"}]
      /\ \A v \in SdWorker : v # w => life'[v] = life[v]
      /\ life'[w] # "none"
  BY <1>1, <1>2
<1>5. /\ tpid' \in [SdWorker -> 0..SdThreads]
      /\ \A v \in SdWorker : tpid'[v] = tpid[v] \/ tpid'[v] = v
  BY <1>1, <1>2, <1>3
<1>6. /\ attrs' \in [0..SdThreads -> Policies \X Nat]
      /\ \A t \in 0..SdThreads : t # w => attrs'[t] = attrs[t]
      /\ attrs'[w] = attrs[w] \/ (sdProg = "sched_rt_eg" /\ attrs'[w][2] <= SdMaxPrio)
      /\ sdProg = "assgn2" => attrs' = attrs
  <2>1. CASE attrs' = attrs
    BY <1>2, <2>1
  <2>2. ASSUME sdProg = "sched_rt_eg", NEW allowed \in BOOLEAN, w = 1,
               Granted(w, "RR", asked.prio, allowed)
        PROVE  /\ attrs' \in [0..SdThreads -> Policies \X Nat]
               /\ \A t \in 0..SdThreads : t # w => attrs'[t] = attrs[t]
               /\ attrs'[w] = attrs[w] \/ attrs'[w][2] <= SdMaxPrio
    <3>1. "RR" \in Policies /\ asked.prio \in Nat /\ asked.prio <= SdMaxPrio
      BY <1>2, SdPrioFacts DEF Policies
    <3>2. \/ attrs'[w] = attrs[w]
          \/ attrs'[w] = <<"RR", asked.prio>>
      BY <1>2, <1>3, <2>2, <3>1, GrantedGives
    <3> QED
      BY <1>2, <1>3, <2>2, <3>1, <3>2, GrantedGives
  <2>3. ASSUME sdProg = "sched_rt_eg", NEW allowed \in BOOLEAN, w # 1,
               Granted(w, "FIFO", asked.prio + SdBoost, allowed)
        PROVE  /\ attrs' \in [0..SdThreads -> Policies \X Nat]
               /\ \A t \in 0..SdThreads : t # w => attrs'[t] = attrs[t]
               /\ attrs'[w] = attrs[w] \/ attrs'[w][2] <= SdMaxPrio
    <3> DEFINE boosted == asked.prio + SdBoost
    <3>1. "FIFO" \in Policies /\ boosted \in Nat /\ boosted <= SdMaxPrio
      BY <1>2, <2>3, SdPrioFacts DEF Policies
    <3>2. Granted(w, "FIFO", boosted, allowed)
      BY <2>3
    <3> HIDE DEF boosted
    <3>3. \/ attrs'[w] = attrs[w]
          \/ attrs'[w] = <<"FIFO", boosted>>
      BY <1>2, <1>3, <3>1, <3>2, GrantedGives
    <3> QED
      BY <1>2, <1>3, <3>1, <3>2, <3>3, GrantedGives
  <2> QED
    BY <1>1, <2>1, <2>2, <2>3
<1>7. SdTypeOK'
  BY <1>1, <1>4, <1>5, <1>6 DEF SdInv, SdTypeOK
<1>8. SdStages'
  <2>1. SdTop' = SdTop
    BY <1>1 DEF SdTop
  <2> QED
    BY <1>1, <1>2, <1>4, <1>5, <2>1 DEF SdInv, SdStages
<1>9. ChangesTheAskedThread'
  <2>1. \A task \in 0..SdThreads : attrs'[task][2] <= SdMaxPrio
    BY <1>6 DEF SdInv, ChangesTheAskedThread
  <2>2. attrs'[0] = Normal
    BY <1>2, <1>3, <1>6, SdWorkerFacts
  <2>3. asked.thread \in SdWorker
    BY DEF SdInv
  <2>4. life'[asked.thread] # "done" => life[asked.thread] # "done"
    BY <1>1, <1>4, <2>3
  <2> QED
    BY <1>1, <1>6, <2>1, <2>2, <2>4 DEF SdInv, ChangesTheAskedThread
<1> QED
  BY <1>1, <1>7, <1>8, <1>9 DEF SdInv

\* Which threads have stored their ids, and what main has asked for.
THEOREM SchedInductive == SdSpec => []SdInv
<1>1. ASSUME SdInit PROVE SdInv
  <2>1. /\ sdProg \in SdPrograms /\ sdMain = "args" /\ at = 1 /\ sdShown = "nothing"
        /\ asked \in [thread : SdWorker, policy : Policies, prio : 0..(SdMaxPrio + 1)]
        /\ life = [w \in SdWorker |-> "none"] /\ tpid = [w \in SdWorker |-> 0]
        /\ attrs = [task \in 0..SdThreads |-> Normal]
    BY <1>1 DEF SdInit
  <2>2. Normal \in Policies \X Nat /\ Normal[2] <= SdMaxPrio
    BY SdPrioFacts DEF Normal, Policies
  <2>3. SdTypeOK
    BY <2>1, <2>2, SdWorkerFacts DEF SdTypeOK
  <2>4. SdStages
    BY <2>1 DEF SdStages
  <2>5. ChangesTheAskedThread
    BY <2>1, <2>2, SdWorkerFacts DEF ChangesTheAskedThread
  <2> QED
    BY <2>1, <2>3, <2>4, <2>5 DEF SdInv
<1>2. SdInv /\ [SdNext]_sdVars => SdInv'
  <2>1. ASSUME SdInv, UNCHANGED sdVars PROVE SdInv'
    BY <2>1 DEF sdVars, SdInv, SdTypeOK, SdStages, SdTop, ChangesTheAskedThread
  <2> QED
    BY <2>1, SdMainKeeps, SdPassKeeps, SetSchedKeeps, SdWorkerKeeps DEF SdNext
<1> QED
  BY <1>1, <1>2, PTL DEF SdSpec

\* Whenever the workers store their ids and whatever the kernel refuses.
THEOREM ChangesTheAskedThreadHolds == SdSpec => []ChangesTheAskedThread
<1>1. SdInv => ChangesTheAskedThread
  BY DEF SdInv
<1> QED
  BY SchedInductive, <1>1, PTL

---------------------------------------------------------------------------
(* LockDemos: the factorial *)

\* A set of numbers has a least one: a property that fails for some number fails
\* for a least one.
LEMMA LeastNumber ==
  ASSUME NEW T \in SUBSET Nat, T # {}
  PROVE  \E x \in T : \A y \in T : x <= y
<1> DEFINE Below == OpToRel(<, Nat)
<1>1. \A x, y \in Nat : x < y => <<x, y>> \in Below
  BY DEF OpToRel
<1>2. IsWellFoundedOn(Below, Nat)
  BY NatLessThanWellFounded
<1> HIDE DEF Below
<1>3. PICK x \in T : \A y \in T : ~ (<<y, x>> \in Below)
  BY <1>2, WFMin
<1>4. \A y \in T : ~ (y < x)
  BY <1>1, <1>3
<1> QED
  BY <1>4

\* g gives the factorials up to n.
Factorials(g, n) ==
  /\ g = [i \in 0..n |-> g[i]] /\ g[0] = 1
  /\ \A i \in 1..n : g[i] = g[i - 1] * i

\* They exist up to any number.
LEMMA FactorialsExist == \A n \in Nat : \E g : Factorials(g, n)
<1> DEFINE T == {n \in Nat : ~ \E g : Factorials(g, n)}
<1> SUFFICES ASSUME T # {} PROVE FALSE
  OBVIOUS
<1>1. PICK x \in T : \A y \in T : x <= y
  <2>1. T \in SUBSET Nat
    OBVIOUS
  <2> HIDE DEF T
  <2> QED
    BY <2>1, LeastNumber
<1>2. x # 0
  <2> DEFINE one == [i \in 0..0 |-> 1]
  <2>1. 0 \in 0..0 /\ one[0] = 1 /\ one = [i \in 0..0 |-> one[i]]
    OBVIOUS
  <2>2. \A i \in 1..0 : FALSE
    OBVIOUS
  <2> HIDE DEF one
  <2>3. Factorials(one, 0)
    BY <2>1, <2>2 DEF Factorials
  <2> QED
    BY <2>3
<1>3. x \in Nat /\ x - 1 \in Nat /\ ~ (x <= x - 1)
  BY <1>2
<1>4. PICK g : Factorials(g, x - 1)
  BY <1>1, <1>3
<1> DEFINE h == [i \in 0..x |-> IF i = x THEN g[x - 1] * x ELSE g[i]]
<1>5. h = [i \in 0..x |-> h[i]]
  OBVIOUS
<1>6. \A i \in 0..(x - 1) : h[i] = g[i]
  BY <1>3
<1>7. h[0] = 1
  BY <1>3, <1>4, <1>6 DEF Factorials
<1>8. ASSUME NEW i \in 1..x PROVE h[i] = h[i - 1] * i
  <2>1. i - 1 \in 0..(x - 1) /\ (i = x \/ i \in 1..(x - 1))
    BY <1>3
  <2>2. CASE i = x
    <3>1. h[x] = g[x - 1] * x
      BY <1>3
    <3>2. h[x - 1] = g[x - 1]
      BY <1>3, <1>6
    <3> QED
      BY <2>2, <3>1, <3>2
  <2>3. CASE i \in 1..(x - 1)
    <3>1. i \in 0..(x - 1)
      BY <2>3, <1>3
    <3>2. g[i] = g[i - 1] * i
      BY <1>4, <2>3 DEF Factorials
    <3> QED
      BY <1>6, <2>1, <3>1, <3>2
  <2> QED
    BY <2>1, <2>2, <2>3
<1> HIDE DEF h
<1>9. Factorials(h, x)
  BY <1>5, <1>7, <1>8 DEF Factorials
<1> QED
  BY <1>9

\* They agree as far as both go.
LEMMA FactorialsAgree ==
  ASSUME NEW n \in Nat, NEW m \in Nat, NEW g, NEW h, Factorials(g, n), Factorials(h, m),
         NEW k \in Nat, k <= n, k <= m
  PROVE  g[k] = h[k]
<1> DEFINE T == {i \in Nat : i <= n /\ i <= m /\ g[i] # h[i]}
<1> SUFFICES ASSUME T # {} PROVE FALSE
  OBVIOUS
<1>1. PICK x \in T : \A y \in T : x <= y
  <2>1. T \in SUBSET Nat
    OBVIOUS
  <2> HIDE DEF T
  <2> QED
    BY <2>1, LeastNumber
<1>2. x # 0
  BY DEF Factorials
<1>3. x \in Nat /\ x - 1 \in Nat /\ ~ (x <= x - 1) /\ x \in 1..n /\ x \in 1..m
      /\ x - 1 <= n /\ x - 1 <= m
  BY <1>2
<1>4. g[x - 1] = h[x - 1]
  BY <1>1, <1>3
<1>5. g[x] = g[x - 1] * x /\ h[x] = h[x - 1] * x
  BY <1>3 DEF Factorials
<1> QED
  BY <1>4, <1>5

\* The recursive definition says what a reader takes it to say.
LEMMA FactorialIs ==
  /\ Factorial[0] = 1
  /\ \A n \in Nat \ {0} : Factorial[n] = Factorial[n - 1] * n
<1> DEFINE upto(n) == CHOOSE g : Factorials(g, n)
           all == [n \in Nat |-> upto(n)[n]]
           solves(f) == f = [n \in Nat |-> IF n = 0 THEN 1 ELSE f[n - 1] * n]
<1>1. \A n \in Nat : Factorials(upto(n), n)
  BY FactorialsExist
<1> HIDE DEF upto
<1>2. all[0] = 1
  BY <1>1 DEF Factorials
<1>3. ASSUME NEW n \in Nat, n # 0 PROVE all[n] = all[n - 1] * n
  <2>1. n - 1 \in Nat /\ n - 1 <= n /\ n - 1 <= n - 1 /\ n \in 1..n
    BY <1>3
  <2>2. upto(n)[n] = upto(n)[n - 1] * n
    BY <1>1, <2>1 DEF Factorials
  <2>3. upto(n)[n - 1] = upto(n - 1)[n - 1]
    BY <1>1, <2>1, FactorialsAgree
  <2> QED
    BY <2>1, <2>2, <2>3
<1>4. all = [n \in Nat |-> all[n]]
  OBVIOUS
<1> HIDE DEF all
<1>5. solves(all)
  BY <1>2, <1>3, <1>4
<1>6. Factorial = CHOOSE f : solves(f)
  BY DEF Factorial
<1> HIDE DEF solves
<1>7. solves(Factorial)
  BY <1>5, <1>6
<1>8. Factorial = [n \in Nat |-> IF n = 0 THEN 1 ELSE Factorial[n - 1] * n]
  BY <1>7 DEF solves
<1>9. 0 \in Nat
  OBVIOUS
<1> QED
  BY <1>8, <1>9

---------------------------------------------------------------------------
(* LockDemos: the workers *)

\* The workers' numbers, and how many updates each makes.
LEMMA LdNumbers ==
  /\ LdThreads \in Nat \ {0} /\ 1 \in LdWorker /\ LdThreads \in LdWorker
  /\ \A w \in LdWorker : w \in Nat /\ Updates(w) \in Nat \ {0}
                         /\ (ldProg = "facto" => Updates(w) = w + 1)
                         /\ (ldProg # "facto" => Updates(w) = 3)
BY LdAssumption DEF LdWorker, Updates

\* The workers that are past a cell can be counted.
LEMMA PastCounts ==
  /\ Cardinality(LdWorker) = LdThreads
  /\ \A c : IsFiniteSet(Past(c)) /\ Cardinality(Past(c)) \in Nat
            /\ Cardinality(Past(c)) <= LdThreads
<1>1. IsFiniteSet(LdWorker) /\ Cardinality(LdWorker) = LdThreads
  <2>1. LdThreads \in Nat /\ 1 \in Nat /\ LdThreads = LdThreads - 1 + 1 /\ 1 <= LdThreads
    BY LdAssumption
  <2> QED
    BY <2>1, FS_Interval DEF LdWorker
<1>2. ASSUME NEW c PROVE Past(c) \subseteq LdWorker
  BY DEF Past
<1> QED
  BY <1>1, <1>2, FS_Subset, FS_CardinalityType

\* A worker takes a step of its own: main has not yet waited for it.
LEMMA WorkerTakes ==
  ASSUME LdInv, NEW w \in LdWorker, NEW from, NEW to, Takes(w, from, to),
         from # "done", to \in {"lock", "done"} \cup Inside
  PROVE  /\ work \in [LdWorker -> {"none", "lock", "done"} \cup Inside]
         /\ work' \in [LdWorker -> {"none", "lock", "done"} \cup Inside]
         /\ work[w] = from /\ work'[w] = to
         /\ \A v \in LdWorker : v # w => work'[v] = work[v]
         /\ ldMain # "destroyed"
<1>1. /\ work \in [LdWorker -> {"none", "lock", "done"} \cup Inside]
      /\ work[w] = from /\ work' = [work EXCEPT ![w] = to]
      /\ ldMain = "destroyed" => work[w] = "done"
  BY DEF LdInv, LdTypeOK, LdStages, Takes
<1> QED
  BY <1>1

\* What was printed stays as it was, and main has not destroyed the mutex.
LEMMA ResultsStay ==
  ASSUME LdInv, UNCHANGED <<ldProg, locking, printed>>, ldMain' # "destroyed"
  PROVE  LockedResults'
BY DEF LdInv, LockedResults

\* A step that touches no cell, no count and no result, and enters nothing that a
\* product, a count or a print depends on.
LEMMA LdRest ==
  ASSUME LdInv, UNCHANGED <<ldProg, locking, update, reg, global, printed>>,
         \A w \in LdWorker : \/ work'[w] = work[w]
                             \/ work'[w] \in {"lock", "init", "unlock", "done"}
                             \/ work'[w] = "load" /\ update[w] = 1 /\ ldProg = "mutex1"
                             \/ work'[w] = "load" /\ ~ locking
  PROVE  LdProducts' /\ LdCounts' /\ LdPrinted'
<1>1. Initial' = Initial /\ \A c : Past(c)' = Past(c)
  BY DEF Initial, Past
<1>2. LdProducts'
  BY DEF LdInv, LdProducts
<1>3. LdCounts'
  BY <1>1 DEF LdInv, LdCounts, LdCounted
<1>4. LdPrinted'
  <2>1. ~ (1 < 1)
    OBVIOUS
  <2> QED
    BY <2>1 DEF LdInv, LdPrinted
<1> QED
  BY <1>2, <1>3, <1>4

\* main starts the workers, one by one, and waits for them all.
LEMMA LdMainKeeps ==
  ASSUME LdInv, StartWorker \/ JoinAndDestroy
  PROVE  LdInv'
<1>1. UNCHANGED <<ldProg, locking, update, reg, global, printed>>
  BY DEF StartWorker, JoinAndDestroy
<1>2. /\ work \in [LdWorker -> {"none", "lock", "done"} \cup Inside]
      /\ ldProg \in {"facto", "mutex1"} /\ locking \in BOOLEAN
  BY DEF LdInv, LdTypeOK
<1>3. CASE StartWorker
  <2>1. /\ ldMain' \in {"join", "create", "exit"}
        /\ \/ work' = work
           \/ \E w \in LdWorker : /\ work[w] = "none"
                                  /\ work' = [work EXCEPT ![w] = IF locking THEN "lock" ELSE Begin]
    BY <1>3 DEF StartWorker
  <2>2. CASE work' = work
    <3>1. LdTypeOK' /\ LdStages'
      BY <1>1, <2>1, <2>2 DEF LdInv, LdTypeOK, LdStages, Updates
    <3> QED
      BY <1>1, <2>1, <2>2, <3>1, LdRest, ResultsStay DEF LdInv
  <2>3. ASSUME NEW w \in LdWorker, work[w] = "none",
               work' = [work EXCEPT ![w] = IF locking THEN "lock" ELSE Begin]
        PROVE  LdInv'
    <3>1. /\ \A v \in LdWorker : v # w => work'[v] = work[v]
          /\ locking => work'[w] = "lock"
          /\ ~ locking /\ ldProg = "facto" => work'[w] = "init"
          /\ ~ locking /\ ldProg = "mutex1" => work'[w] = "load"
          /\ work' \in [LdWorker -> {"none", "lock", "done"} \cup Inside]
      BY <1>2, <2>3 DEF Begin, Inside
    <3>2. update[w] = 1 /\ 1 \in 1..Updates(w) /\ printed[w] = <<>>
      BY <2>3, LdNumbers DEF LdInv, LdStages
    <3>3. LdTypeOK'
      BY <1>1, <2>1, <3>1 DEF LdInv, LdTypeOK
    <3>4. LdStages'
      <4>1. \A v \in LdWorker : Updates(v)' = Updates(v)
        BY <1>1 DEF Updates
      <4>2. "lock" \notin Inside
        BY DEF Inside
      <4> QED
        BY <1>1, <1>2, <2>1, <3>1, <3>2, <4>1, <4>2 DEF LdInv, LdStages
    <3>5. LdProducts' /\ LdCounts' /\ LdPrinted'
      BY <1>1, <1>2, <3>1, <3>2, LdRest
    <3> QED
      BY <1>1, <2>1, <3>3, <3>4, <3>5, ResultsStay DEF LdInv
  <2> QED
    BY <2>1, <2>2, <2>3
<1>4. CASE JoinAndDestroy
  <2>1. /\ ldMain' = "destroyed" /\ work' = work /\ \A w \in LdWorker : work[w] = "done"
    BY <1>4 DEF JoinAndDestroy
  <2>2. LdTypeOK' /\ LdStages'
    BY <1>1, <2>1 DEF LdInv, LdTypeOK, LdStages, Updates
  <2>3. LdProducts' /\ LdCounts' /\ LdPrinted'
    BY <1>1, <2>1, LdRest
  <2>4. ASSUME ldProg = "mutex1", NEW c \in Cells
        PROVE  /\ global[c] \in (Initial[c] + 1)..(Initial[c] + LdThreads)
               /\ locking => global[c] = Initial[c] + LdThreads
    <3>1. Past(c) = LdWorker
      <4>1. \A w \in LdWorker : update[w] = 4 /\ c < 4
        BY <2>1, <2>4, LdNumbers DEF LdInv, LdStages, Cells
      <4> QED
        BY <4>1 DEF Past
    <3>2. Past(c) # {} /\ Cardinality(Past(c)) = LdThreads
      BY <3>1, LdNumbers, PastCounts
    <3>3. /\ global[c] \in Nat /\ Initial[c] \in Nat /\ Initial[c] < global[c]
          /\ global[c] <= Initial[c] + LdThreads
      BY <2>4, <3>2 DEF LdInv, LdTypeOK, LdCounts, LdCounted, Initial, Cells
    <3>4. locking => global[c] = Initial[c] + LdThreads
      BY <2>4, <3>2 DEF LdInv, LdCounts
    <3> QED
      BY <3>3, <3>4, LdNumbers
  <2>5. LockedResults'
    BY <1>1, <2>4 DEF LdInv, LockedResults, Initial
  <2> QED
    BY <1>1, <2>2, <2>3, <2>5 DEF LdInv
<1> QED
  BY <1>3, <1>4

\* A worker locks and unlocks.
LEMMA LdLockKeeps ==
  ASSUME LdInv, NEW w \in LdWorker, Lock(w) \/ Unlock(w)
  PROVE  LdInv'
<1>1. /\ UNCHANGED <<ldProg, locking, ldMain, update, reg, global, printed>>
      /\ \/ Takes(w, "lock", Begin) /\ \A v \in LdWorker : work[v] \notin Inside
         \/ Takes(w, "unlock", "done")
  BY DEF Lock, Unlock
<1>2. Begin \in Inside /\ "lock" \notin Inside /\ "done" \notin Inside /\ "unlock" \in Inside
  BY DEF Begin, Inside
<1>3. /\ work' \in [LdWorker -> {"none", "lock", "done"} \cup Inside]
      /\ \A v \in LdWorker : v # w => work'[v] = work[v]
      /\ \/ work[w] = "lock" /\ work'[w] = Begin /\ \A v \in LdWorker : work[v] \notin Inside
         \/ work[w] = "unlock" /\ work'[w] = "done"
      /\ ldMain # "destroyed"
  BY <1>1, <1>2, WorkerTakes
<1>4. LdTypeOK'
  BY <1>1, <1>3 DEF LdInv, LdTypeOK
<1>5. /\ ldProg \in {"facto", "mutex1"}
      /\ \/ Begin = "init" /\ ldProg = "facto"
         \/ Begin = "load" /\ ldProg = "mutex1"
  BY DEF LdInv, LdTypeOK, Begin
<1>6. /\ work[w] = "lock" => update[w] = 1
      /\ 1 \in 1..Updates(w)
  BY LdNumbers DEF LdInv, LdStages
<1>7. LdStages'
  <2>1. \A v \in LdWorker : Updates(v)' = Updates(v)
    BY <1>1 DEF Updates
  <2> QED
    BY <1>1, <1>2, <1>3, <1>5, <1>6, <2>1 DEF LdInv, LdStages
<1>8. LdProducts' /\ LdCounts' /\ LdPrinted'
  BY <1>1, <1>3, <1>5, <1>6, LdRest
<1> QED
  BY <1>1, <1>3, <1>4, <1>7, <1>8, ResultsStay DEF LdInv

\* factorize starts from 1; a worker loads what it finds.
LEMMA LdLoadKeeps ==
  ASSUME LdInv, NEW w \in LdWorker, Reset(w) \/ LoadGlobal(w)
  PROVE  LdInv'
<1>1. UNCHANGED <<ldProg, locking, ldMain, update, printed>>
  BY DEF Reset, LoadGlobal
<1>2. /\ "init" \in Inside /\ "load" \in Inside /\ "store" \in Inside /\ "done" \notin Inside
      /\ "print" \in Inside
  BY DEF Inside
<1>3. /\ work \in [LdWorker -> {"none", "lock", "done"} \cup Inside]
      /\ work' \in [LdWorker -> {"none", "lock", "done"} \cup Inside]
      /\ \A v \in LdWorker : v # w => work'[v] = work[v]
      /\ \/ work[w] = "init" /\ work'[w] = "load"
         \/ work[w] = "load" /\ work'[w] = "store"
      /\ ldMain # "destroyed"
  BY <1>2, WorkerTakes DEF Reset, LoadGlobal
<1>4. /\ global \in [Cells -> Nat] /\ reg \in [LdWorker -> Nat] /\ 1 \in Cells
      /\ ldProg \in {"facto", "mutex1"}
  BY DEF LdInv, LdTypeOK, Cells
<1>5. /\ work[w] = "init" => update[w] = 1 /\ ldProg = "facto"
      /\ 1 \in 1..Updates(w)
      /\ work[w] = "load" => update[w] \in 1..Updates(w)
  BY LdNumbers DEF LdInv, LdStages
<1>6. Cell(update[w]) \in Cells \/ work[w] = "init"
  BY <1>3, <1>4, <1>5, LdNumbers DEF Cell, Cells
<1>7. LdStages'
  <2>1. \A v \in LdWorker : Updates(v)' = Updates(v)
    BY <1>1 DEF Updates
  <2> QED
    BY <1>1, <1>2, <1>3, <1>5, <2>1 DEF LdInv, LdStages
<1>8. locking => \A v \in LdWorker : v # w => work[v] \notin Inside
  BY <1>2, <1>3 DEF LdInv, LdStages
<1>9. CASE work[w] = "init"
  <2>1. /\ global' = [global EXCEPT ![1] = 1] /\ reg' = reg /\ ldProg = "facto"
        /\ work'[w] = "load" /\ update[w] = 1
    BY <1>2, <1>3, <1>5, <1>9, WorkerTakes DEF Reset, LoadGlobal
  <2>2. LdTypeOK'
    BY <1>1, <1>3, <1>4, <2>1 DEF LdInv, LdTypeOK
  <2>3. LdProducts'
    <3>1. global'[1] = 1 /\ update[w] - 1 = 0 /\ Factorial[0] = 1
      BY <1>4, <2>1, FactorialIs
    <3> QED
      BY <1>1, <1>2, <1>3, <1>8, <2>1, <3>1 DEF LdProducts
  <2>4. LdCounts' /\ LdPrinted'
    BY <1>1, <2>1 DEF LdCounts, LdPrinted
  <2> QED
    BY <1>1, <1>3, <1>7, <2>2, <2>3, <2>4, ResultsStay DEF LdInv
<1>10. CASE work[w] = "load"
  <2>1. /\ global' = global /\ reg' = [reg EXCEPT ![w] = global[Cell(update[w])]]
        /\ work'[w] = "store"
    BY <1>2, <1>3, <1>10, WorkerTakes DEF Reset, LoadGlobal
  <2>2. /\ reg' \in [LdWorker -> Nat] /\ reg'[w] = global[Cell(update[w])]
        /\ \A v \in LdWorker : v # w => reg'[v] = reg[v]
    BY <1>4, <1>6, <1>10, <2>1
  <2>3. LdTypeOK'
    BY <1>1, <1>3, <2>1, <2>2 DEF LdInv, LdTypeOK
  <2>4. LdProducts'
    BY <1>1, <1>2, <1>3, <1>8, <1>10, <2>1, <2>2 DEF LdInv, LdProducts, Cell
  <2>5. LdCounts'
    <3>1. Initial' = Initial /\ \A c : Past(c)' = Past(c)
      BY <1>1 DEF Initial, Past
    <3>2. ldProg = "mutex1" => Cell(update[w]) = update[w] /\ update[w] \in Cells
      BY <1>6, <1>10 DEF Cell
    <3> QED
      BY <1>1, <1>3, <1>10, <2>1, <2>2, <3>1, <3>2 DEF LdInv, LdCounts, LdCounted
  <2>6. LdPrinted'
    BY <1>1, <1>3, <1>10, <2>1 DEF LdInv, LdPrinted
  <2> QED
    BY <1>1, <1>3, <1>7, <2>3, <2>4, <2>5, <2>6, ResultsStay DEF LdInv
<1> QED
  BY <1>3, <1>9, <1>10

\* A store counts its worker in its cell, and in no other.
LEMMA PastGrows ==
  ASSUME NEW w \in LdWorker, update \in [LdWorker -> Nat],
         update' = [update EXCEPT ![w] = @ + 1], NEW c \in Nat
  PROVE  /\ c # update[w] => Past(c)' = Past(c)
         /\ c = update[w] => /\ Past(c)' # {}
                             /\ Cardinality(Past(c)') = Cardinality(Past(c)) + 1
         /\ Cardinality(Past(c)) <= Cardinality(Past(c)')
         /\ Cardinality(Past(c)') \in Nat
<1>1. /\ update'[w] = update[w] + 1 /\ update[w] \in Nat
      /\ \A v \in LdWorker : v # w => update'[v] = update[v]
  OBVIOUS
<1>2. c # update[w] => Past(c)' = Past(c)
  BY <1>1 DEF Past
<1>3. c = update[w] => Past(c)' = Past(c) \cup {w} /\ w \notin Past(c)
  BY <1>1 DEF Past
<1>4. IsFiniteSet(Past(c)) /\ Cardinality(Past(c)) \in Nat
  BY PastCounts
<1>5. c = update[w] => Cardinality(Past(c)') = Cardinality(Past(c)) + 1
  BY <1>3, <1>4, FS_AddElement
<1> QED
  BY <1>2, <1>3, <1>4, <1>5

\* A worker stores what it has computed.
LEMMA LdStoreKeeps ==
  ASSUME LdInv, NEW w \in LdWorker, StoreGlobal(w)
  PROVE  LdInv'
<1> DEFINE k == update[w]
<1>1. /\ UNCHANGED <<ldProg, locking, ldMain, reg, printed>>
      /\ global' = [global EXCEPT ![Cell(k)] = Updated(reg[w], k)]
      /\ update' = [update EXCEPT ![w] = @ + 1]
  BY DEF StoreGlobal
<1>2. /\ "load" \in Inside /\ "store" \in Inside /\ "print" \in Inside /\ "done" \notin Inside
      /\ "lock" \notin Inside
  BY DEF Inside
<1>3. /\ work \in [LdWorker -> {"none", "lock", "done"} \cup Inside]
      /\ work' \in [LdWorker -> {"none", "lock", "done"} \cup Inside]
      /\ \A v \in LdWorker : v # w => work'[v] = work[v]
      /\ work[w] = "store"
      /\ work'[w] = IF k = Updates(w) THEN "print" ELSE "load"
      /\ ldMain # "destroyed"
  <2> DEFINE to == IF k = Updates(w) THEN "print" ELSE "load"
  <2>1. to \in {"lock", "done"} \cup Inside /\ "store" # "done"
    BY <1>2
  <2>2. Takes(w, "store", to)
    BY DEF StoreGlobal
  <2> HIDE DEF to
  <2>3. /\ work \in [LdWorker -> {"none", "lock", "done"} \cup Inside]
        /\ work' \in [LdWorker -> {"none", "lock", "done"} \cup Inside]
        /\ work[w] = "store" /\ work'[w] = to
        /\ \A v \in LdWorker : v # w => work'[v] = work[v]
        /\ ldMain # "destroyed"
    BY <2>1, <2>2, WorkerTakes
  <2> QED
    BY <2>3 DEF to
<1>4. /\ global \in [Cells -> Nat] /\ reg \in [LdWorker -> Nat]
      /\ update \in [LdWorker -> Nat \ {0}]
      /\ ldProg \in {"facto", "mutex1"} /\ locking \in BOOLEAN
  BY DEF LdInv, LdTypeOK
<1>5. /\ k \in 1..Updates(w) /\ k \in Nat \ {0} /\ k - 1 \in Nat
      /\ Updates(w) \in Nat /\ reg[w] \in Nat
  BY <1>3, <1>4, LdNumbers DEF LdInv, LdStages
<1>6. /\ update'[w] = k + 1 /\ update' \in [LdWorker -> Nat \ {0}]
      /\ \A v \in LdWorker : v # w => update'[v] = update[v]
  BY <1>1, <1>4, <1>5
<1>7. locking => \A v \in LdWorker : v # w => work[v] \notin Inside
  BY <1>2, <1>3 DEF LdInv, LdStages
<1>8. LdStages'
  <2>1. \A v \in LdWorker : Updates(v)' = Updates(v)
    BY <1>1 DEF Updates
  <2>2. /\ work'[w] = "print" => k = Updates(w)
        /\ work'[w] = "load" => k + 1 \in 1..Updates(w)
        /\ work'[w] \in {"load", "print"}
    BY <1>3, <1>5
  <2>3. printed[w] = <<>>
    BY <1>3 DEF LdInv, LdStages
  <2> HIDE DEF k
  <2> QED
    BY <1>1, <1>2, <1>3, <1>6, <2>1, <2>2, <2>3 DEF LdInv, LdStages
<1>9. CASE ldProg = "facto"
  <2>1. /\ Cell(k) = 1 /\ Updated(reg[w], k) = reg[w] * k /\ 1 \in Cells
        /\ Updates(w) = w + 1 /\ w \in Nat
    BY <1>9, LdNumbers DEF Cell, Updated, Cells
  <2>2. \A a, b \in Nat : a * b \in Nat
    OBVIOUS
  <2>3. reg[w] * k \in Nat
    BY <1>5, <2>2
  <2>4. global' \in [Cells -> Nat] /\ global'[1] = reg[w] * k
    BY <1>1, <1>4, <2>1, <2>3
  <2>5. LdTypeOK'
    BY <1>1, <1>3, <1>6, <2>4 DEF LdInv, LdTypeOK
  <2>6. LdProducts'
    <3>1. locking => reg[w] = Factorial[k - 1]
      BY <1>3, <1>9 DEF LdInv, LdProducts
    <3>2. Factorial[k] = Factorial[k - 1] * k
      BY <1>5, FactorialIs
    <3>3. locking => global'[1] = Factorial[k]
      BY <2>4, <3>1, <3>2
    <3>4. (k + 1) - 1 = k
      BY <1>5
    <3>5. \A v \in LdWorker : v # w /\ locking => work'[v] \notin {"load", "store", "print"}
      BY <1>2, <1>3, <1>7
    <3>6. work'[w] = "print" => k = w + 1
      BY <1>3, <2>1
    <3>7. work'[w] # "store"
      BY <1>3
    <3> HIDE DEF k
    <3> QED
      BY <1>1, <1>6, <3>3, <3>4, <3>5, <3>6, <3>7 DEF LdProducts
  <2>7. LdCounts' /\ LdPrinted'
    BY <1>1, <1>9 DEF LdCounts, LdPrinted
  <2> QED
    BY <1>1, <1>3, <1>8, <2>5, <2>6, <2>7, ResultsStay DEF LdInv
<1>10. CASE ldProg = "mutex1"
  <2>1. /\ Cell(k) = k /\ Updated(reg[w], k) = reg[w] + 1 /\ Updates(w) = 3 /\ k \in Cells
        /\ 1 \in Cells
    BY <1>5, <1>10, LdNumbers DEF Cell, Updated, Cells
  <2>2. /\ global' \in [Cells -> Nat] /\ global'[k] = reg[w] + 1
        /\ \A c \in Cells : c # k => global'[c] = global[c]
    BY <1>1, <1>4, <1>5, <2>1
  <2>3. LdTypeOK'
    BY <1>1, <1>3, <1>6, <2>2 DEF LdInv, LdTypeOK
  <2>4. LdProducts'
    BY <1>1, <1>10 DEF LdProducts
  <2>5. locking => reg[w] = global[k]
    BY <1>3, <1>10 DEF LdInv, LdCounts
  <2>6. LdCounts'
    <3>1. /\ Initial' = Initial /\ \A c \in Cells : Initial[c] \in Nat /\ c \in Nat
      BY <1>1, <1>10 DEF Initial, Cells
    <3>2. \A c \in Cells : Cardinality(Past(c)) \in Nat /\ Cardinality(Past(c)') \in Nat
                           /\ Cardinality(Past(c)) <= Cardinality(Past(c)')
      BY <1>1, <1>4, <3>1, PastGrows, PastCounts
    <3>3. ASSUME NEW c \in Cells
          PROVE  /\ LdCounted(global[c], c)'
                 /\ Past(c)' # {} => Initial[c]' < global'[c]
                 /\ locking' => global'[c] = Initial[c]' + Cardinality(Past(c)')
      <4>1. CASE c # k
        <5>1. Past(c)' = Past(c) /\ global'[c] = global[c]
          BY <1>1, <1>4, <2>2, <3>1, <4>1, PastGrows
        <5> QED
          BY <1>1, <1>10, <3>1, <5>1 DEF LdInv, LdCounts, LdCounted
      <4>2. CASE c = k
        <5>1. Cardinality(Past(c)') = Cardinality(Past(c)) + 1
          BY <1>1, <1>4, <3>1, <4>2, PastGrows
        <5>2. /\ Initial[c] <= reg[w] /\ reg[w] <= Initial[c] + Cardinality(Past(c))
              /\ locking => reg[w] = Initial[c] + Cardinality(Past(c))
          BY <1>3, <1>10, <2>1, <2>5, <4>2 DEF LdInv, LdCounts, LdCounted
        <5>3. /\ Initial[c] <= reg[w] + 1 /\ Initial[c] < reg[w] + 1
              /\ reg[w] + 1 <= Initial[c] + (Cardinality(Past(c)) + 1)
              /\ locking => reg[w] + 1 = Initial[c] + (Cardinality(Past(c)) + 1)
          BY <1>5, <3>1, <3>2, <5>2
        <5> QED
          BY <1>1, <2>2, <3>1, <4>2, <5>1, <5>3 DEF LdCounted
      <4> QED
        BY <4>1, <4>2
    <3>4. ASSUME NEW v \in LdWorker, work'[v] = "store"
          PROVE  LdCounted(reg[v], update[v])' /\ (locking' => reg'[v] = global'[update'[v]])
      <4>1. v # w /\ work[v] = "store"
        BY <1>3, <3>4
      <4>2. ~ locking
        BY <1>2, <1>7, <4>1
      <4>3. update[v] \in Cells /\ update'[v] = update[v] /\ reg[v] \in Nat
        BY <1>4, <1>6, <1>10, <4>1, LdNumbers DEF LdInv, LdStages, Cells
      <4>4. Initial[update[v]] <= reg[v]
            /\ reg[v] <= Initial[update[v]] + Cardinality(Past(update[v]))
        BY <1>10, <4>1 DEF LdInv, LdCounts, LdCounted
      <4>5. reg[v] <= Initial[update[v]] + Cardinality(Past(update[v])')
        <5>1. \A c \in Cells : reg[v] <= Initial[c] + Cardinality(Past(c))
                               => reg[v] <= Initial[c] + Cardinality(Past(c)')
          BY <3>1, <3>2, <4>3
        <5> QED
          BY <4>3, <4>4, <5>1
      <4> QED
        BY <1>1, <3>1, <4>2, <4>3, <4>4, <4>5 DEF LdCounted, Past
    <3> QED
      BY <3>3, <3>4 DEF LdCounts
  <2>7. LdPrinted'
    <3> SUFFICES ASSUME locking, NEW v \in LdWorker, printed[v] # <<>>
                 PROVE  /\ printed[v][1] \in Nat /\ printed[v][1] <= global'[1]
                        /\ \A u \in LdWorker :
                             (work'[u] \in {"load", "store", "print"} /\ 1 < update'[u]) =>
                               printed[v][1] < global'[1]
      BY <1>1 DEF LdPrinted
    <3>1. /\ printed[v][1] \in Nat /\ printed[v][1] <= global[1]
          /\ 1 < k => printed[v][1] < global[1]
      BY <1>3, <1>10 DEF LdInv, LdPrinted
    <3>2. global[1] \in Nat /\ k # 1 => 1 < k
      BY <1>4, <1>5, <2>1
    <3>3. k = 1 => global'[1] = global[1] + 1
      BY <2>2, <2>5
    <3>4. k # 1 => global'[1] = global[1]
      BY <2>1, <2>2
    <3>5. printed[v][1] < global'[1]
      <4>1. global[1] \in Nat
        BY <1>4, <2>1
      <4> HIDE DEF k
      <4>2. CASE k = 1
        BY <3>1, <3>3, <4>1, <4>2
      <4>3. CASE k # 1
        BY <1>5, <3>1, <3>4, <4>3 DEF k
      <4> QED
        BY <4>2, <4>3
    <3> QED
      <4>1. global'[1] \in Nat
        BY <2>1, <2>2
      <4> QED
        BY <3>1, <3>5, <4>1
  <2> QED
    BY <1>1, <1>3, <1>8, <2>3, <2>4, <2>6, <2>7, ResultsStay DEF LdInv
<1> QED
  BY <1>4, <1>9, <1>10

\* A worker prints: with the lock it is alone, every other worker has counted in
\* all the cells or in none, and everything printed before it is smaller.
LEMMA LdPrintKeeps ==
  ASSUME LdInv, NEW w \in LdWorker, PrintResult(w)
  PROVE  LdInv'
<1>1. /\ UNCHANGED <<ldProg, locking, ldMain, update, reg, global>>
      /\ printed' = [printed EXCEPT ![w] = global]
  BY DEF PrintResult
<1>2. /\ "load" \in Inside /\ "store" \in Inside /\ "print" \in Inside /\ "unlock" \in Inside
      /\ "init" \in Inside /\ "lock" \notin Inside /\ "done" \notin Inside
  BY DEF Inside
<1>3. /\ work \in [LdWorker -> {"none", "lock", "done"} \cup Inside]
      /\ work' \in [LdWorker -> {"none", "lock", "done"} \cup Inside]
      /\ \A v \in LdWorker : v # w => work'[v] = work[v]
      /\ work[w] = "print"
      /\ work'[w] = IF locking THEN "unlock" ELSE "done"
      /\ ldMain # "destroyed"
  <2> DEFINE to == IF locking THEN "unlock" ELSE "done"
  <2>1. to \in {"lock", "done"} \cup Inside /\ "print" # "done"
    BY <1>2
  <2>2. Takes(w, "print", to)
    BY DEF PrintResult
  <2> HIDE DEF to
  <2>3. /\ work \in [LdWorker -> {"none", "lock", "done"} \cup Inside]
        /\ work' \in [LdWorker -> {"none", "lock", "done"} \cup Inside]
        /\ work[w] = "print" /\ work'[w] = to
        /\ \A v \in LdWorker : v # w => work'[v] = work[v]
        /\ ldMain # "destroyed"
    BY <2>1, <2>2, WorkerTakes
  <2> QED
    BY <2>3 DEF to
<1>4. /\ global \in [Cells -> Nat] /\ 1 \in Cells /\ 2 \in Cells /\ 3 \in Cells
      /\ printed \in [LdWorker -> {<<>>} \cup [Cells -> Nat]]
      /\ ldProg \in {"facto", "mutex1"} /\ locking \in BOOLEAN
  BY DEF LdInv, LdTypeOK, Cells
<1>5. /\ printed' \in [LdWorker -> {<<>>} \cup [Cells -> Nat]]
      /\ printed'[w] = global /\ \A v \in LdWorker : v # w => printed'[v] = printed[v]
  BY <1>1, <1>4
<1>6. update[w] = Updates(w) + 1 /\ printed[w] = <<>>
  BY <1>3 DEF LdInv, LdStages
<1>7. locking => \A v \in LdWorker : v # w => work[v] \notin Inside
  BY <1>2, <1>3 DEF LdInv, LdStages
<1>8. LdTypeOK'
  BY <1>1, <1>3 DEF LdInv, LdTypeOK
<1>9. LdStages'
  <2>1. \A v \in LdWorker : Updates(v)' = Updates(v)
    BY <1>1 DEF Updates
  <2> QED
    BY <1>1, <1>2, <1>3, <1>5, <1>6, <2>1 DEF LdInv, LdStages
<1>10. LdProducts'
  BY <1>1, <1>2, <1>3, <1>7 DEF LdInv, LdProducts
<1>11. LdCounts'
  <2>1. Initial' = Initial /\ \A c : Past(c)' = Past(c)
    BY <1>1 DEF Initial, Past
  <2> QED
    BY <1>1, <1>3, <2>1 DEF LdInv, LdCounts, LdCounted
<1>12. LdPrinted'
  <2>1. ASSUME locking, NEW v \in LdWorker PROVE work'[v] \notin {"load", "store", "print"}
    BY <1>2, <1>3, <1>7, <2>1
  <2>2. global[1] \in Nat /\ global[1] <= global[1]
    BY <1>4
  <2> QED
    BY <1>1, <1>5, <2>1, <2>2 DEF LdInv, LdPrinted
<1>13. ASSUME locking, ldProg = "mutex1"
       PROVE  global[2] = global[1] + 2 /\ global[3] = global[1] + 4
  <2>1. \A v \in LdWorker : update[v] \in {1, 4}
    <3>1. ASSUME NEW v \in LdWorker PROVE update[v] \in {1, 4}
      <4>1. v = w \/ work[v] \in {"none", "lock", "done"}
        BY <1>3, <1>7, <1>13
      <4> QED
        BY <1>6, <1>13, <4>1, LdNumbers DEF LdInv, LdStages
    <3> QED
      BY <3>1
  <2>2. Past(2) = Past(1) /\ Past(3) = Past(1)
    BY <2>1 DEF Past
  <2>3. Initial[1] = 10 /\ Initial[2] = 12 /\ Initial[3] = 14
    BY <1>4, <1>13 DEF Initial
  <2>4. \A c \in Cells : global[c] = Initial[c] + Cardinality(Past(c))
    BY <1>13 DEF LdInv, LdCounts
  <2> QED
    BY <1>4, <2>2, <2>3, <2>4, PastCounts
<1>14. ASSUME locking, ldProg = "mutex1", NEW v \in LdWorker, v # w, printed[v] # <<>>
       PROVE  printed[v] # global
  <2>1. 1 < update[w]
    BY <1>6, <1>14, LdNumbers
  <2>2. printed[v][1] \in Nat /\ printed[v][1] < global[1]
    BY <1>3, <1>14, <2>1 DEF LdInv, LdPrinted
  <2> QED
    BY <1>4, <2>2
<1>15. LockedResults'
  <2>1. ASSUME locking, NEW v \in LdWorker, printed'[v] # <<>>
        PROVE  IF ldProg = "facto" THEN printed'[v][1] = Factorial[v + 1]
               ELSE printed'[v][2] = printed'[v][1] + 2 /\ printed'[v][3] = printed'[v][1] + 4
    <3>1. CASE v = w
      BY <1>3, <1>4, <1>5, <1>13, <2>1, <3>1 DEF LdInv, LdProducts
    <3>2. CASE v # w
      BY <1>5, <2>1, <3>2 DEF LdInv, LockedResults
    <3> QED
      BY <3>1, <3>2
  <2>2. ASSUME locking, ldProg = "mutex1", NEW v \in LdWorker, NEW u \in LdWorker,
               v # u, printed'[v] # <<>>
        PROVE  printed'[v] # printed'[u]
    <3>1. CASE v = w
      BY <1>5, <1>14, <2>2, <3>1
    <3>2. CASE u = w
      BY <1>5, <1>14, <2>2, <3>2
    <3>3. CASE v # w /\ u # w
      BY <1>5, <2>2, <3>3 DEF LdInv, LockedResults
    <3> QED
      BY <3>1, <3>2, <3>3
  <2> QED
    BY <1>1, <1>3, <2>1, <2>2 DEF LockedResults
<1> QED
  BY <1>5, <1>8, <1>9, <1>10, <1>11, <1>12, <1>15 DEF LdInv

LEMMA LdStarts == LdInit => LdInv
<1> SUFFICES ASSUME LdInit PROVE LdInv
  OBVIOUS
<1>1. /\ ldProg \in {"facto", "mutex1"} /\ locking \in BOOLEAN /\ ldMain = "create"
      /\ work = [w \in LdWorker |-> "none"] /\ update = [w \in LdWorker |-> 1]
      /\ reg = [w \in LdWorker |-> 0] /\ global = Initial
      /\ printed = [w \in LdWorker |-> <<>>]
  BY DEF LdInit
<1>2. \A w \in LdWorker : work[w] = "none" /\ update[w] = 1 /\ reg[w] = 0 /\ printed[w] = <<>>
  BY <1>1
<1>3. /\ printed \in [LdWorker -> {<<>>} \cup [Cells -> Nat]]
      /\ global \in [Cells -> Nat]
      /\ update \in [LdWorker -> Nat \ {0}] /\ reg \in [LdWorker -> Nat]
  BY <1>1 DEF Initial, Cells
<1>4. LdTypeOK
  BY <1>1, <1>3 DEF LdTypeOK
<1>5. LdStages /\ LdProducts /\ LdPrinted
  <2>1. "none" \notin Inside
    BY DEF Inside
  <2> QED
    BY <1>1, <1>2, <2>1 DEF LdStages, LdProducts, LdPrinted
<1>6. LdCounts
  <2>1. ASSUME NEW c \in Cells PROVE Past(c) = {} /\ c \in Nat
    BY <1>2 DEF Past, Cells
  <2>2. Cardinality({}) = 0
    BY FS_EmptySet
  <2>3. \A c \in Cells : global[c] = Initial[c] /\ Initial[c] \in Nat
    BY <1>1, <1>3
  <2>4. \A c \in Cells : /\ LdCounted(global[c], c) /\ ~ (Past(c) # {})
                         /\ global[c] = Initial[c] + Cardinality(Past(c))
    BY <2>1, <2>2, <2>3 DEF LdCounted
  <2> QED
    BY <1>2, <2>4 DEF LdCounts
<1>7. LockedResults
  BY <1>1, <1>2 DEF LockedResults
<1> QED
  BY <1>3, <1>4, <1>5, <1>6, <1>7 DEF LdInv

LEMMA LdKeeps == LdInv /\ [LdNext]_ldVars => LdInv'
<1>1. CASE LdInv /\ LdNext
  BY <1>1, LdMainKeeps, LdLockKeeps, LdLoadKeeps, LdStoreKeeps, LdPrintKeeps DEF LdNext
<1>2. CASE LdInv /\ UNCHANGED ldVars
  <2>1. UNCHANGED <<ldProg, locking, ldMain, work, update, reg, global, printed>>
    BY <1>2 DEF ldVars
  <2>2. LdTypeOK' /\ LdStages'
    BY <1>2, <2>1 DEF LdInv, LdTypeOK, LdStages, Updates
  <2>3. LdProducts' /\ LdCounts' /\ LdPrinted'
    BY <1>2, <2>1, LdRest
  <2>4. LockedResults'
    BY <1>2, <2>1 DEF LdInv, LockedResults, Initial
  <2> QED
    BY <1>2, <2>1, <2>2, <2>3, <2>4 DEF LdInv
<1> QED
  BY <1>1, <1>2

\* How far the workers have multiplied and counted, with the lock and without.
THEOREM LocksInductive == LdSpec => []LdInv
BY LdStarts, LdKeeps, PTL DEF LdSpec

\* With the lock, facto prints the factorials it was asked for, and mutex1 numbers
\* that belong together and to one thread only; without it nothing is counted
\* twice.
THEOREM LockedResultsHolds == LdSpec => []LockedResults
<1>1. LdInv => LockedResults
  BY DEF LdInv
<1> QED
  BY LocksInductive, <1>1, PTL

---------------------------------------------------------------------------
(* Timers *)

\* The timers of each program, what it sets them to and what it does when woken.
LEMMA TmProgramFacts ==
  ASSUME tmProg \in TmPrograms
  PROVE  /\ tmProg.timers \subseteq Timer
         /\ tmProg.kind \in {"oneshot", "interval"}
         /\ tmProg.then = "alarm" => "real" \in tmProg.timers /\ tmProg # RunwalkTimer
         /\ tmProg \in {IntvClksimple, ThreeIntv} =>
              /\ "real" \in tmProg.timers /\ tmProg.kind = "interval"
              /\ tmProg.then = "loop" /\ tmProg # RunwalkTimer
         /\ tmProg = RunwalkTimer =>
              tmProg.timers = {"posix"} /\ tmProg.kind = "oneshot" /\ tmProg.then = "loop"
         /\ "posix" \in tmProg.timers => tmProg = RunwalkTimer
         /\ tmProg \in Alarms \/ tmProg \in {IntvClksimple, ThreeIntv} \/ tmProg = RunwalkTimer
BY DEF TmPrograms, Alarms, Alarm1, Alarm2Rep, IntvClksimple, ThreeIntv, RunwalkTimer, Timer

\* main goes on: into its loop, into pause and out of it.
LEMMA TmMainKeeps ==
  ASSUME TmInv, Arm \/ TmMain \/ SleepEnds
  PROVE  TmInv'
<1> USE DEF Timer
<1>1. /\ UNCHANGED <<tmProg, tmPending, handling, type>> /\ tmProg \in TmPrograms
      /\ timer \in [Timer -> {"off", "oneshot", "interval"}]
  BY DEF Arm, TmMain, Work, Pause, AfterPause, SleepEnds, TmInv, TmTypeOK
<1>2. LoopStart \in {"work", "toPause"}
  BY DEF LoopStart
<1>3. CASE Arm
  <2>1. \/ /\ timer' = [t \in Timer |-> IF t \in tmProg.timers THEN tmProg.kind ELSE "off"]
           /\ itmrspec' = IF tmProg = RunwalkTimer THEN type ELSE "none"
           /\ tmMain' = LoopStart
        \/ tmMain' = "exit" /\ UNCHANGED <<timer, itmrspec>>
    BY <1>3 DEF Arm
  <2>2. /\ timer' \in [Timer -> {"off", "oneshot", "interval"}]
        /\ \A t \in Timer : timer'[t] # "off" => t \in tmProg.timers
        /\ tmMain' # "exit" =>
             /\ tmProg \in {IntvClksimple, ThreeIntv} => timer'["real"] = "interval"
             /\ tmProg = RunwalkTimer => timer'["posix"] # "off"
    BY <1>1, <1>2, <2>1, TmProgramFacts DEF TmInv
  <2>3. /\ tmMain' \in {"work", "toPause", "exit"} /\ itmrspec' \in {"none", "run", "walk"}
        /\ (tmProg = RunwalkTimer /\ timer'["posix"] # "off") => itmrspec' = type
    BY <1>1, <1>2, <2>1 DEF TmInv, TmTypeOK, TimersHonest
  <2> QED
    BY <1>1, <2>2, <2>3 DEF TmInv, TmTypeOK, TmTicking, TimersHonest, Asleep
<1>4. CASE TmMain \/ SleepEnds
  <2>1. /\ tmMain \in {"work", "toPause", "paused", "woken"} /\ itmrspec' = itmrspec
        /\ tmMain' \in {"work", "toPause", "paused", "woken", "exit"}
        /\ \/ timer' = timer
           \/ timer' = [timer EXCEPT !["real"] = "oneshot"] /\ tmProg.then = "alarm"
    BY <1>2, <1>4 DEF TmMain, Work, Pause, AfterPause, SleepEnds
  <2>2. /\ timer' \in [Timer -> {"off", "oneshot", "interval"}]
        /\ \A t \in Timer : timer'[t] # "off" => t \in tmProg.timers
        /\ timer'["posix"] = timer["posix"]
        /\ tmProg \in {IntvClksimple, ThreeIntv} => timer' = timer
    BY <1>1, <2>1, TmProgramFacts DEF TmInv
  <2>3. TmTicking'
    BY <1>1, <2>1, <2>2 DEF TmInv, TmTicking
  <2>4. TimersHonest'
    BY <1>1, <2>1, <2>2, <2>3, TmProgramFacts DEF TmInv, TimersHonest, TmTicking, Asleep
  <2> QED
    BY <1>1, <2>1, <2>2, <2>3, <2>4 DEF TmInv, TmTypeOK
<1> QED
  BY <1>3, <1>4

\* A timer expires; handlers run, fail, or end the program.
LEMMA TmKernelKeeps ==
  ASSUME TmInv, (\E t \in Timer : Expire(t)) \/ Handlers \/ HandlerFails \/ Bye
  PROVE  TmInv'
<1> USE DEF Timer
<1>1. /\ tmProg' = tmProg /\ tmProg \in TmPrograms
      /\ timer \in [Timer -> {"off", "oneshot", "interval"}]
  BY DEF Expire, Handlers, EnterHandler, HandlerReturns, ItsTime, HandlerFails, Bye,
         TmInv, TmTypeOK
<1>2. ASSUME NEW t \in Timer, Expire(t) PROVE TmInv'
  <2>1. /\ timer[t] # "off" /\ tmMain # "exit" /\ tmPending' = tmPending \cup {t}
        /\ timer' = IF timer[t] = "oneshot" THEN [timer EXCEPT ![t] = "off"] ELSE timer
        /\ UNCHANGED <<tmMain, handling, type, itmrspec>>
    BY <1>2 DEF Expire
  <2>2. /\ timer' \in [Timer -> {"off", "oneshot", "interval"}]
        /\ \A u \in Timer : timer'[u] # "off" => timer[u] # "off" /\ timer'[u] = timer[u]
        /\ \A u \in Timer : timer[u] = "interval" => timer'[u] = "interval"
        /\ \A u \in Timer : u # t => timer'[u] = timer[u]
    BY <1>1, <2>1
  <2>3. TmTypeOK'
    BY <1>1, <2>1, <2>2 DEF TmInv, TmTypeOK
  <2>4. TmTicking'
    BY <1>1, <2>1, <2>2 DEF TmInv, TmTicking
  <2>5. ~ Asleep'
    BY <2>1 DEF Asleep
  <2> QED
    BY <1>1, <2>1, <2>2, <2>3, <2>4, <2>5 DEF TmInv, TimersHonest
<1>3. ASSUME NEW t \in Timer, EnterHandler(t) PROVE TmInv'
  <2>1. /\ handling = "none" /\ handling' = t /\ t \in tmPending /\ tmPending' = tmPending \ {t}
        /\ tmMain # "exit" /\ tmMain' \in {tmMain, "woken"} /\ UNCHANGED <<timer, type, itmrspec>>
        /\ tmMain = "setup" => tmMain' = "setup"
    BY <1>3 DEF EnterHandler
  <2>2. TmTypeOK'
    BY <1>1, <2>1 DEF TmInv, TmTypeOK
  <2>3. TmTicking'
    BY <1>1, <2>1 DEF TmInv, TmTicking
  <2>4. ~ Asleep'
    BY <2>1 DEF Asleep
  <2> QED
    BY <1>1, <2>1, <2>2, <2>3, <2>4 DEF TmInv, TimersHonest
<1>4. ASSUME NEW t \in Timer, HandlerReturns(t) PROVE TmInv'
  <2>1. /\ handling = t /\ t # "posix" /\ handling' = "none"
        /\ UNCHANGED <<tmMain, timer, tmPending, type, itmrspec>>
    BY <1>4 DEF HandlerReturns
  <2>2. TmTypeOK' /\ TmTicking'
    BY <1>1, <2>1 DEF TmInv, TmTypeOK, TmTicking
  <2>3. Asleep' => tmProg \in Alarms
    <3>1. SUFFICES ASSUME Asleep' PROVE tmProg \in Alarms
      OBVIOUS
    <3>2. tmMain' = "paused" /\ tmPending' = {} /\ timer'["real"] = "off" /\ timer'["posix"] = "off"
      BY <3>1 DEF Asleep
    <3> QED
      BY <1>1, <2>1, <2>2, <3>2, TmProgramFacts DEF TmTicking
  <2> QED
    BY <1>1, <2>1, <2>2, <2>3 DEF TmInv, TimersHonest
<1>5. CASE ItsTime
  <2>1. /\ handling = "posix" /\ handling' = "none" /\ UNCHANGED <<tmMain, tmPending>>
        /\ itmrspec' = IF type = "walk" THEN "run" ELSE "walk"
        /\ type' = IF type = "run" THEN "walk" ELSE "run"
        /\ timer' = [timer EXCEPT !["posix"] = "oneshot"]
    BY <1>5 DEF ItsTime, Other
  <2>2. /\ timer' \in [Timer -> {"off", "oneshot", "interval"}] /\ timer'["posix"] = "oneshot"
        /\ \A u \in Timer : u # "posix" => timer'[u] = timer[u]
        /\ "posix" \in tmProg.timers
    BY <1>1, <2>1 DEF TmInv, TmTypeOK
  <2>3. type \in {"run", "walk"}
    BY DEF TmInv, TmTypeOK
  <2>4. TmTypeOK'
    BY <1>1, <2>1, <2>2, <2>3 DEF TmInv, TmTypeOK
  <2>5. TmTicking'
    BY <1>1, <2>1, <2>2 DEF TmInv, TmTicking
  <2>6. ~ Asleep'
    BY <2>2 DEF Asleep
  <2> QED
    BY <1>1, <2>1, <2>2, <2>3, <2>4, <2>5, <2>6 DEF TmInv, TimersHonest
<1>6. CASE HandlerFails \/ Bye
  <2>1. tmMain' = "exit" /\ handling' \in {handling, "none"}
        /\ UNCHANGED <<timer, tmPending, type, itmrspec>>
    BY <1>6 DEF HandlerFails, Bye
  <2> QED
    BY <1>1, <2>1 DEF TmInv, TmTypeOK, TmTicking, TimersHonest, Asleep
<1> QED
  BY <1>2, <1>3, <1>4, <1>5, <1>6 DEF Handlers

\* Which timers are on while a program runs.
THEOREM TimersInductive == TmInit /\ [][TmNext]_tmVars => []TmInv
<1>1. TmInit => TmInv
  BY DEF TmInit, TmInv, TmTypeOK, TmTicking, TimersHonest, Asleep, Timer
<1>2. TmInv /\ [TmNext]_tmVars => TmInv'
  <2>1. ASSUME TmInv, UNCHANGED tmVars PROVE TmInv'
    BY <2>1 DEF TmInv, TmTypeOK, TmTicking, TimersHonest, Asleep, tmVars
  <2> QED
    BY <2>1, TmMainKeeps, TmKernelKeeps DEF TmNext
<1> QED
  BY <1>1, <1>2, PTL

\* Only alarm1 and alarm2 may pause for good, their signal handled too early, and
\* runwalk's timer runs for the period the program is in.
THEOREM TimersHonestHolds == TmSpec => []TimersHonest
<1>1. TmInv => TimersHonest
  BY DEF TmInv
<1> QED
  BY TimersInductive, <1>1, PTL DEF TmSpec

---------------------------------------------------------------------------
(* SigThreads *)

\* The next thread has the number of those there are.
LEMMA StNextThread ==
  ASSUME created \in {{}, {0}, 0..1, 0..2}, created # 0..2
  PROVE  /\ created \cup {Cardinality(created)} \in {{}, {0}, 0..1, 0..2}
         /\ Cardinality(created) \in 0..2
<1>1. 0..1 = {0, 1} /\ 0..2 = {0, 1, 2}
  OBVIOUS
<1>2. Cardinality({}) = 0 /\ Cardinality({0}) = 1
  BY FS_EmptySet, FS_Singleton
<1>3. Cardinality(0..1) = 2
  <2>1. 0 \in Int /\ 1 \in Int
    OBVIOUS
  <2>2. Cardinality(0..1) = IF 0 > 1 THEN 0 ELSE 1 - 0 + 1
    BY <2>1, FS_Interval, Zenon
  <2> QED
    BY <2>2
<1>4. CASE created = {}
  BY <1>1, <1>2, <1>4
<1>5. CASE created = {0}
  BY <1>1, <1>2, <1>5
<1>6. CASE created = 0..1
  BY <1>1, <1>3, <1>6
<1> QED
  BY <1>4, <1>5, <1>6

\* main blocks the signals, creates the threads and joins the workers.
LEMMA StMainKeeps ==
  ASSUME StInv, \/ MaskSignals \/ Create \/ CreateFails \/ AllCreated
                \/ \E w \in Workers : JoinWorker(w)
  PROVE  StInv'
<1>1. CASE MaskSignals
  BY <1>1 DEF MaskSignals, Alive, stSig, StInv, StTypeOK, StMasked, SignalsSafe, Main
<1>2. CASE Create
  <2>1. /\ created' = created \cup {Cardinality(created)} /\ created # 0..2 /\ stMain = "create"
        /\ UNCHANGED <<stProg, stMain, ended, stPending, sends, taking, signal_handled, killed>>
    BY <1>2 DEF Create, stSig
  <2>2. created' \in {{}, {0}, 0..1, 0..2} /\ created \subseteq created'
    BY <2>1, StNextThread DEF StInv, StTypeOK
  <2>3. Main \notin unblocked
    BY <2>1 DEF StInv, StMasked
  <2>4. unblocked' = unblocked
    BY <1>2, <2>3 DEF Create
  <2>5. /\ pstToThread' \in [Workers -> {"none", "live", "freed"}]
        /\ \A w \in Workers : pstToThread'[w] = "freed" => pstToThread[w] = "freed"
    <3>1. \/ pstToThread' = pstToThread
          \/ \E w \in Workers : pstToThread' = [pstToThread EXCEPT ![w] = "live"]
      BY <1>2 DEF Create
    <3> QED
      BY <3>1 DEF StInv, StTypeOK
  <2> QED
    BY <2>1, <2>2, <2>4, <2>5 DEF StInv, StTypeOK, StMasked, SignalsSafe
<1>3. CASE CreateFails \/ AllCreated
  BY <1>3 DEF CreateFails, AllCreated, Alive, stThreads, stSig, StInv, StTypeOK, StMasked,
              SignalsSafe
<1>4. ASSUME NEW w \in Workers, JoinWorker(w) PROVE StInv'
  <2>1. /\ w \in ended /\ pstToThread' = [pstToThread EXCEPT ![w] = "freed"]
        /\ ~ killed /\ stMain \in {"join1", "join2"} /\ stMain' \in {"join2", "joinHandler"}
        /\ UNCHANGED <<stProg, created, unblocked, ended, stPending, sends, taking,
                       signal_handled, killed>>
    BY <1>4 DEF JoinWorker, Alive, stSig, Workers
  <2> QED
    BY <2>1 DEF StInv, StTypeOK, StMasked, SignalsSafe
<1> QED
  BY <1>1, <1>2, <1>3, <1>4

\* The threads work and take signals, which are sent and may end the process.
LEMMA StThreadsKeep ==
  ASSUME StInv, \/ \E w \in Workers : WorkerEnds(w)
                \/ \E n \in StSignal : SendSignal(n)
                \/ KilledBySignal \/ Sigwait \/ SignalHandler
  PROVE  StInv'
<1>1. ASSUME NEW w \in Workers, WorkerEnds(w) PROVE StInv'
  BY <1>1 DEF WorkerEnds, stSig, StInv, StTypeOK, StMasked, SignalsSafe
<1>2. ASSUME NEW n \in StSignal, SendSignal(n) PROVE StInv'
  <2>1. sends' \in 0..StSends
    BY <1>2, StAssumption DEF SendSignal, StInv, StTypeOK
  <2> QED
    BY <1>2, <2>1 DEF SendSignal, stThreads, StInv, StTypeOK, StMasked, SignalsSafe
<1>3. CASE KilledBySignal
  BY <1>3 DEF KilledBySignal, Alive, stThreads, StInv, StTypeOK, StMasked, SignalsSafe
<1>4. CASE Sigwait
  BY <1>4 DEF Sigwait, stThreads, StInv, StTypeOK, StMasked, SignalsSafe
<1>5. CASE SignalHandler
  BY <1>5 DEF SignalHandler, stThreads, StInv, StTypeOK, StMasked, SignalsSafe
<1> QED
  BY <1>1, <1>2, <1>3, <1>4, <1>5

\* Who blocks the signals.
THEOREM SigThreadsInductive == StInit /\ [][StNext]_stVars => []StInv
<1>1. ASSUME StInit PROVE StInv
  <2>1. 0 \in 0..StSends
    BY StAssumption
  <2>2. /\ pstToThread \in [Workers -> {"none", "live", "freed"}]
        /\ \A w \in Workers : pstToThread[w] # "freed"
    BY <1>1 DEF StInit
  <2> QED
    BY <1>1, <2>1, <2>2 DEF StInit, StInv, StTypeOK, StMasked, SignalsSafe
<1>2. StInv /\ [StNext]_stVars => StInv'
  <2>1. ASSUME StInv, UNCHANGED stVars PROVE StInv'
    BY <2>1 DEF StInv, StTypeOK, StMasked, SignalsSafe, stVars, stThreads, stSig
  <2> QED
    BY <2>1, StMainKeeps, StThreadsKeep DEF StNext
<1> QED
  BY <1>1, <1>2, PTL

\* No signal ends the process once main has blocked them, and no parameter is
\* freed under its worker.
THEOREM SignalsSafeHolds == StSpec => []SignalsSafe
<1>1. StInv => SignalsSafe
  BY DEF StInv
<1> QED
  BY SigThreadsInductive, <1>1, PTL DEF StSpec

---------------------------------------------------------------------------
(* SharedMutex *)

\* main sets up, waits for both, and shows what they have written.
LEMMA PsMainKeeps ==
  ASSUME PsInv, PsMain
  PROVE  PsInv'
<1> USE DEF PsInv, PsTypeOK, PsStages, PsOwned, PsCut, SharedMutexSafe, Party
<1>1. CASE ShmemSetup
  BY <1>1 DEF ShmemSetup
<1>2. CASE InitOnce
  BY <1>2 DEF InitOnce
<1>3. CASE CreateWorker
  BY <1>3 DEF CreateWorker
<1>4. CASE ForkChild
  BY <1>4 DEF ForkChild
<1>5. CASE WaitForChild
  BY <1>5 DEF WaitForChild
<1>6. CASE JoinThread
  BY <1>6 DEF JoinThread
<1>7. CASE Showbuf
  BY <1>7 DEF Showbuf
<1>8. CASE RemoveSegment
  BY <1>8 DEF RemoveSegment
<1> QED
  BY <1>1, <1>2, <1>3, <1>4, <1>5, <1>6, <1>7, <1>8 DEF PsMain

\* The worker thread writes under the mutex, or a call of its fails.
LEMMA PsWorkerKeeps ==
  ASSUME PsInv, PsWorker \/ WorkerFails
  PROVE  PsInv'
<1> USE DEF PsInv, PsTypeOK, PsStages, PsOwned, PsCut, SharedMutexSafe, Party
<1>1. CASE WorkerLocks
  BY <1>1 DEF WorkerLocks
<1>2. CASE WorkerWrites
  BY <1>2 DEF WorkerWrites, WrittenOver
<1>3. CASE WorkerUnlocks
  BY <1>3 DEF WorkerUnlocks
<1>4. CASE WorkerFails
  BY <1>4 DEF WorkerFails
<1> QED
  BY <1>1, <1>2, <1>3, <1>4 DEF PsWorker

\* The child does, and may be killed at any point.
LEMMA PsChildKeeps ==
  ASSUME PsInv, PsChild \/ ChildKilled
  PROVE  PsInv'
<1> USE DEF PsInv, PsTypeOK, PsStages, PsOwned, PsCut, SharedMutexSafe, Party
<1>1. CASE ChildOnce
  BY <1>1 DEF ChildOnce
<1>2. CASE ChildLocks
  BY <1>2 DEF ChildLocks
<1>3. CASE ChildWrites
  BY <1>3 DEF ChildWrites, WrittenOver
<1>4. CASE ChildUnlocks
  BY <1>4 DEF ChildUnlocks
<1>5. CASE ChildKilled
  BY <1>5 DEF ChildKilled
<1> QED
  BY <1>1, <1>2, <1>3, <1>4, <1>5 DEF PsChild

\* Who owns the mutex, and whose part of the buffer is torn.
THEOREM SharedMutexInductive == PsSpec => []PsInv
<1>1. PsInit => PsInv
  <2> SUFFICES ASSUME PsInit PROVE PsInv
    OBVIOUS
  <2>1. /\ buf \in [Party -> {"empty", "torn", "whole", "cut"}]
        /\ \A q \in Party : buf[q] = "empty"
        /\ longPid \in BOOLEAN /\ segments \subseteq {1, 2}
    BY DEF PsInit, Party
  <2>2. PsTypeOK
    BY <2>1 DEF PsInit, PsTypeOK
  <2>3. PsStages /\ PsOwned
    BY <2>1 DEF PsInit, PsStages, PsOwned, Party
  <2>4. PsCut /\ SharedMutexSafe
    BY <2>1 DEF PsInit, PsCut, SharedMutexSafe, Party
  <2> QED
    BY <2>2, <2>3, <2>4 DEF PsInit, PsInv
<1>2. PsInv /\ [PsNext]_psVars => PsInv'
  <2>1. ASSUME PsInv, UNCHANGED psVars PROVE PsInv'
    BY <2>1 DEF PsInv, PsTypeOK, PsStages, PsOwned, PsCut, SharedMutexSafe, psVars
  <2> QED
    BY <2>1, PsMainKeeps, PsWorkerKeeps, PsChildKeeps DEF PsNext
<1> QED
  BY <1>1, <1>2, PTL DEF PsSpec

\* Wherever the child is killed and however long its pid is: what main shows is
\* there to the end where its writer came to one, of two overlapping parts one is
\* whole, never are both torn, and the segments are gone at the end.
THEOREM SharedMutexSafeHolds == PsSpec => []SharedMutexSafe
<1>1. PsInv => SharedMutexSafe
  BY DEF PsInv
<1> QED
  BY SharedMutexInductive, <1>1, PTL

---------------------------------------------------------------------------
(* The composition keeps what the programs keep. *)

\* Every program's invariant, the chosen one's and those of the others.
THEOREM ProgramsInductive ==
  Spec => [](/\ CpInv /\ ShInv /\ OfInv /\ DmInv /\ SgInv /\ PvInv /\ ReInv /\ TmInv
             /\ ScInv /\ SiInv /\ FhInv /\ StInv /\ TlInv /\ PsInv /\ LdInv /\ SdInv)
BY EachProgramRuns, SimpCpInductive, ShellsInductive, OffsetInductive, DaemonInductive,
   SgioInductive, PrivilegesInductive, ReactInductive, TimersInductive, SigCountInductive,
   SigIpcInductive, FaultInductive, SigThreadsInductive, ThreadLifeInductive,
   SharedMutexInductive, LocksInductive, SchedInductive, PTL

\* The variables of every program have their types.
THEOREM TypeCorrect == Spec => []ProgramsTypeOK
<1>1. (/\ CpInv /\ ShInv /\ OfInv /\ DmInv /\ SgInv /\ PvInv /\ ReInv /\ TmInv
       /\ ScInv /\ SiInv /\ FhInv /\ StInv /\ TlInv /\ PsInv /\ LdInv /\ SdInv)
        => ProgramsTypeOK
  BY DEF ProgramsTypeOK, CpInv, ShInv, OfInv, DmInv, SgInv, PvInv, ReInv, TmInv, ScInv,
         SiInv, FhInv, StInv, TlInv, PsInv, LdInv, SdInv
<1> QED
  BY <1>1, ProgramsInductive, PTL

\* The programs that write files: where no transfer of a copy is short, what it has
\* written is the source; serial writers get every line to its place, overlapping
\* ones keep those of the last to seek; sgio_simple lays out one file in three ways.
THEOREM FileContentsHolds == Spec => []FileContents
<1>1. CopyFaithful /\ RightWhenSerial /\ LastSeekerKeepsLines /\ SetupAllOrNothing /\ SameLayout
        => FileContents
  BY DEF FileContents
<1> QED
  BY <1>1, EachProgramRuns, CopyFaithfulHolds, RightWhenSerialHolds, LastSeekerKeepsLinesHolds,
     SgioHolds, PTL

\* The shells prompt for every command once, and know what runs behind them.
THEOREM ProgramsPromptBalance == Spec => []PromptBalance
BY EachProgramRuns, PromptBalanceHolds, PTL

\* The daemon has let go of what it inherited.
THEOREM ProgramsDaemonDetached == Spec => []DaemonDetached
BY EachProgramRuns, DaemonDetachedHolds, PTL

\* Privileges go in the order the programs give them up.
THEOREM ProgramsPrivilegeOrder == Spec => []PrivilegeOrder
BY EachProgramRuns, PrivilegeOrderHolds, PTL

\* A press after the message is never told to have jumped the gun, and what the
\* other parts of FairVerdict say.
THEOREM ProgramsFairVerdict == Spec => []FairVerdict
BY EachProgramRuns, FairVerdictHolds, PTL

\* The programs that count, queue and report signals: a handler that cannot nest
\* counts each one, a message is displayed unless the next replaced it or it was
\* late, and no fault is reported twice.
THEOREM SignalsAccountedHolds == Spec => []SignalsAccounted
<1>1. SignalsCounted /\ MessageAccounted /\ FaultReportedOnce => SignalsAccounted
  BY DEF SignalsAccounted
<1> QED
  BY <1>1, EachProgramRuns, SignalsCountedHolds, MessageAccountedHolds,
     FaultReportedOnceHolds, PTL

\* What a thread is handed, computes and is made is its own.
THEOREM ThreadsKeepTheirOwnHolds == Spec => []ThreadsKeepTheirOwn
<1>1. ParamsOutlive /\ LockedResults /\ ChangesTheAskedThread => ThreadsKeepTheirOwn
  BY DEF ThreadsKeepTheirOwn
<1> QED
  BY <1>1, EachProgramRuns, ParamsOutliveHolds, LockedResultsHolds,
     ChangesTheAskedThreadHolds, PTL

=============================================================================
