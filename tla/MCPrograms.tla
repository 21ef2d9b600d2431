----------------------------- MODULE MCPrograms -----------------------------
(***************************************************************************)
(* The stand-alone programs, checked in one run.  They share nothing: the  *)
(* initial state chooses one of them, and the others stay where they are,  *)
(* each in one of its initial states.                                      *)
(***************************************************************************)
EXTENDS SimpCp, Shells, SharedOffset, Daemon, SgFile, Privileges, React, Timers,
        SigCount, SigIpc, FaultHandlers, SigThreads, ThreadLife, SharedMutex,
        LockDemos, SchedThreads

VARIABLE program

vars == <<program, cpVars, shVars, ofVars, dmVars, sgVars, pvVars, reVars, tmVars,
          scVars, siVars, fhVars, stVars, tlVars, psVars, ldVars, sdVars>>

Init ==
  /\ program \in {"copy", "shell", "offset", "daemon", "sgio", "privileges",
                  "react", "timers", "sigcount", "sigipc", "fault", "sigthreads",
                  "threads", "shared", "locks", "sched"}
  /\ CpInit /\ (program # "copy" => cpProgram = "simpcp1" /\ srcLen = 0 /\ oldLen = 0)
  /\ ShInit /\ (program # "shell" => shProgram = "v1")
  /\ OfInit
  /\ DmInit /\ (program # "daemon" =>
       DOMAIN fds["daemon"] = Std /\ ~ handlers["daemon"] /\ mask["daemon"] = {})
  /\ SgInit /\ (program # "sgio" => sgWay = "normal")
  /\ PvInit /\ (program # "privileges" =>
       pvProgram = "savedset" /\ ruid = Root)
  /\ ReInit
  /\ TmInit /\ (program # "timers" => tmProg = Alarm1)
  /\ ScInit /\ (program # "sigcount" => scProg = RtsigsWaiter)
  /\ SiInit
  /\ FhInit /\ (program # "fault" => fhProg = Sigwt)
  /\ StInit /\ (program # "sigthreads" => stProg = "tsig")
  /\ TlInit /\ (program # "threads" => tlProg = Pthreads1)
  /\ PsInit
  /\ LdInit /\ (program # "locks" => ldProg = "facto" /\ locking)
  /\ SdInit /\ (program # "sched" =>
       sdProg = "sched_rt_eg" /\ asked.prio = 0)

\* Program p takes a step, and no other.
Only(p) ==
  /\ program = p /\ UNCHANGED program
  /\ p # "copy" => UNCHANGED cpVars
  /\ p # "shell" => UNCHANGED shVars
  /\ p # "offset" => UNCHANGED ofVars
  /\ p # "daemon" => UNCHANGED dmVars
  /\ p # "sgio" => UNCHANGED sgVars
  /\ p # "privileges" => UNCHANGED pvVars
  /\ p # "react" => UNCHANGED reVars
  /\ p # "timers" => UNCHANGED tmVars
  /\ p # "sigcount" => UNCHANGED scVars
  /\ p # "sigipc" => UNCHANGED siVars
  /\ p # "fault" => UNCHANGED fhVars
  /\ p # "sigthreads" => UNCHANGED stVars
  /\ p # "threads" => UNCHANGED tlVars
  /\ p # "shared" => UNCHANGED psVars
  /\ p # "locks" => UNCHANGED ldVars
  /\ p # "sched" => UNCHANGED sdVars

Next ==
  \/ Only("copy") /\ CpNext
  \/ Only("shell") /\ ShNext
  \/ Only("offset") /\ OfNext
  \/ Only("daemon") /\ DmNext
  \/ Only("sgio") /\ SgNext
  \/ Only("privileges") /\ PvNext
  \/ Only("react") /\ ReNext
  \/ Only("timers") /\ TmNext
  \/ Only("sigcount") /\ ScNext
  \/ Only("sigipc") /\ SiNext
  \/ Only("fault") /\ FhNext
  \/ Only("sigthreads") /\ StNext
  \/ Only("threads") /\ TlNext
  \/ Only("shared") /\ PsNext
  \/ Only("locks") /\ LdNext
  \/ Only("sched") /\ SdNext

\* Each program's own fairness, which asks nothing of a program that was not
\* chosen: nothing of it is enabled; a program that states none may stop anywhere.
Fairness == ShFairness /\ TmFairness /\ StFairness /\ PsFairness

Spec == Init /\ [][Next]_vars /\ Fairness

---------------------------------------------------------------------------
(* Properties. *)

ProgramsTypeOK ==
  /\ CpTypeOK /\ ShTypeOK /\ OfTypeOK /\ DmTypeOK /\ SgTypeOK /\ PvTypeOK
  /\ ReTypeOK /\ TmTypeOK /\ ScTypeOK /\ SiTypeOK /\ FhTypeOK /\ StTypeOK
  /\ TlTypeOK /\ PsTypeOK /\ LdTypeOK /\ SdTypeOK

\* What simpcp1, simpcp2, fork_r6_of and sgio_simple write into their files: a copy
\* no transfer of which was short is the source as far as it came; the lines of two
\* processes are at their places, or those of the last to seek survive; and the
\* three ways of sgio_simple lay out the same file, as far as each comes.  (What the
\* copiers promise beyond this is judged by DestOverwritten, and by CopyComplete of
\* MtCopy, which has the transfer loops of simpcp2.)
FileContents ==
  /\ CopyFaithful
  /\ RightWhenSerial /\ LastSeekerKeepsLines
  /\ SetupAllOrNothing /\ SameLayout

\* What becomes of each signal: counted by its handler (nested ones may count
\* short), put into the record sigq_recv displays (unless the next one replaces it
\* or it comes too late for main), reported at most once by the fault handlers,
\* after which no program goes on.  (The core that the template is to leave is
\* judged by TemplateDumpsCore.)
SignalsAccounted == SignalsCounted /\ MessageAccounted /\ FaultReportedOnce

\* What a thread is handed, computes and is made is its own: the parameters of
\* ch14, the locked globals of ch15, the policies of ch17.
ThreadsKeepTheirOwn == ParamsOutlive /\ LockedResults /\ ChangesTheAskedThread

=============================================================================
