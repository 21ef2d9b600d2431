---------------------------- MODULE FaultHandlers ----------------------------
(***************************************************************************)
(* The programs that catch a fatal signal with sigaction:                  *)
(*   ch12/handle_segv.c and the assignments' segv_altstack.c and           *)
(*   sigtmwtinfo.c report SIGSEGV, reset it and raise it again;            *)
(*   ch11/altstack.c reports it and aborts;                                *)
(*   ch12/sigwt.c (option 1) catches SIGFPE only;                          *)
(*   ch16/pthreads_app_template.c handles SIGSEGV, SIGBUS, SIGABRT, SIGFPE *)
(*   and SIGILL in any of its threads ("FPE" stands for the last four).    *)
(*                                                                         *)
(* A handler runs with its own signal blocked; sigaltstack sets the stack  *)
(* of the calling thread, and a thread starts with none.                   *)
(***************************************************************************)
EXTENDS Naturals

VARIABLES
  fhProg,     \* which program
  fh,         \* control point of the thread the signal goes to
  fhThread,   \* that thread: "main" or "other"
  altStack,   \* the threads that have an alternate signal stack
  sigNo,      \* the signal: "SEGV", "FPE"
  cause,      \* "access", "overflow" (of the alternate stack) or "kill"
  segvAction, \* "handler" or "default"
  raised,     \* SIGSEGV is pending and blocked
  reports,    \* how often the diagnostics have been written
  died        \* how the process ended: "core", "exit1"

fhSetup == <<fhProg, altStack>>
fhSignal == <<fhThread, sigNo, cause>>
fhVars == <<fhSetup, fhSignal, fh, segvAction, raised, reports, died>>

\* altstack: main sets one up;  flag: the handlers have SA_ONSTACK
\* catches:  the signals with a handler;  reports: those it writes diagnostics of
\* causes:   what SIGSEGV can come of, besides kill
\* then:     after the report, abort, raise, or raise and exit(1)
\* waits:    main waits in a call that a handler makes fail
HandleSegv == [altstack |-> TRUE, flag |-> FALSE, catches |-> {"SEGV"}, reports |-> {"SEGV"},
               causes |-> {"access"}, then |-> "raise", waits |-> FALSE]
SegvAltstack == [altstack |-> TRUE, flag |-> TRUE, catches |-> {"SEGV"}, reports |-> {"SEGV"},
                 causes |-> {"overflow"}, then |-> "raise", waits |-> FALSE]
Altstack == [SegvAltstack EXCEPT !.then = "abort"]
Sigtmwtinfo == [altstack |-> FALSE, flag |-> FALSE, catches |-> {"SEGV", "FPE"}, reports |-> {"SEGV"},
                causes |-> {"access"}, then |-> "raise", waits |-> TRUE]
Sigwt == [altstack |-> FALSE, flag |-> FALSE, catches |-> {"FPE"}, reports |-> {},
          causes |-> {}, then |-> "none", waits |-> FALSE]
Template == [altstack |-> TRUE, flag |-> TRUE, catches |-> {"SEGV", "FPE"}, reports |-> {"SEGV", "FPE"},
             causes |-> {}, then |-> "exit", waits |-> FALSE]

FhPrograms == {HandleSegv, SegvAltstack, Altstack, Sigtmwtinfo, Sigwt, Template}

FhInit ==
  /\ fhProg \in FhPrograms
  /\ fh = "setup" /\ altStack = {}
  /\ fhThread = "main" /\ sigNo = "none" /\ cause = "none"
  /\ segvAction = "default" /\ raised = FALSE
  /\ reports = 0 /\ died = "no"

Dies(how) == fh' = "dead" /\ died' = how

\* setup_altsigstack, where there is one, then sigaction.
SetupHandlers ==
  /\ fh = "setup"
  /\ \/ /\ fh' = "run"
        /\ altStack' = IF fhProg.altstack THEN {"main"} ELSE {}
        /\ segvAction' = IF "SEGV" \in fhProg.catches THEN "handler" ELSE "default"
        /\ UNCHANGED died
     \/ Dies("exit1") /\ UNCHANGED <<altStack, segvAction>>
  /\ UNCHANGED <<fhProg, fhSignal, raised, reports>>

\* An invalid access of its own, the handlers of SIGUSR1 that nest until the
\* alternate stack is full, or kill; in the template, to any of its threads.
Fault ==
  /\ fh = "run"
  /\ cause' \in fhProg.causes \cup {"kill"}
  /\ sigNo' \in (IF cause' = "kill" THEN fhProg.catches \cup {"SEGV"} ELSE {"SEGV"})
  /\ fhThread' \in (IF fhProg = Template THEN {"main", "other"} ELSE {"main"})
  /\ fh' = "deliver"
  /\ UNCHANGED <<fhSetup, segvAction, raised, reports, died>>

\* The handler runs on the alternate stack of its thread, if that has one.
OnAltStack == fhProg.flag /\ fhThread \in altStack

\* The kernel: no handler, or no room for its frame, and the process dies.
DefaultAction ==
  /\ fh = "deliver"
  /\ sigNo = "SEGV" /\ (segvAction = "default" \/ (cause = "overflow" /\ OnAltStack))
  /\ Dies("core")
  /\ UNCHANGED <<fhSetup, fhSignal, segvAction, raised, reports>>

EnterFaultHandler ==
  /\ fh = "deliver"
  /\ (sigNo = "SEGV") => (segvAction = "handler")
  /\ fh' = "handler"
  /\ UNCHANGED <<fhSetup, fhSignal, segvAction, raised, reports, died>>

\* The report; the handlers of sigtmwtinfo and sigwt pass over the other signal.
Report ==
  /\ fh = "handler"
  /\ reports' = reports + (IF sigNo \in fhProg.reports THEN 1 ELSE 0)
  /\ fh' = IF sigNo \notin fhProg.reports THEN "return"
           ELSE IF fhProg.then = "abort" THEN "abort" ELSE "reset"
  /\ UNCHANGED <<fhSetup, fhSignal, segvAction, raised, died>>

Abort ==
  /\ fh = "abort" /\ Dies("core")
  /\ UNCHANGED <<fhSetup, fhSignal, segvAction, raised, reports>>

\* Mutant of ResetSegv: SIGSEGV keeps its handler.
ResetForgotten ==
  /\ fh = "reset" /\ fh' = "raise"
  /\ UNCHANGED <<fhSetup, fhSignal, segvAction, raised, reports, died>>

\* signal(SIGSEGV, SIG_DFL); its failure is FATAL, and only a message in the
\* template (left out: nothing makes this call fail).
ResetSegv ==
  /\ fh = "reset"
  /\ \/ fh' = "raise" /\ segvAction' = "default" /\ UNCHANGED died
     \/ Dies("exit1") /\ fhProg.then # "exit" /\ UNCHANGED segvAction
  /\ UNCHANGED <<fhSetup, fhSignal, raised, reports>>

\* raise(SIGSEGV) takes effect at once, unless this is its own handler.  The
\* template calls exit(1) next, the others return.
RaiseSegv ==
  /\ fh = "raise"
  /\ IF sigNo = "SEGV"
     THEN raised' = TRUE /\ fh' = (IF fhProg.then = "exit" THEN "exit" ELSE "return") /\ UNCHANGED died
     ELSE Dies("core") /\ UNCHANGED raised
  /\ UNCHANGED <<fhSetup, fhSignal, segvAction, reports>>

ExitInHandler ==
  /\ fh = "exit" /\ Dies("exit1")
  /\ UNCHANGED <<fhSetup, fhSignal, segvAction, raised, reports>>

\* The handler returns: the raised SIGSEGV is delivered.
ReturnRaised ==
  /\ fh = "return" /\ raised
  /\ fh' = "deliver" /\ raised' = FALSE
  /\ UNCHANGED <<fhSetup, fhSignal, segvAction, reports, died>>

\* Back to the program; sigtimedwait fails with EINTR, which is FATAL.
ReturnQuietly ==
  /\ fh = "return" /\ ~ raised
  /\ \/ fh' = "run" /\ UNCHANGED died
     \/ fhProg.waits /\ Dies("exit1")
  /\ UNCHANGED <<fhSetup, fhSignal, segvAction, raised, reports>>

FhNext ==
  \/ SetupHandlers \/ Fault \/ DefaultAction \/ EnterFaultHandler \/ Report
  \/ Abort \/ ResetSegv \/ RaiseSegv \/ ExitInHandler \/ ReturnRaised \/ ReturnQuietly

FhSpec == FhInit /\ [][FhNext]_fhVars

---------------------------------------------------------------------------
(* Properties. *)

FhTypeOK ==
  /\ fhProg \in FhPrograms /\ altStack \subseteq {"main"}
  /\ fh \in {"setup", "run", "deliver", "handler", "abort", "reset", "raise", "exit", "return", "dead"}
  /\ fhThread \in {"main", "other"} /\ sigNo \in {"none", "SEGV", "FPE"}
  /\ cause \in {"none", "access", "overflow", "kill"}
  /\ segvAction \in {"handler", "default"} /\ raised \in BOOLEAN
  /\ reports \in Nat /\ died \in {"no", "core", "exit1"}

\* A fault is reported at most once, and after the report the program never goes on
\* and no handler is entered again.  A SIGSEGV that has a handler kills the process
\* unreported only where its frame does not fit on the alternate stack, and a
\* reported one leaves a core, but for a failing signal(2).  (That the template is
\* to leave one too is judged by TemplateDumpsCore.)
FaultReportedOnce ==
  /\ reports <= 1
  /\ reports > 0 => fh \notin {"setup", "run", "handler"}
  /\ (died = "core" /\ reports = 0) => (cause = "overflow" \/ "SEGV" \notin fhProg.catches)
  /\ (died = "exit1" /\ reports > 0) => (segvAction = "handler" \/ fhProg = Template)

\* The comment at the end of the template's handler: the action is reset and the
\* signal raised to get the kernel to emit a core dump.  (What the code does:
\* SIGSEGV is blocked in its own handler, so exit(1) comes first.)
TemplateDumpsCore ==
  (fhProg = Template /\ fh = "dead" /\ reports > 0) => died = "core"

---------------------------------------------------------------------------
(* The inductive invariant behind FaultReportedOnce. *)

\* SIGSEGV keeps its handler until it is reported; from then on the thread is on
\* its way to the default action, or to exit.
Reporting ==
  /\ reports <= 1
  /\ fh \in {"setup", "run", "handler"} => reports = 0
  /\ fh \in {"abort", "reset", "raise", "exit"} => reports = 1
  /\ reports = 1 => sigNo \in fhProg.reports
  /\ (reports = 0 /\ fh \notin {"setup", "dead"}) =>
       (segvAction = "handler" <=> "SEGV" \in fhProg.catches)
  /\ (fh = "return" /\ reports = 0) => sigNo \notin fhProg.reports
  /\ (fh \in {"return", "deliver"} /\ reports = 1) =>
       (sigNo = "SEGV" /\ segvAction = "default" /\ fhProg.then # "exit")
  /\ fh = "reset" => segvAction = "handler"
  /\ fh = "raise" => segvAction = "default"
  /\ fh = "exit" => (sigNo = "SEGV" /\ fhProg.then = "exit")
  /\ fh = "abort" => fhProg.then = "abort"

\* The raised signal waits for the return of its handler.
Raising ==
  /\ fh = "return" => (raised <=> reports = 1)
  /\ raised => fh \in {"return", "exit", "dead"}
  /\ cause \in fhProg.causes \cup {"none", "kill"}
  /\ fh = "dead" <=> died # "no"

FhInv == FhTypeOK /\ Reporting /\ Raising /\ FaultReportedOnce

==============================================================================
