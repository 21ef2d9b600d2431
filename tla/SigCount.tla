------------------------------ MODULE SigCount ------------------------------
(***************************************************************************)
(* A process bombarded with signals, whose handler counts them in two      *)
(* globals, s and t.                                                       *)
(*                                                                         *)
(* ch11/defer_or_not.c (option 1: the signal is deferred, option 2: its    *)
(* handler is re-entered), ch11/altstack.c and the assignment's            *)
(* segv_altstack.c with SIGUSR1; ch12/rtsigs_waiter.c with three realtime  *)
(* signals and a handler that masks all.                                   *)
(*                                                                         *)
(* s++ and t++ on a volatile are a load and a store, and a signal may fall *)
(* between any two of them (a build that makes them one instruction allows *)
(* fewer behaviours).                                                      *)
(***************************************************************************)
EXTENDS Naturals, Sequences, FiniteSetsExt

CONSTANTS
  ScSent,   \* bound: signals sent to the process
  ScMAX     \* MAX: s wraps to 1 there

ASSUME ScAssumption == ScSent \in Nat /\ ScMAX \in Nat /\ 2 <= ScMAX

VARIABLES
  scProg,    \* which program
  sent,      \* signals sent so far
  pend,      \* pending instances of each signal
  frames,    \* the active handlers, the running one first: [pc, reg]
  s_cnt, t_cnt,  \* the globals s and t
  handled    \* handlers entered so far

scVars == <<scProg, sent, pend, frames, s_cnt, t_cnt, handled>>

\* signals: their numbers;  queued: instances of one queue;  nests: SA_NODEFER
DeferOrNot(nodefer) == [signals |-> {1}, queued |-> FALSE, nests |-> nodefer]
AltstackCounts == DeferOrNot(TRUE)
SegvAltstackCounts == DeferOrNot(TRUE)
RtsigsWaiter == [signals |-> 1..3, queued |-> TRUE, nests |-> FALSE]

ScPrograms ==
  {DeferOrNot(FALSE), DeferOrNot(TRUE), AltstackCounts, SegvAltstackCounts, RtsigsWaiter}

Frame == [pc : {"loadS", "storeS", "loadT", "storeT", "check", "wrap", "save", "print"},
          reg : 0..(ScSent + ScMAX)]

ScInit ==
  /\ scProg \in ScPrograms
  /\ sent = 0
  /\ pend = [n \in scProg.signals |-> 0]
  /\ frames = <<>>
  /\ s_cnt = 0 /\ t_cnt = 0 /\ handled = 0

\* A standard signal is pending or not; realtime signals queue.
Send(n) ==
  /\ sent < ScSent
  /\ sent' = sent + 1
  /\ pend' = [pend EXCEPT ![n] = IF scProg.queued THEN @ + 1 ELSE 1]
  /\ UNCHANGED <<scProg, frames, s_cnt, t_cnt, handled>>

Due == {n \in DOMAIN pend : pend[n] > 0}

\* Mutant of Deliver: the handler of the realtime signals masks nothing.
DeliverUnmasked ==
  /\ Due # {} /\ (scProg.queued \/ scProg.nests \/ frames = <<>>)
  /\ pend' = [pend EXCEPT ![Min(Due)] = @ - 1]
  /\ frames' = <<[pc |-> "loadS", reg |-> 0]>> \o frames
  /\ handled' = handled + 1
  /\ UNCHANGED <<scProg, sent, s_cnt, t_cnt>>

\* The kernel enters the handler, of the lowest pending signal first.
Deliver ==
  /\ Due # {} /\ (scProg.nests \/ frames = <<>>)
  /\ pend' = [pend EXCEPT ![Min(Due)] = @ - 1]
  /\ frames' = <<[pc |-> "loadS", reg |-> 0]>> \o frames
  /\ handled' = handled + 1
  /\ UNCHANGED <<scProg, sent, s_cnt, t_cnt>>

---------------------------------------------------------------------------
(* The steps of the handler that was entered last. *)

ScRunning(pc) == frames # <<>> /\ Head(frames).pc = pc
To(pc, r) == frames' = <<[pc |-> pc, reg |-> r]>> \o Tail(frames)
Held == Head(frames).reg

LoadS ==
  /\ ScRunning("loadS") /\ To("storeS", s_cnt)
  /\ UNCHANGED <<scProg, sent, pend, s_cnt, t_cnt, handled>>

StoreS ==
  /\ ScRunning("storeS") /\ s_cnt' = Held + 1 /\ To("loadT", 0)
  /\ UNCHANGED <<scProg, sent, pend, t_cnt, handled>>

LoadT ==
  /\ ScRunning("loadT") /\ To("storeT", t_cnt)
  /\ UNCHANGED <<scProg, sent, pend, s_cnt, t_cnt, handled>>

StoreT ==
  /\ ScRunning("storeT") /\ t_cnt' = Held + 1 /\ To("check", 0)
  /\ UNCHANGED <<scProg, sent, pend, s_cnt, handled>>

Check ==
  /\ ScRunning("check")
  /\ To(IF s_cnt >= ScMAX THEN "wrap" ELSE "save", 0)
  /\ UNCHANGED <<scProg, sent, pend, s_cnt, t_cnt, handled>>

Wrap ==
  /\ ScRunning("wrap") /\ s_cnt' = 1 /\ To("save", 0)
  /\ UNCHANGED <<scProg, sent, pend, t_cnt, handled>>

\* saved = s in defer_or_not; the others print s itself.
Save ==
  /\ ScRunning("save") /\ To("print", s_cnt)
  /\ UNCHANGED <<scProg, sent, pend, s_cnt, t_cnt, handled>>

\* DELAY_LOOP prints the digit s + 48, for a while; then the handler returns.
PrintAndReturn ==
  /\ ScRunning("print")
  /\ frames' = Tail(frames)
  /\ UNCHANGED <<scProg, sent, pend, s_cnt, t_cnt, handled>>

Sighdlr == LoadS \/ StoreS \/ LoadT \/ StoreT \/ Check \/ Wrap \/ Save \/ PrintAndReturn

ScNext == (\E n \in DOMAIN pend : Send(n)) \/ Deliver \/ Sighdlr

ScSpec == ScInit /\ [][ScNext]_scVars

---------------------------------------------------------------------------
(* Properties. *)

ScTypeOK ==
  /\ scProg \in ScPrograms
  /\ sent \in 0..ScSent /\ pend \in [DOMAIN pend -> 0..ScSent]
  /\ frames \in Seq(Frame) /\ (scProg.nests \/ Len(frames) <= 1)
  /\ s_cnt \in 0..(ScSent + ScMAX) /\ t_cnt \in 0..ScSent /\ handled \in 0..ScSent

\* "total" is the number of handlers run, unless they nest, when it may only be
\* short; every realtime signal gets a handler, standard ones may share one; and
\* the digit shown is a digit from 1 to MAX - 1 however the handlers nest.
SignalsCounted ==
  /\ (frames = <<>> /\ ~ scProg.nests) => t_cnt = handled
  /\ t_cnt <= handled
  /\ scProg = RtsigsWaiter => handled + pend[1] + pend[2] + pend[3] = sent
  /\ \A i \in 1..Len(frames) :
       frames[i].pc = "print" => frames[i].reg \in 1..(ScMAX - 1)

---------------------------------------------------------------------------
(* The inductive invariant behind SignalsCounted. *)

BeforeS == {"loadS", "storeS"}
BeforeT == {"loadS", "storeS", "loadT", "storeT"}

\* The d-th of the handlers on a stack, from the one that was entered first; and
\* those up to it that have not counted yet.
FrameAt(q, d) == q[Len(q) + 1 - d]
Uncounted(q, before, d) == {e \in 1..d : FrameAt(q, e).pc \in before}

\* A count is at most that of the handlers entered less those yet to count, and
\* so is what a handler has loaded of it: the ones that interrupt came later.
Behind(q, entered, count, before, store) ==
  /\ count + Cardinality(Uncounted(q, before, Len(q))) <= entered
  /\ \A d \in 1..Len(q) : FrameAt(q, d).pc = store =>
       FrameAt(q, d).reg + Cardinality(Uncounted(q, before, d)) <= entered

\* Where handlers do not nest nothing is lost.
Exact == ~ scProg.nests =>
  /\ t_cnt + Cardinality(Uncounted(frames, BeforeT, Len(frames))) = handled
  /\ \A i \in 1..Len(frames) : frames[i].pc = "storeT" => frames[i].reg = t_cnt

\* s is a digit where it is saved, and has been counted up where it is tested;
\* whatever handlers came in between, they left a digit.
Digits ==
  /\ \A i \in 1..Len(frames) :
       frames[i].pc = "print" => frames[i].reg \in 1..(ScMAX - 1)
  /\ frames # <<>> =>
       /\ frames[1].pc \in {"loadT", "storeT", "check", "wrap"} => 1 <= s_cnt
       /\ frames[1].pc \in {"save", "print"} => s_cnt \in 1..(ScMAX - 1)

\* What was sent has a handler or is pending; or, where it is not queued, was
\* already pending.
Delivered ==
  /\ DOMAIN pend = scProg.signals
  /\ scProg = RtsigsWaiter => handled + pend[1] + pend[2] + pend[3] = sent
  /\ scProg # RtsigsWaiter => handled + pend[1] <= sent

ScInv ==
  /\ ScTypeOK /\ Delivered /\ Digits /\ Exact
  /\ Behind(frames, handled, s_cnt, BeforeS, "storeS")
  /\ Behind(frames, handled, t_cnt, BeforeT, "storeT")

=============================================================================
