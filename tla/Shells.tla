------------------------------- MODULE Shells -------------------------------
(***************************************************************************)
(* ch10/simpsh_v1.c, simpsh_v2.c, simpsh_v3.c: prompt, fork, exec, wait.   *)
(* The first two wait for a death (wait(2)); simpsh_v3 calls waitpid(-1)   *)
(* with WUNTRACED and WCONTINUED and so also returns when some child       *)
(* stops or is resumed.                                                    *)
(*                                                                         *)
(* The kernel keeps one status per child: "zombie" until it is reaped,     *)
(* "stopped" or "continued" until it is reported once or superseded.       *)
(***************************************************************************)
EXTENDS Naturals, FiniteSets

CONSTANTS
  ShChild,   \* bound: the children one run of the shell may create
  ShStops    \* bound: stop and continue signals sent to the children

ASSUME ShAssumption == IsFiniteSet(ShChild) /\ ShStops \in Nat

VARIABLES
  shProgram,   \* "v1", "v2" or "v3"
  shell,       \* control point of the shell
  cmdMem,      \* the command buffer: "none", "live", "freed", "corrupt"
  child,       \* state of each child
  news,        \* children with a stop or a continue not yet reported
  stops,       \* signals sent so far
  taken        \* stops and continues that the shell took for an event

shVars == <<shProgram, shell, cmdMem, child, news, stops, taken>>

ShInit ==
  /\ shProgram \in {"v1", "v2", "v3"}
  /\ shell = "calloc"
  /\ cmdMem = "none"
  /\ child = [c \in ShChild |-> "none"]
  /\ news = {}
  /\ stops = 0 /\ taken = 0

FreeCmd == IF cmdMem = "live" THEN "freed" ELSE "corrupt"

Unreaped == {c \in ShChild : child[c] \notin {"none", "reaped"}}

---------------------------------------------------------------------------
(* The shell. *)

ShCalloc ==
  /\ shell = "calloc"
  /\ \/ shell' = "prompt" /\ cmdMem' = "live"
     \/ shell' = "fatal" /\ UNCHANGED cmdMem
  /\ UNCHANGED <<shProgram, child, news, stops, taken>>

\* getcmd: a command, the empty line, "quit" or the end of the input.
GetCmd ==
  /\ shell = "prompt"
  /\ \/ shell' = "fork" /\ UNCHANGED cmdMem
     \/ shell' = "prompt" /\ UNCHANGED cmdMem
     \/ shell' = "exit" /\ cmdMem' = FreeCmd
     \/ shell' = "fatal" /\ cmdMem' = FreeCmd
  /\ UNCHANGED <<shProgram, child, news, stops, taken>>

Fork ==
  /\ shell = "fork"
  /\ \E c \in ShChild :
       /\ child[c] = "none"
       /\ child' = [child EXCEPT ![c] = "exec"]
  /\ shell' = "wait"
  /\ UNCHANGED <<shProgram, cmdMem, news, stops, taken>>

ForkFails ==
  /\ shell = "fork"
  /\ shell' = "fatal" /\ cmdMem' = FreeCmd
  /\ UNCHANGED <<shProgram, child, news, stops, taken>>

\* wait or waitpid fails; only simpsh_v1 does not free the buffer first.
WaitFails ==
  /\ shell = "wait"
  /\ shell' = "fatal" /\ cmdMem' = (IF shProgram = "v1" THEN cmdMem ELSE FreeCmd)
  /\ UNCHANGED <<shProgram, child, news, stops, taken>>

\* Mutant of WaitDeath: WNOHANG, the shell does not wait.
WaitNoHang ==
  /\ shell = "wait" /\ shell' = "prompt"
  /\ UNCHANGED <<shProgram, cmdMem, child, news, stops, taken>>

\* Mutant of WaitDeath: the shell waits until it has no child left.
WaitAll ==
  /\ shell = "wait"
  /\ \E c \in ShChild :
       /\ child[c] = "zombie"
       /\ child' = [child EXCEPT ![c] = "reaped"]
       /\ shell' = IF Unreaped = {c} THEN "prompt" ELSE "wait"
  /\ UNCHANGED <<shProgram, cmdMem, news, stops, taken>>

\* wait or waitpid(-1) reaps a dead child.
WaitDeath ==
  /\ shell = "wait"
  /\ \E c \in ShChild :
       /\ child[c] = "zombie"
       /\ child' = [child EXCEPT ![c] = "reaped"]
  /\ shell' = "prompt"
  /\ UNCHANGED <<shProgram, cmdMem, news, stops, taken>>

\* waitpid of simpsh_v3 reports a child that stopped or was resumed.
WaitNews ==
  /\ shell = "wait" /\ shProgram = "v3"
  /\ \E c \in news : news' = news \ {c}
  /\ taken' = taken + 1
  /\ shell' = "prompt"
  /\ UNCHANGED <<shProgram, cmdMem, child, stops>>

Shell == ShCalloc \/ GetCmd \/ Fork \/ WaitDeath \/ WaitNews

---------------------------------------------------------------------------
(* The children. *)

\* execlp succeeds and the child runs the command; or it fails and the child
\* exits: it never returns to the prompt loop.
Exec(c) ==
  /\ child[c] = "exec"
  /\ child' = [child EXCEPT ![c] = "running"]
  /\ UNCHANGED <<shProgram, shell, cmdMem, news, stops, taken>>

\* A child ends; a report that was due is superseded by its death.
End(c) ==
  /\ child[c] \in {"exec", "running"}
  /\ child' = [child EXCEPT ![c] = "zombie"]
  /\ news' = news \ {c}
  /\ UNCHANGED <<shProgram, shell, cmdMem, stops, taken>>

\* SIGKILL ends a stopped one.
Kill(c) ==
  /\ child[c] = "stopped"
  /\ child' = [child EXCEPT ![c] = "zombie"]
  /\ news' = news \ {c}
  /\ UNCHANGED <<shProgram, shell, cmdMem, stops, taken>>

Stop(c) ==
  /\ child[c] = "running" /\ stops < ShStops
  /\ stops' = stops + 1
  /\ child' = [child EXCEPT ![c] = "stopped"]
  /\ news' = news \cup {c}
  /\ UNCHANGED <<shProgram, shell, cmdMem, taken>>

Continue(c) ==
  /\ child[c] = "stopped" /\ stops < ShStops
  /\ stops' = stops + 1
  /\ child' = [child EXCEPT ![c] = "running"]
  /\ news' = news \cup {c}
  /\ UNCHANGED <<shProgram, shell, cmdMem, taken>>

ShNext ==
  \/ Shell \/ ForkFails \/ WaitFails
  \/ \E c \in ShChild : Exec(c) \/ End(c) \/ Kill(c) \/ Stop(c) \/ Continue(c)

ShSpec == ShInit /\ [][ShNext]_shVars

\* The commands the user types end, unless they are stopped; stopping them is
\* the user's choice, and so is typing anything at all.
ShFairness ==
  /\ WF_shVars(WaitDeath \/ WaitNews)
  /\ \A c \in ShChild : WF_shVars(End(c))

---------------------------------------------------------------------------
(* Properties. *)

ShTypeOK ==
  /\ shell \in {"calloc", "prompt", "fork", "wait", "exit", "fatal"}
  /\ cmdMem \in {"none", "live", "freed"}
  /\ child \in [ShChild -> {"none", "exec", "running", "stopped", "zombie", "reaped"}]
  /\ news \subseteq Unreaped
  /\ stops \in 0..ShStops /\ taken \in 0..ShStops

\* The comment at the wait: the parent waits for the child's death.  The shells
\* that call wait(2) have no child, running or zombie, at the prompt; simpsh_v3
\* has one for each stop or continue it took for a death, and no more.
PromptBalance ==
  /\ shell \in {"prompt", "fork"} => Cardinality(Unreaped) = taken
  /\ shell = "wait" => Cardinality(Unreaped) = taken + 1
  /\ shProgram # "v3" => taken = 0

\* The shell comes back from wait, even if every earlier child of it is stopped
\* and has been reported: the child it has just created has not.
ShellReturns == (shell = "wait" /\ shProgram = "v3") ~> (shell # "wait")

---------------------------------------------------------------------------
(* The inductive invariant behind PromptBalance. *)

\* The reports taken and due are stops that were sent; a report is due only of
\* a child that has not ended.
ReportsSent ==
  /\ taken + Cardinality(news) <= stops
  /\ \A c \in news : child[c] \in {"running", "stopped"}

\* What the shell has allocated and created, by where it is.
ShProgress ==
  /\ shell = "calloc" => cmdMem = "none" /\ Unreaped = {} /\ taken = 0
  /\ shell \in {"prompt", "fork", "wait"} => cmdMem = "live"

ShInv == ShTypeOK /\ PromptBalance /\ ReportsSent /\ ShProgress

============================================================================
