------------------------------- MODULE Daemon -------------------------------
(***************************************************************************)
(* B_daemon/daemon_trad.c: the steps of daemon(7) by which a process turns *)
(* into a SysV daemon: original process, first child, second child.        *)
(***************************************************************************)
EXTENDS Naturals

CONSTANTS
  DmFds,       \* bound: descriptors that may be open at the start
  DmMax,       \* rlim_max of RLIMIT_NOFILE
  DmBlocked    \* sets of signals that may be blocked at the start

ASSUME DmAssumption ==
  DmFds \subseteq Nat /\ DmMax \in Nat /\ 3 <= DmMax

Dm == {"original", "first", "daemon"}
Std == {0, 1, 2}

VARIABLES
  dm,        \* control point of each process
  fds,       \* what its descriptors refer to: [a set of numbers -> file]
  handlers,  \* a signal has a handler, or is ignored
  mask,      \* its blocked signals
  leader,    \* it leads a session
  tty,       \* it has a controlling terminal
  where      \* its directory and its umask

dmAttr == <<fds, handlers, mask, leader, tty, where>>
dmVars == <<dm, dmAttr>>

At(p, v) == [dm EXCEPT ![p] = v]
All(v) == [p \in Dm |-> v]

\* The caller leaves descriptors, handlers and a mask of its own; standard
\* input, output and error are open.
DmInit ==
  /\ dm = [p \in Dm |-> IF p = "original" THEN "close" ELSE "none"]
  /\ \E open \in {s \in SUBSET DmFds : Std \subseteq s} :
       fds = All([f \in open |-> "caller"])
  /\ handlers \in {All(TRUE), All(FALSE)}
  /\ \E m \in DmBlocked : mask = All(m)
  /\ leader = All(FALSE) /\ tty = All(TRUE)
  /\ where = All("caller")

Keep(p, set) == [fds EXCEPT ![p] = [f \in set |-> fds[p][f]]]

\* Steps 1 and 2: close 3..rlim_max - 1, all handlers back to SIG_DFL.
CloseFds ==
  /\ dm["original"] = "close"
  /\ \/ /\ dm' = At("original", "reset")
        /\ fds' = Keep("original", {f \in DOMAIN fds["original"] : f < 3 \/ f >= DmMax})
     \/ dm' = At("original", "failed") /\ UNCHANGED fds
  /\ UNCHANGED <<handlers, mask, leader, tty, where>>

ResetSignals ==
  /\ dm["original"] = "reset"
  /\ \/ dm' = At("original", "emptymask") /\ handlers' = [handlers EXCEPT !["original"] = FALSE]
     \/ dm' = At("original", "failed") /\ UNCHANGED handlers
  /\ UNCHANGED <<fds, mask, leader, tty, where>>

\* Step 3: the code empties a variable of type sigset_t.
EmptyMask ==
  /\ dm["original"] = "emptymask"
  /\ dm' \in {At("original", "fork"), At("original", "failed")}
  /\ UNCHANGED dmAttr

\* A fork gives the child the attributes of its parent; only the session
\* leadership is not inherited.
Child(attr, p, c) == [attr EXCEPT ![c] = attr[p]]

DmForkOf(p, c, after) ==
  /\ dm[p] = "fork"
  /\ \/ /\ dm' = [dm EXCEPT ![p] = "exit", ![c] = after]
        /\ fds' = Child(fds, p, c) /\ handlers' = Child(handlers, p, c)
        /\ mask' = Child(mask, p, c) /\ tty' = Child(tty, p, c)
        /\ where' = Child(where, p, c)
        /\ UNCHANGED leader
     \/ dm' = At(p, "failed") /\ UNCHANGED dmAttr

\* Mutant of Setsid: the new session is forgotten.
SetsidForgotten ==
  /\ dm["first"] = "setsid"
  /\ dm' = At("first", "fork")
  /\ UNCHANGED dmAttr

\* Step 6: setsid; a new session has no terminal.
Setsid ==
  /\ dm["first"] = "setsid"
  /\ \/ /\ dm' = At("first", "fork")
        /\ leader' = [leader EXCEPT !["first"] = TRUE]
        /\ tty' = [tty EXCEPT !["first"] = FALSE]
     \/ dm' = At("first", "failed") /\ UNCHANGED <<leader, tty>>
  /\ UNCHANGED <<fds, handlers, mask, where>>

\* Steps 5 and 7; the parent goes on to exit(3), it does not wait (8, 15).
DmForks == DmForkOf("original", "first", "setsid") \/ DmForkOf("first", "daemon", "open")

DmExit(p) ==
  /\ p # "daemon" /\ dm[p] = "exit"
  /\ dm' = At(p, "gone")
  /\ UNCHANGED dmAttr

\* Step 9: the lowest free descriptor is opened on /dev/null, duplicated onto
\* 0, 1 and 2, and closed.
OpenNull ==
  /\ dm["daemon"] = "open"
  /\ \/ /\ \E f \in 0..(DmMax - 1) \ DOMAIN fds["daemon"] :
             /\ \A g \in 0..(DmMax - 1) \ DOMAIN fds["daemon"] : f <= g
             /\ fds' = [fds EXCEPT !["daemon"] =
                          [g \in DOMAIN fds["daemon"] \cup {f} |->
                             IF g = f THEN "null" ELSE fds["daemon"][g]]]
        /\ dm' = At("daemon", "dup")
     \/ dm' = At("daemon", "failed") /\ UNCHANGED fds
  /\ UNCHANGED <<handlers, mask, leader, tty, where>>

\* fd_null: what OpenNull opened is the only descriptor on /dev/null that is
\* not a standard one.
FdNull == {f \in DOMAIN fds["daemon"] \ Std : fds["daemon"][f] = "null"}

\* The last of the three dup2 calls may fail with the first ones done.
DupNull ==
  /\ dm["daemon"] = "dup"
  /\ \/ /\ fds' = [fds EXCEPT !["daemon"] =
                     [g \in DOMAIN fds["daemon"] \ FdNull |->
                        IF g \in Std THEN "null" ELSE fds["daemon"][g]]]
        /\ dm' = At("daemon", "umask")
     \/ /\ \E k \in Std :
             fds' = [fds EXCEPT !["daemon"] =
                       [g \in DOMAIN fds["daemon"] |->
                          IF g < k THEN "null" ELSE fds["daemon"][g]]]
        /\ dm' = At("daemon", "failed")
  /\ UNCHANGED <<handlers, mask, leader, tty, where>>

\* Steps 10 and 11; 12, 13 and 14 are not implemented; pause.
UmaskChdir ==
  /\ dm["daemon"] = "umask"
  /\ \/ dm' = At("daemon", "pause") /\ where' = [where EXCEPT !["daemon"] = "root"]
     \/ dm' = At("daemon", "failed") /\ where' = [where EXCEPT !["daemon"] = "umask"]
  /\ UNCHANGED <<fds, handlers, mask, leader, tty>>

DmNext ==
  \/ CloseFds \/ ResetSignals \/ EmptyMask \/ Setsid \/ DmForks
  \/ OpenNull \/ DupNull \/ UmaskChdir
  \/ \E p \in Dm : DmExit(p)

DmSpec == DmInit /\ [][DmNext]_dmVars

---------------------------------------------------------------------------
(* Properties. *)

DmTypeOK ==
  /\ dm \in [Dm -> {"none", "close", "reset", "emptymask", "fork", "setsid", "open",
                    "dup", "umask", "pause", "exit", "gone", "failed"}]
  /\ \A p \in Dm : \A f \in DOMAIN fds[p] : fds[p][f] \in {"caller", "null"}
  /\ leader \in [Dm -> BOOLEAN] /\ tty \in [Dm -> BOOLEAN] /\ handlers \in [Dm -> BOOLEAN]
  /\ where \in [Dm -> {"caller", "umask", "root"}]

\* What daemon(7) wants of the result, whatever the caller had open, handled
\* or blocked: the running daemon has no terminal and, not leading a session,
\* can never acquire one; its standard descriptors are on /dev/null and nothing
\* of its caller is open below the limit that was closed up to.  (Its mask is
\* judged by MaskReset.)
DaemonDetached ==
  dm["daemon"] = "pause" =>
    /\ ~ tty["daemon"] /\ ~ leader["daemon"]
    /\ ~ handlers["daemon"] /\ where["daemon"] = "root"
    /\ \A f \in DOMAIN fds["daemon"] :
         IF f \in Std THEN fds["daemon"][f] = "null" ELSE f >= DmMax

\* The comment of step 3: reset the signal mask using sigprocmask().  (What the
\* code does: it empties a variable and never calls sigprocmask, so the daemon
\* blocks what its caller blocked.)
MaskReset == dm["daemon"] = "pause" => mask["daemon"] = {}

---------------------------------------------------------------------------
(* The inductive invariant behind DaemonDetached. *)

\* Descriptors are numbers, the standard ones among them.
DmFunctions ==
  /\ fds = [p \in Dm |-> fds[p]]
  /\ \A p \in Dm :
       /\ fds[p] = [f \in DOMAIN fds[p] |-> fds[p][f]]
       /\ Std \subseteq DOMAIN fds[p] /\ DOMAIN fds[p] \subseteq Nat

\* Nothing is open below the limit but the standard descriptors.
Closed(p) == \A f \in DOMAIN fds[p] \ Std : f >= DmMax

\* What each process has got rid of, by where it is: what the next one, its
\* child, inherits.
DmStages ==
  /\ dm["original"] \in {"reset", "emptymask", "fork"} => Closed("original")
  /\ dm["original"] \in {"emptymask", "fork"} => ~ handlers["original"]
  /\ dm["first"] \in {"setsid", "fork"} => Closed("first") /\ ~ handlers["first"]
  /\ dm["first"] = "fork" => ~ tty["first"]
  /\ ~ leader["daemon"]
  /\ dm["daemon"] \in {"open", "dup", "umask", "pause"} =>
       ~ tty["daemon"] /\ ~ handlers["daemon"]
  /\ dm["daemon"] = "dup" =>
       \A f \in DOMAIN fds["daemon"] \ Std : f >= DmMax \/ fds["daemon"][f] = "null"
  /\ dm["daemon"] = "open" => Closed("daemon")
  /\ dm["daemon"] \in {"umask", "pause"} =>
       Closed("daemon") /\ \A f \in Std : fds["daemon"][f] = "null"
  /\ dm["daemon"] = "pause" => where["daemon"] = "root"

DmInv == DmTypeOK /\ DmFunctions /\ DmStages

============================================================================
