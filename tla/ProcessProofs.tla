---------------------------- MODULE ProcessProofs ----------------------------
(***************************************************************************)
(* Theorems about the programs that are processes without threads: the     *)
(* shells, the daemon, the programs that change their privileges, and the  *)
(* ones that write files.                                                  *)
(***************************************************************************)
EXTENDS Shells, Daemon, Privileges, SharedOffset, SimpCp, SgFile,
        FiniteSetTheorems, SequenceTheorems, TLAPS

---------------------------------------------------------------------------
(* Privileges *)

\* A step of savedset_demo keeps the invariant.
LEMMA SavedSetKeeps ==
  ASSUME PvInv, SavedSet
  PROVE  PvInv'
<1> USE DEF PvInv, PvTypeOK, SavedStages, PcapStages, Root, User, Cap, pvIds
<1>1. pvProgram' = pvProgram
  BY DEF SavedSet, SavedCheck, SavedSwitch
<1>2. pvProgram = "savedset"
  BY DEF SavedSet, SavedCheck, SavedSwitch
<1>3. CASE SavedCheck
  BY <1>1, <1>2, <1>3 DEF SavedCheck
<1>4. CASE SavedSwitch("down1", ruid, "up")
  BY <1>1, <1>2, <1>4
  DEF SavedSwitch, MaySetuid, Seteuid, EffectiveAfter, PermittedAfter
<1>5. CASE SavedSwitch("up", Root, "down2")
  <2>1. /\ pv = "up" /\ suid = 0 /\ euid = ruid /\ ruid \in {0, 1000}
        /\ permitted = {"setuid", "admin"} /\ effective \subseteq permitted
        /\ euid = 0 => effective = permitted
    BY <1>2, <1>5 DEF SavedSwitch
  <2>2. pv' = "down2" /\ Seteuid(0)
    BY <1>5, <2>1 DEF SavedSwitch, MaySetuid
  <2>3. /\ euid' = 0 /\ suid' = 0 /\ ruid' = ruid /\ permitted' = permitted
        /\ effective' = permitted
    BY <2>1, <2>2 DEF Seteuid, EffectiveAfter, PermittedAfter
  <2> QED
    BY <1>1, <1>2, <2>1, <2>2, <2>3
<1>6. CASE SavedSwitch("down2", ruid, "exit")
  BY <1>1, <1>2, <1>6
  DEF SavedSwitch, MaySetuid, Seteuid, EffectiveAfter, PermittedAfter
<1> QED
  BY <1>3, <1>4, <1>5, <1>6 DEF SavedSet

\* What the options of set_pcap make of any set of capabilities.
LEMMA CapSets ==
  ASSUME NEW e \in SUBSET {"setuid", "admin"}
  PROVE  /\ (e \cup {"setuid"}) \ {"admin"} = {"setuid"}
         /\ (e \cup {"setuid", "admin"}) \ {} = {"setuid", "admin"}
OBVIOUS

\* A step of set_pcap keeps the invariant.
LEMMA SetPcapKeeps ==
  ASSUME PvInv, SetPcap
  PROVE  PvInv'
<1> USE DEF PvInv, PvTypeOK, SavedStages, PcapStages, Root, User, Cap, pvIds
<1>1. pvProgram' = pvProgram
  BY DEF SetPcap, SetCaps, TestSetuid, DropCaps, BeNormal, Pause2
<1>2. pvProgram # "savedset"
  BY DEF SetPcap, SetCaps, TestSetuid, DropCaps, BeNormal, Pause2
<1>3. CASE SetCaps
  <2>1. /\ pv = "caps" /\ effective = permitted /\ permitted \subseteq {"setuid", "admin"}
        /\ euid = ruid /\ UNCHANGED <<ruid, euid, suid, permitted>>
    BY <1>2, <1>3 DEF SetCaps
  <2>2. CASE pv' = "refused" /\ UNCHANGED effective
    BY <1>1, <1>2, <2>1, <2>2
  <2>3. CASE /\ (effective \cup Wanted) \ Cleared \subseteq permitted
             /\ pv' = "pause1" /\ effective' = (effective \cup Wanted) \ Cleared
    <3>1. CASE pvProgram = "pcap1"
      <4>1. effective' = {"setuid"} /\ effective' \subseteq permitted
        BY <2>1, <2>3, <3>1, CapSets DEF Wanted, Cleared
      <4> QED
        BY <1>1, <1>2, <2>1, <2>3, <3>1, <4>1
    <3>2. CASE pvProgram # "pcap1"
      <4>1. effective' = {"setuid", "admin"} /\ effective' \subseteq permitted
        BY <2>1, <2>3, <3>2, CapSets DEF Wanted, Cleared
      <4> QED
        BY <1>1, <1>2, <2>1, <2>3, <3>2, <4>1
    <3> QED
      BY <3>1, <3>2
  <2> QED
    BY <1>3, <2>2, <2>3 DEF SetCaps
<1>4. CASE TestSetuid("pause1", "drop")
  <2>1. /\ pv = "pause1" /\ pv' = "drop" /\ euid = ruid /\ suid = ruid
        /\ "setuid" \in effective /\ effective \subseteq permitted
        /\ permitted \subseteq {"setuid", "admin"} /\ ruid \in {0, 1000}
    BY <1>2, <1>4 DEF TestSetuid
  <2>2. Seteuid(0)
    BY <1>4, <2>1 DEF TestSetuid, MaySetuid
  <2>3. /\ euid' = 0 /\ suid' = suid /\ ruid' = ruid /\ permitted' = permitted
        /\ effective' \subseteq permitted
    BY <2>1, <2>2 DEF Seteuid, EffectiveAfter, PermittedAfter
  <2> QED
    BY <1>1, <1>2, <2>1, <2>3
<1>5. CASE DropCaps
  <2>1. pv = "drop" /\ euid = Root /\ suid = ruid /\ UNCHANGED <<ruid, euid, suid>>
    BY <1>2, <1>5 DEF DropCaps
  <2>2. CASE pv' = "normal" /\ effective' = {} /\ permitted' = {}
    BY <1>1, <1>2, <2>1, <2>2
  <2>3. CASE pv' = "refused" /\ UNCHANGED <<effective, permitted>>
    BY <1>1, <1>2, <2>1, <2>3
  <2> QED
    BY <1>5, <2>2, <2>3 DEF DropCaps
<1>6. CASE BeNormal
  <2>1. /\ pv = "normal" /\ euid = 0 /\ suid = ruid /\ ruid \in {0, 1000}
        /\ effective = {} /\ permitted = {}
    BY <1>2, <1>6 DEF BeNormal
  <2>2. pv' = "test2" /\ KSetuid(ruid)
    BY <1>6, <2>1 DEF BeNormal, MaySetuid
  <2>3. /\ euid' = ruid /\ ruid' = ruid /\ suid' = suid /\ effective' = {} /\ permitted' = {}
    BY <2>1, <2>2 DEF KSetuid, EffectiveAfter, PermittedAfter
  <2> QED
    BY <1>1, <1>2, <2>1, <2>2, <2>3
<1>7. CASE TestSetuid("test2", "pause2")
  <2>1. /\ pv = "test2" /\ pv' = "pause2" /\ euid = ruid /\ suid = ruid
        /\ ruid \in {0, 1000} /\ effective = {} /\ permitted = {}
    BY <1>2, <1>7 DEF TestSetuid
  <2>2. UNCHANGED pvIds \/ (ruid = 0 /\ Seteuid(0))
    BY <1>7, <2>1 DEF TestSetuid, MaySetuid
  <2>3. /\ euid' = euid /\ ruid' = ruid /\ suid' = suid /\ effective' = {} /\ permitted' = {}
    BY <2>1, <2>2 DEF Seteuid, EffectiveAfter, PermittedAfter
  <2> QED
    BY <1>1, <1>2, <2>1, <2>3
<1>8. CASE Pause2
  BY <1>1, <1>2, <1>8 DEF Pause2
<1> QED
  BY <1>3, <1>4, <1>5, <1>6, <1>7, <1>8 DEF SetPcap

\* The ids and capabilities of both programs are those of their control point.
THEOREM PrivilegesInductive == PvSpec => []PvInv
<1>1. PvInit => PvInv
  BY DEF PvInit, PvInv, PvTypeOK, SavedStages, PcapStages, Root, User, Cap
<1>2. PvInv /\ [PvNext]_pvVars => PvInv'
  <2>1. ASSUME PvInv, UNCHANGED pvVars PROVE PvInv'
    BY <2>1 DEF PvInv, PvTypeOK, SavedStages, PcapStages, pvVars, pvIds
  <2> QED
    BY <2>1, SavedSetKeeps, SetPcapKeeps DEF PvNext
<1> QED
  BY <1>1, <1>2, PTL DEF PvSpec

\* Privileges are given up for good exactly where the programs say so, and
\* those that are needed are still there when they are needed.
THEOREM PrivilegeOrderHolds == PvSpec => []PrivilegeOrder
<1>1. PvInv => PrivilegeOrder
  BY DEF PvInv, PvTypeOK, SavedStages, PcapStages, PrivilegeOrder, Root, User, Cap
<1> QED
  BY <1>1, PrivilegesInductive, PTL

---------------------------------------------------------------------------
(* Shells *)

\* The children and the reports due are finite sets, with a number each.
LEMMA ShFinite ==
  ASSUME ShInv
  PROVE  /\ IsFiniteSet(Unreaped) /\ IsFiniteSet(news)
         /\ Cardinality(Unreaped) \in Nat /\ Cardinality(news) \in Nat
<1>1. Unreaped \subseteq ShChild /\ news \subseteq ShChild
  BY DEF ShInv, ShTypeOK, Unreaped
<1> QED
  BY <1>1, ShAssumption, FS_Subset, FS_CardinalityType

\* A child is one more, or one less, to wait for.
LEMMA UnreapedCounts ==
  ASSUME ShInv, NEW c \in ShChild
  PROVE  /\ c \notin Unreaped => Cardinality(Unreaped \cup {c}) = Cardinality(Unreaped) + 1
         /\ c \in Unreaped => Cardinality(Unreaped \ {c}) = Cardinality(Unreaped) - 1
         /\ Cardinality(news \cup {c}) <= Cardinality(news) + 1
         /\ c \in news => Cardinality(news \ {c}) = Cardinality(news) - 1
         /\ Cardinality(news \ {c}) <= Cardinality(news)
<1> USE ShFinite
<1>1. IsFiniteSet({c}) /\ Cardinality({c}) = 1
  BY FS_Singleton
<1>2. /\ c \notin Unreaped => Cardinality(Unreaped \cup {c}) = Cardinality(Unreaped) + 1
      /\ c \notin news => Cardinality(news \cup {c}) = Cardinality(news) + 1
  BY FS_AddElement
<1>3. /\ c \in Unreaped => Cardinality(Unreaped \ {c}) = Cardinality(Unreaped) - 1
      /\ c \in news => Cardinality(news \ {c}) = Cardinality(news) - 1
  BY FS_RemoveElement
<1>4. Cardinality(news \ {c}) <= Cardinality(news)
  BY FS_Subset
<1>5. c \in news => Cardinality(news \cup {c}) = Cardinality(news)
  <2>1. c \in news => news \cup {c} = news
    OBVIOUS
  <2> QED
    BY <2>1
<1>6. Cardinality(news) \in Nat
  OBVIOUS
<1> HIDE ShFinite
<1> QED
  BY <1>2, <1>3, <1>4, <1>5, <1>6

\* A step of the shell keeps the invariant.
LEMMA ShellKeeps ==
  ASSUME ShInv, Shell \/ ForkFails \/ WaitFails
  PROVE  ShInv'
<1> USE DEF ShInv, ShTypeOK, PromptBalance, ReportsSent, ShProgress
<1>1. CASE ShCalloc \/ GetCmd \/ ForkFails \/ WaitFails
  <2>1. Unreaped' = Unreaped /\ UNCHANGED <<child, news, stops, taken, shProgram>>
    BY <1>1 DEF ShCalloc, GetCmd, ForkFails, WaitFails, Unreaped
  <2>2. Cardinality(Unreaped') = Cardinality(Unreaped)
    BY <2>1
  <2>3. Unreaped = {} => Cardinality(Unreaped) = 0
    BY FS_EmptySet
  <2> QED
    BY <1>1, <2>1, <2>2, <2>3 DEF ShCalloc, GetCmd, ForkFails, WaitFails, FreeCmd
<1>2. CASE Fork
  <2>1. PICK c \in ShChild : child[c] = "none" /\ child' = [child EXCEPT ![c] = "exec"]
    BY <1>2 DEF Fork
  <2>2. c \notin Unreaped /\ Unreaped' = Unreaped \cup {c}
    BY <2>1 DEF Unreaped
  <2>3. Cardinality(Unreaped') = Cardinality(Unreaped) + 1
    BY <2>2, UnreapedCounts
  <2> QED
    BY <1>2, <2>1, <2>2, <2>3, ShFinite DEF Fork
<1>3. CASE WaitDeath
  <2>1. PICK c \in ShChild : child[c] = "zombie" /\ child' = [child EXCEPT ![c] = "reaped"]
    BY <1>3 DEF WaitDeath
  <2>2. c \in Unreaped /\ Unreaped' = Unreaped \ {c} /\ c \notin news
    BY <2>1 DEF Unreaped
  <2>3. Cardinality(Unreaped') = Cardinality(Unreaped) - 1
    BY <2>2, UnreapedCounts
  <2> QED
    BY <1>3, <2>1, <2>2, <2>3, ShFinite DEF WaitDeath
<1>4. CASE WaitNews
  <2>1. PICK c \in news : news' = news \ {c}
    BY <1>4 DEF WaitNews
  <2>2. c \in ShChild /\ Unreaped' = Unreaped
    BY <1>4, <2>1 DEF WaitNews, Unreaped
  <2>3. Cardinality(news') = Cardinality(news) - 1 /\ Cardinality(Unreaped') = Cardinality(Unreaped)
    BY <2>1, <2>2, UnreapedCounts
  <2>4. /\ taken' = taken + 1 /\ taken' + Cardinality(news') <= stops
        /\ taken' \in 0..ShStops
    <3>1. taken' = taken + 1 /\ Cardinality(news) # 0
      BY <1>4, <2>1, ShFinite, FS_EmptySet DEF WaitNews
    <3> QED
      BY <2>3, <3>1, ShFinite, ShAssumption
  <2>5. UNCHANGED <<shProgram, cmdMem, child, stops>> /\ shell = "wait" /\ shell' = "prompt"
    BY <1>4 DEF WaitNews
  <2>6. shProgram = "v3" /\ news' \subseteq news
    BY <1>4, <2>1 DEF WaitNews
  <2> QED
    BY <2>2, <2>3, <2>4, <2>5, <2>6
<1> QED
  BY <1>1, <1>2, <1>3, <1>4 DEF Shell

\* What happens to a child keeps the invariant: it stays one to wait for.
LEMMA ChildKeeps ==
  ASSUME ShInv, NEW c \in ShChild, Exec(c) \/ End(c) \/ Kill(c) \/ Stop(c) \/ Continue(c)
  PROVE  ShInv'
<1> USE DEF ShInv, ShTypeOK, PromptBalance, ReportsSent, ShProgress
<1>1. /\ c \in Unreaped /\ Unreaped' = Unreaped
      /\ UNCHANGED <<shell, cmdMem, taken, shProgram>>
  BY DEF Exec, End, Kill, Stop, Continue, Unreaped
<1>2. Cardinality(Unreaped') = Cardinality(Unreaped)
  BY <1>1
<1>3. \/ news' = news /\ stops' = stops
      \/ news' = news \ {c} /\ stops' = stops
      \/ news' = news \cup {c} /\ stops < ShStops /\ stops' = stops + 1
  BY DEF Exec, End, Kill, Stop, Continue
<1>4. taken' + Cardinality(news') <= stops'
  <2>1. /\ Cardinality(news \cup {c}) <= Cardinality(news) + 1
        /\ Cardinality(news \ {c}) <= Cardinality(news)
    BY UnreapedCounts
  <2>2. /\ Cardinality(news) \in Nat /\ Cardinality(news \ {c}) \in Nat
        /\ Cardinality(news \cup {c}) \in Nat
    <3>1. IsFiniteSet(news) /\ Cardinality(news) \in Nat
      BY ShFinite
    <3> QED
      BY <3>1, FS_AddElement, FS_RemoveElement, FS_CardinalityType
  <2>3. taken \in Nat /\ stops \in Nat /\ taken + Cardinality(news) <= stops /\ taken' = taken
    BY <1>1, ShAssumption
  <2>4. CASE news' = news /\ stops' = stops
    BY <2>3, <2>4
  <2>5. CASE news' = news \ {c} /\ stops' = stops
    <3>1. Cardinality(news') = Cardinality(news \ {c})
      BY <2>5
    <3> QED
      BY <2>1, <2>2, <2>3, <2>5, <3>1
  <2>6. CASE news' = news \cup {c} /\ stops' = stops + 1
    <3>1. Cardinality(news') = Cardinality(news \cup {c})
      BY <2>6
    <3> QED
      BY <2>1, <2>2, <2>3, <2>6, <3>1
  <2> QED
    BY <1>3, <2>4, <2>5, <2>6
<1>5. /\ child' \in [ShChild -> {"none", "exec", "running", "stopped", "zombie", "reaped"}]
      /\ \A d \in news' : child'[d] \in {"running", "stopped"}
  <2>1. CASE Exec(c)
    BY <2>1 DEF Exec
  <2>2. CASE End(c)
    BY <2>2 DEF End
  <2>5. CASE Kill(c)
    BY <2>5 DEF Kill
  <2>3. CASE Stop(c)
    BY <2>3 DEF Stop
  <2>4. CASE Continue(c)
    BY <2>4 DEF Continue
  <2> QED
    BY <2>1, <2>2, <2>3, <2>4, <2>5
<1>6. news' \subseteq Unreaped' /\ stops' \in 0..ShStops
  BY <1>1, <1>3, ShAssumption
<1> QED
  BY <1>1, <1>2, <1>4, <1>5, <1>6

\* What a prompt, the children and the reports due have to do with each other, from
\* one step of a shell to the next.
THEOREM ShellsInductive == ShSpec => []ShInv
<1>1. ShInit => ShInv
  <2>1. Cardinality({}) = 0
    BY FS_EmptySet
  <2>2. ShInit => Unreaped = {}
    BY DEF ShInit, Unreaped
  <2> QED
    BY <2>1, <2>2, ShAssumption
    DEF ShInit, ShInv, ShTypeOK, PromptBalance, ReportsSent, ShProgress
<1>2. ShInv /\ [ShNext]_shVars => ShInv'
  <2>1. ASSUME ShInv, UNCHANGED shVars PROVE ShInv'
    BY <2>1 DEF ShInv, ShTypeOK, PromptBalance, ReportsSent, ShProgress, Unreaped, shVars
  <2> QED
    BY <2>1, ShellKeeps, ChildKeeps DEF ShNext
<1> QED
  BY <1>1, <1>2, PTL DEF ShSpec

\* At the prompt the shells have no child left to wait for but those whose
\* stop or continue simpsh_v3 took for an end.
THEOREM PromptBalanceHolds == ShSpec => []PromptBalance
<1>1. ShInv => PromptBalance
  BY DEF ShInv
<1> QED
  BY ShellsInductive, <1>1, PTL

---------------------------------------------------------------------------
(* Daemon *)

\* A truth value of one process changes.
LEMMA FlagUpdate ==
  ASSUME NEW flag \in [Dm -> BOOLEAN], NEW p \in Dm, NEW b \in BOOLEAN
  PROVE  [flag EXCEPT ![p] = b] \in [Dm -> BOOLEAN]
BY Zenon

\* Closing descriptors, resetting handlers: the steps of the original process.
LEMMA OriginalKeeps ==
  ASSUME DmInv, CloseFds \/ ResetSignals \/ EmptyMask
  PROVE  DmInv'
<1> USE DmAssumption
    DEF DmInv, DmTypeOK, DmFunctions, DmStages, Closed, FdNull, Dm, Std, At, dmAttr
<1>1. CASE CloseFds
  BY <1>1 DEF CloseFds, Keep
<1>2. CASE ResetSignals
  <2>1. UNCHANGED <<fds, mask, leader, tty, where>> /\ dm["original"] = "reset"
    BY <1>2 DEF ResetSignals
  <2>2. DmFunctions'
    BY <2>1
  <2>3. DmTypeOK'
    <3>1. \A p \in Dm : \A f \in DOMAIN fds'[p] : fds'[p][f] \in {"caller", "null"}
      BY <2>1
    <3>2. dm' \in [Dm -> {"none", "close", "reset", "emptymask", "fork", "setsid", "open",
                         "dup", "umask", "pause", "exit", "gone", "failed"}]
      BY <1>2 DEF ResetSignals
    <3>3. handlers' \in [Dm -> BOOLEAN]
      <4>1. [handlers EXCEPT !["original"] = FALSE] \in [Dm -> BOOLEAN]
        BY FlagUpdate
      <4> QED
        BY <1>2, <4>1 DEF ResetSignals
    <3> QED
      BY <2>1, <3>1, <3>2, <3>3
  <2>4. CASE /\ dm' = [dm EXCEPT !["original"] = "emptymask"]
             /\ handlers' = [handlers EXCEPT !["original"] = FALSE]
    <3>1. /\ ~ handlers'["original"] /\ handlers'["daemon"] = handlers["daemon"]
          /\ handlers'["first"] = handlers["first"]
      BY <2>4
    <3>2. /\ dm'["original"] = "emptymask" /\ dm'["daemon"] = dm["daemon"]
          /\ dm'["first"] = dm["first"]
      BY <2>4
    <3> QED
      BY <2>1, <2>2, <2>3, <3>1, <3>2
  <2>5. CASE dm' = [dm EXCEPT !["original"] = "failed"] /\ UNCHANGED handlers
    BY <2>1, <2>2, <2>3, <2>5
  <2> QED
    BY <1>2, <2>4, <2>5 DEF ResetSignals
<1>3. CASE EmptyMask
  BY <1>3 DEF EmptyMask
<1> QED
  BY <1>1, <1>2, <1>3

\* The forks: the child starts with what its parent has got rid of.
LEMMA ForksKeep ==
  ASSUME DmInv, DmForks \/ Setsid \/ \E p \in Dm : DmExit(p)
  PROVE  DmInv'
<1> USE DEF DmInv, DmTypeOK, DmFunctions, DmStages, Closed, FdNull, Dm, Std, At, dmAttr
<1>1. CASE DmForkOf("original", "first", "setsid")
  BY <1>1 DEF DmForkOf, Child
<1>2. CASE DmForkOf("first", "daemon", "open")
  BY <1>2 DEF DmForkOf, Child
<1>3. CASE Setsid
  <2>1. UNCHANGED <<fds, handlers, mask, where>> /\ dm["first"] = "setsid"
    BY <1>3 DEF Setsid
  <2>2. DmFunctions'
    BY <2>1
  <2>3. DmTypeOK'
    <3>1. \A p \in Dm : \A f \in DOMAIN fds'[p] : fds'[p][f] \in {"caller", "null"}
      BY <2>1
    <3>2. dm' \in [Dm -> {"none", "close", "reset", "emptymask", "fork", "setsid", "open",
                         "dup", "umask", "pause", "exit", "gone", "failed"}]
      BY <1>3 DEF Setsid
    <3>3. leader' \in [Dm -> BOOLEAN] /\ tty' \in [Dm -> BOOLEAN]
      <4>1. /\ [leader EXCEPT !["first"] = TRUE] \in [Dm -> BOOLEAN]
            /\ [tty EXCEPT !["first"] = FALSE] \in [Dm -> BOOLEAN]
        BY FlagUpdate
      <4> QED
        BY <1>3, <4>1 DEF Setsid
    <3> QED
      BY <2>1, <3>1, <3>2, <3>3
  <2>4. /\ leader'["daemon"] = leader["daemon"] /\ tty'["daemon"] = tty["daemon"]
        /\ dm'["original"] = dm["original"] /\ dm'["daemon"] = dm["daemon"]
        /\ \/ dm'["first"] = "fork" /\ ~ tty'["first"]
           \/ dm'["first"] = "failed"
    BY <1>3 DEF Setsid
  <2> QED
    BY <2>1, <2>2, <2>3, <2>4
<1>4. ASSUME NEW p \in Dm, DmExit(p) PROVE DmInv'
  BY <1>4 DEF DmExit
<1> QED
  BY <1>1, <1>2, <1>3, <1>4 DEF DmForks

\* What becomes of the descriptors when those of the daemon do.
LEMMA DaemonFds ==
  ASSUME DmFunctions, NEW v, fds' = [fds EXCEPT !["daemon"] = v]
  PROVE  /\ fds'["original"] = fds["original"] /\ fds'["first"] = fds["first"]
         /\ fds'["daemon"] = v
         /\ fds' = [p \in Dm |-> fds'[p]]
BY DEF DmFunctions, Dm

\* The steps of the daemon itself.
LEMMA DaemonKeeps ==
  ASSUME DmInv, OpenNull \/ DupNull \/ UmaskChdir
  PROVE  DmInv'
<1> USE DmAssumption
    DEF DmInv, DmTypeOK, DmFunctions, DmStages, Closed, FdNull, Dm, Std, At, dmAttr
<1>1. CASE OpenNull
  <2>1. UNCHANGED <<handlers, mask, leader, tty, where>> /\ dm["daemon"] = "open"
    BY <1>1 DEF OpenNull
  <2>2. CASE dm' = [dm EXCEPT !["daemon"] = "failed"] /\ UNCHANGED fds
    BY <2>1, <2>2
  <2>3. ASSUME NEW f \in 0..(DmMax - 1) \ DOMAIN fds["daemon"],
               fds' = [fds EXCEPT !["daemon"] =
                         [g \in DOMAIN fds["daemon"] \cup {f} |->
                            IF g = f THEN "null" ELSE fds["daemon"][g]]],
               dm' = [dm EXCEPT !["daemon"] = "dup"]
        PROVE  DmInv'
    <3>1. /\ fds'["original"] = fds["original"] /\ fds'["first"] = fds["first"]
          /\ fds'["daemon"] = [g \in DOMAIN fds["daemon"] \cup {f} |->
                                 IF g = f THEN "null" ELSE fds["daemon"][g]]
          /\ fds' = [p \in Dm |-> fds'[p]]
      BY <2>3, DaemonFds
    <3>2. /\ dm'["original"] = dm["original"] /\ dm'["first"] = dm["first"]
          /\ dm'["daemon"] = "dup"
      BY <2>3
    <3>3. DmTypeOK'
      BY <2>1, <2>3, <3>1
    <3>4. DmFunctions'
      <4>1. /\ fds'["daemon"] = [g \in DOMAIN fds'["daemon"] |-> fds'["daemon"][g]]
            /\ DOMAIN fds'["daemon"] = DOMAIN fds["daemon"] \cup {f} /\ f \in Nat
        BY <3>1
      <4> QED
        BY <3>1, <4>1
    <3>5. \A g \in DOMAIN fds'["daemon"] \ Std : g >= DmMax \/ fds'["daemon"][g] = "null"
      BY <2>1, <3>1
    <3> QED
      BY <2>1, <3>1, <3>2, <3>3, <3>4, <3>5
  <2> QED
    BY <1>1, <2>2, <2>3 DEF OpenNull
<1>2. CASE DupNull
  BY <1>2 DEF DupNull
<1>3. CASE UmaskChdir
  BY <1>3 DEF UmaskChdir
<1> QED
  BY <1>1, <1>2, <1>3

\* What the three processes have at each point on the way to a daemon.
THEOREM DaemonInductive == DmSpec => []DmInv
<1>1. ASSUME DmInit PROVE DmInv
  <2> USE DEF Dm, Std, All
  <2>1. PICK open \in SUBSET DmFds : Std \subseteq open /\ fds = All([f \in open |-> "caller"])
    BY <1>1 DEF DmInit
  <2>2. /\ dm["original"] = "close" /\ dm["first"] = "none" /\ dm["daemon"] = "none"
        /\ leader["daemon"] = FALSE
    BY <1>1 DEF DmInit
  <2>3. DmTypeOK
    BY <1>1, <2>1 DEF DmInit, DmTypeOK
  <2>4. DmFunctions
    BY <2>1, DmAssumption DEF DmFunctions
  <2> QED
    BY <2>2, <2>3, <2>4 DEF DmInv, DmStages
<1>2. DmInv /\ [DmNext]_dmVars => DmInv'
  <2>1. ASSUME DmInv, UNCHANGED dmVars PROVE DmInv'
    BY <2>1 DEF DmInv, DmTypeOK, DmFunctions, DmStages, Closed, FdNull, dmVars, dmAttr
  <2> QED
    BY <2>1, OriginalKeeps, ForksKeep, DaemonKeeps DEF DmNext
<1> QED
  BY <1>1, <1>2, PTL DEF DmSpec

\* What the daemon runs with is what daemon(7) asks for.
THEOREM DaemonDetachedHolds == DmSpec => []DaemonDetached
<1>1. DmInv => DaemonDetached
  BY DEF DmInv, DmTypeOK, DmFunctions, DmStages, Closed, DaemonDetached, Dm, Std
<1> QED
  BY DaemonInductive, <1>1, PTL

---------------------------------------------------------------------------
(* SharedOffset *)

\* A process that seeks is at its own place, and one that writes is not where
\* the other's lines belong, unless the two overlap.
LEMMA SeekKeeps ==
  ASSUME OfInv, NEW w \in Writer, Seek(w)
  PROVE  OfInv'
<1> USE OfAssumption DEF Writer, Place
<1>1. /\ OfLines \in Nat \ {0} /\ left["child"] \in 0..OfLines /\ left["parent"] \in 0..OfLines
      /\ writer[w] = "seek" /\ left[w] = OfLines
      /\ writer' = [writer EXCEPT ![w] = "write"] /\ offset' = Place(w)
      /\ UNCHANGED <<left, lines>>
      /\ overlap' = (overlap \/ writer[OtherWriter(w)] = "write") /\ last' = w
  BY DEF OfInv, OfTypeOK, OfStages, Seek
<1>2. OfTypeOK'
  BY <1>1 DEF OfInv, OfTypeOK
<1>3. OfRoom'
  BY <1>1 DEF OfRoom
<1>4. OfStages'
  <2>1. \A v \in Writer : writer'[v] \in {"none", "open", "calloc", "seek"} => left'[v] = OfLines
    BY <1>1 DEF OfInv, OfTypeOK, OfStages
  <2>2. ASSUME ~ overlap' PROVE writer[OtherWriter(w)] # "write"
    BY <2>2, <1>1
  <2>3. ASSUME ~ overlap', NEW v \in Writer, writer'[v] = "write"
        PROVE  offset' = Place(v) + OfLines - left'[v]
    <3>1. v = w
      BY <2>2, <2>3, <1>1 DEF OtherWriter, OfInv, OfTypeOK
    <3> QED
      BY <3>1, <1>1
  <2>4. ASSUME ~ overlap' PROVE \E v \in Writer : writer'[v] # "write"
    BY <2>2, <2>4, <1>1 DEF OtherWriter, OfInv, OfTypeOK
  <2>5. writer'["parent"] = "open" => writer'["child"] = "none"
    BY <1>1 DEF OfInv, OfTypeOK, OfStages
  <2>6. \A v \in Writer : last' = v => Place(v) <= offset'
    BY <1>1
  <2> QED
    BY <2>1, <2>3, <2>4, <2>5, <2>6 DEF OfStages
<1>5. RightWhenSerial'
  <2>1. ~ overlap' => ~ overlap
    BY <1>1
  <2> HIDE DEF Place
  <2> QED
    BY <2>1, <1>1 DEF OfInv, RightWhenSerial
<1>6. LastSeekerKeepsLines'
  BY <1>1 DEF LastSeekerKeepsLines
<1> QED
  BY <1>2, <1>3, <1>4, <1>5, <1>6 DEF OfInv

\* What neither seeks nor writes leaves the lines right.
LEMMA LinesLeftAlone ==
  ASSUME OfInv, UNCHANGED <<left, offset, lines, overlap, last>>
  PROVE  RightWhenSerial' /\ LastSeekerKeepsLines'
<1>1. RightWhenSerial'
  BY DEF OfInv, RightWhenSerial
<1>2. LastSeekerKeepsLines'
  BY DEF OfInv, LastSeekerKeepsLines
<1> QED
  BY <1>1, <1>2

\* A line is written behind those its process has written.
LEMMA WriteLineKeeps ==
  ASSUME OfInv, NEW w \in Writer, WriteLine(w)
  PROVE  OfInv'
<1> USE OfAssumption DEF Writer, Place
<1>1. /\ OfLines \in Nat \ {0} /\ left \in [Writer -> 0..OfLines]
      /\ offset \in 0..(3 * OfLines)
      /\ writer[w] = "write" /\ left[w] > 0
      /\ lines' = [lines EXCEPT ![offset + 1] = <<w, OfLines - left[w] + 1>>]
      /\ offset' = offset + 1 /\ left' = [left EXCEPT ![w] = @ - 1]
      /\ UNCHANGED <<writer, overlap, last>>
  BY DEF OfInv, OfTypeOK, WriteLine
<1>2. /\ offset + 1 \in 1..(3 * OfLines)
      /\ offset' + left'["child"] + left'["parent"] <= 3 * OfLines
  BY <1>1 DEF OfInv, OfRoom
<1>3. OfTypeOK' /\ OfRoom'
  BY <1>1, <1>2 DEF OfInv, OfTypeOK, OfRoom
<1>4. OfStages'
  <2>1. \A v \in Writer : left'[v] = IF v = w THEN left[w] - 1 ELSE left[v]
    BY <1>1
  <2>2. \A v \in Writer : writer[v] \in {"none", "open", "calloc", "seek"} => v # w
    BY <1>1
  <2>3. ASSUME ~ overlap, NEW v \in Writer, writer[v] = "write"
        PROVE  v = w /\ offset' = Place(v) + OfLines - left'[v]
    <3>1. v = w
      BY <2>3, <1>1 DEF OfInv, OfStages
    <3>2. offset = Place(w) + OfLines - left[w] /\ left[w] \in 0..OfLines
      BY <2>3, <1>1 DEF OfInv, OfStages
    <3> QED
      BY <3>1, <3>2, <2>1, <1>1
  <2> QED
    BY <1>1, <2>1, <2>2, <2>3 DEF OfInv, OfStages
<1>5. /\ \A i \in 1..(3 * OfLines) :
           lines'[i] = IF i = offset + 1 THEN <<w, OfLines - left[w] + 1>> ELSE lines[i]
      /\ \A v \in Writer : left'[v] = IF v = w THEN left[w] - 1 ELSE left[v]
      /\ \A v \in Writer : left[v] \in 0..OfLines
  BY <1>1, <1>2 DEF OfInv, OfTypeOK
<1>6. RightWhenSerial'
  <2> SUFFICES ASSUME ~ overlap', NEW v \in Writer, NEW i \in 1..(3 * OfLines), NEW k \in 1..OfLines
               PROVE  lines'[i] = <<v, k>> <=> i = Place(v) + k /\ k <= OfLines - left'[v]
    BY <1>1 DEF RightWhenSerial
  <2>1. offset = Place(w) + OfLines - left[w]
    BY <1>1 DEF OfInv, OfStages
  <2>2. lines[i] = <<v, k>> <=> i = Place(v) + k /\ k <= OfLines - left[v]
    BY <1>1 DEF OfInv, RightWhenSerial
  <2>3. CASE i = offset + 1
    BY <2>1, <2>2, <2>3, <1>1, <1>5
  <2>4. CASE i # offset + 1
    BY <2>1, <2>2, <2>4, <1>1, <1>5
  <2> QED
    BY <2>3, <2>4
<1>7. LastSeekerKeepsLines'
  <2> SUFFICES ASSUME NEW v \in Writer, last = v, NEW k \in 1..OfLines, k <= OfLines - left'[v]
               PROVE  \E i \in (Place(v) + 1)..offset' : lines'[i] = <<v, k>>
    BY <1>1 DEF LastSeekerKeepsLines
  <2>1. Place(v) <= offset
    BY DEF OfInv, OfStages
  <2>2. CASE k <= OfLines - left[v]
    <3>1. PICK i \in (Place(v) + 1)..offset : lines[i] = <<v, k>>
      BY <2>2 DEF OfInv, LastSeekerKeepsLines
    <3>2. i \in (Place(v) + 1)..offset' /\ i \in 1..(3 * OfLines) /\ i # offset + 1
      BY <1>1
    <3> QED
      BY <3>1, <3>2, <1>5
  <2>3. CASE ~ (k <= OfLines - left[v])
    <3>1. v = w /\ k = OfLines - left[w] + 1
      BY <2>3, <1>5
    <3>2. offset + 1 \in (Place(v) + 1)..offset'
      BY <2>1, <1>1
    <3> QED
      BY <3>1, <3>2, <1>2, <1>5
  <2> QED
    BY <2>2, <2>3
<1> QED
  BY <1>3, <1>4, <1>6, <1>7 DEF OfInv

\* The lines each process of fork_r6_of has left, and where the shared offset is.
THEOREM OffsetInductive == OfSpec => []OfInv
<1> USE OfAssumption DEF Writer
<1>1. OfInit => OfInv
  BY DEF OfInit, OfInv, OfTypeOK, OfRoom, OfStages, RightWhenSerial, LastSeekerKeepsLines, Place, Hole
<1>2. OfInv /\ [OfNext]_ofVars => OfInv'
  <2> SUFFICES ASSUME OfInv, [OfNext]_ofVars PROVE OfInv'
    OBVIOUS
  <2>1. CASE OpenFork
    BY <2>1, LinesLeftAlone DEF OpenFork, OfInv, OfTypeOK, OfRoom, OfStages
  <2>2. ASSUME NEW w \in Writer, OfCalloc(w) PROVE OfInv'
    BY <2>2, LinesLeftAlone DEF OfCalloc, OfInv, OfTypeOK, OfRoom, OfStages
  <2>3. ASSUME NEW w \in Writer, Leave(w) PROVE OfInv'
    BY <2>3, LinesLeftAlone DEF Leave, OfInv, OfTypeOK, OfRoom, OfStages
  <2>4. CASE UNCHANGED ofVars
    BY <2>4, LinesLeftAlone DEF ofVars, OfInv, OfTypeOK, OfRoom, OfStages
  <2> QED
    BY <2>1, <2>2, <2>3, <2>4, SeekKeeps, WriteLineKeeps DEF OfNext
<1> QED
  BY <1>1, <1>2, PTL DEF OfSpec

\* The two processes of fork_r6_of, however they interleave: the lines of each are
\* where they belong if one of them is done before the other seeks.
THEOREM RightWhenSerialHolds == OfSpec => []RightWhenSerial
<1>1. OfInv => RightWhenSerial
  BY DEF OfInv
<1> QED
  BY OffsetInductive, <1>1, PTL

\* The two processes of fork_r6_of, however they interleave: no line of the one that
\* made the last seek is lost.
THEOREM LastSeekerKeepsLinesHolds == OfSpec => []LastSeekerKeepsLines
<1>1. OfInv => LastSeekerKeepsLines
  BY DEF OfInv
<1> QED
  BY OffsetInductive, <1>1, PTL

---------------------------------------------------------------------------
(* SimpCp *)

\* The first bytes of a buffer after a read are the bytes of the file.
LEMMA LoadOf ==
  ASSUME NEW k \in Nat, NEW n \in Nat, cpBuf \in Seq(1..n), srcPos \in Nat, srcPos + k <= n
  PROVE  /\ Load(k) \in Seq(1..n)
         /\ k <= Len(Load(k)) /\ Len(cpBuf) <= Len(Load(k))
         /\ \A i \in 1..k : Load(k)[i] = srcPos + i
         /\ k = 0 => Load(k) = cpBuf
<1>1. Len(cpBuf) \in Nat /\ cpBuf = [i \in 1..Len(cpBuf) |-> cpBuf[i]]
      /\ \A i \in 1..Len(cpBuf) : cpBuf[i] \in 1..n
  BY LenProperties, ElementOfSeq
<1> DEFINE size == IF k < Len(cpBuf) THEN Len(cpBuf) ELSE k
           byte(i) == IF i <= k THEN srcPos + i ELSE cpBuf[i]
<1>2. size \in Nat /\ k <= size /\ Len(cpBuf) <= size /\ (k = 0 => size = Len(cpBuf))
  BY <1>1
<1>3. Load(k) = [i \in 1..size |-> byte(i)]
  BY DEF Load
<1>4. \A i \in 1..size : byte(i) \in 1..n
  BY <1>1, <1>2
<1>5. k = 0 => \A i \in 1..size : byte(i) = cpBuf[i]
  OBVIOUS
<1>6. \A i \in 1..k : i \in 1..size /\ byte(i) = srcPos + i
  BY <1>2
<1> HIDE DEF size, byte
<1>7. Load(k) \in Seq(1..n) /\ Len(Load(k)) = size
  BY <1>2, <1>3, <1>4
<1> QED
  BY <1>1, <1>2, <1>3, <1>5, <1>6, <1>7
\* A place of the file that a write does not reach was there before.
LEMMA NotReached ==
  ASSUME NEW a \in Nat, NEW k \in Nat, NEW l \in Nat, a <= l,
         NEW i \in 1..(IF a + k < l THEN l ELSE a + k), i \notin (a + 1)..(a + k)
  PROVE  i \in 1..l /\ (i <= a <=> i <= a + k)
OBVIOUS

\* A write keeps the file a file, and a whole one extends the copy.
LEMMA StoreOf ==
  ASSUME NEW k \in Nat, srcLen \in Nat, oldLen \in Nat, dstPos \in Nat,
         cpBuf \in Seq(1..srcLen), dest \in Seq({OldByte, Garbage} \cup 1..srcLen),
         dstPos <= Len(dest)
  PROVE  /\ Store(k) \in Seq({OldByte, Garbage} \cup 1..srcLen)
         /\ dstPos + k <= Len(Store(k))
         /\ (/\ k <= Len(cpBuf) /\ \A i \in 1..k : cpBuf[i] = dstPos + i
             /\ \A i \in 1..dstPos : dest[i] = i)
            => \A i \in 1..(dstPos + k) : Store(k)[i] = i
<1> DEFINE size == IF dstPos + k < Len(dest) THEN Len(dest) ELSE dstPos + k
           byte(i) == IF i \notin (dstPos + 1)..(dstPos + k) THEN dest[i]
                      ELSE IF i - dstPos <= Len(cpBuf) THEN cpBuf[i - dstPos]
                      ELSE Garbage
           S == {OldByte, Garbage} \cup 1..srcLen
<1>1. /\ Len(cpBuf) \in Nat /\ \A i \in 1..Len(cpBuf) : cpBuf[i] \in 1..srcLen
      /\ Len(dest) \in Nat /\ \A i \in 1..Len(dest) : dest[i] \in S
  BY LenProperties, ElementOfSeq
<1>2. size \in Nat /\ Store(k) = [i \in 1..size |-> byte(i)]
  BY <1>1 DEF Store
<1>3. \A i \in 1..size : byte(i) \in S
  <2> TAKE i \in 1..size
  <2>1. CASE i \notin (dstPos + 1)..(dstPos + k)
    <3>1. i \in 1..Len(dest)
      BY <2>1, <1>1, NotReached
    <3> QED
      BY <2>1, <3>1, <1>1
  <2>2. CASE i \in (dstPos + 1)..(dstPos + k) /\ i - dstPos <= Len(cpBuf)
    <3>1. i - dstPos \in 1..Len(cpBuf)
      BY <2>2, <1>1
    <3> QED
      BY <2>2, <3>1, <1>1
  <2>3. CASE i \in (dstPos + 1)..(dstPos + k) /\ ~ (i - dstPos <= Len(cpBuf))
    BY <2>3
  <2> QED
    BY <2>1, <2>2, <2>3
<1>4. Store(k) \in Seq(S) /\ dstPos + k <= Len(Store(k))
  <2>1. dstPos + k <= size
    BY <1>1
  <2> HIDE DEF size, byte, S
  <2> QED
    BY <1>2, <1>3, <2>1
<1>5. ASSUME k <= Len(cpBuf), \A i \in 1..k : cpBuf[i] = dstPos + i,
             \A i \in 1..dstPos : dest[i] = i
      PROVE  \A i \in 1..(dstPos + k) : Store(k)[i] = i
  <2> TAKE i \in 1..(dstPos + k)
  <2>1. i \in 1..size
    BY <1>1
  <2>2. byte(i) = i
    <3>1. CASE i \in (dstPos + 1)..(dstPos + k)
      <4>1. i - dstPos \in 1..k /\ i - dstPos <= Len(cpBuf) /\ dstPos + (i - dstPos) = i
        BY <3>1, <1>1, <1>5
      <4> QED
        BY <3>1, <4>1, <1>5
    <3>2. CASE i \notin (dstPos + 1)..(dstPos + k)
      <4>1. i \in 1..dstPos
        BY <3>2
      <4> QED
        BY <3>2, <4>1, <1>5
    <3> QED
      BY <3>1, <3>2
  <2> HIDE DEF byte, size
  <2> QED
    BY <1>2, <2>1, <2>2
<1> QED
  BY <1>4, <1>5

\* A read adds the next bytes of the source to what the buffer holds; it is in
\* step with the file unless it is the second of a block.
LEMMA CpReadKeeps ==
  ASSUME CpInv, NEW k \in 0..(2 * CpBlock), CpRead(k)
  PROVE  CpInv'
<1> USE CpAssumption
<1>1. /\ srcLen \in Nat /\ CpBlock \in Nat \ {0} /\ srcPos \in 0..srcLen /\ k \in Nat
      /\ copier = "read" /\ nr \in Nat /\ nr < CpBlock /\ tw = 0 /\ dstPos \in Nat
      /\ cpBuf \in Seq(1..srcLen) /\ cut \in BOOLEAN
      /\ k <= CpBlock /\ srcPos + k <= srcLen /\ (k = 0 => srcPos = srcLen)
      /\ srcPos' = srcPos + k /\ cpBuf' = Load(k) /\ nr' = nr + k
      /\ UNCHANGED <<cpProgram, srcLen, oldLen, tw, dest, dstPos>>
  BY DEF CpInv, CpTypeOK, CpBuffered, CpRead, AtMost, cpFile
<1>2. /\ Load(k) \in Seq(1..srcLen)
      /\ k <= Len(Load(k)) /\ Len(cpBuf) <= Len(Load(k))
      /\ \A i \in 1..k : Load(k)[i] = srcPos + i
      /\ k = 0 => Load(k) = cpBuf
      /\ Len(cpBuf) \in Nat /\ Len(Load(k)) \in Nat
  BY <1>1, LoadOf, LenProperties
<1>3. /\ cut' = (cut \/ (cpProgram = "simpcp2" /\ nr > 0 /\ k > 0))
      /\ copier' \in {"read", "write", "done"}
      /\ copier' = "read" => k > 0 /\ cpProgram = "simpcp2" /\ nr + k < CpBlock
      /\ copier' = "done" => nr = 0 /\ k = 0
  BY <1>1 DEF CpRead
<1>4. CpTypeOK'
  BY <1>1, <1>3 DEF CpInv, CpTypeOK
<1>5. CpBuffered'
  BY <1>1, <1>2, <1>3 DEF CpInv, CpBuffered
<1>6. ASSUME ~ cut'
      PROVE  /\ dstPos + nr' = srcPos' /\ nr' <= Len(Load(k))
             /\ \A i \in 1..nr' : Load(k)[i] = dstPos + i
  <2>1. /\ ~ cut /\ dstPos + nr = srcPos /\ nr <= Len(cpBuf)
        /\ \A i \in 1..nr : cpBuf[i] = dstPos + i
        /\ cpProgram = "simpcp1" => nr = 0
        /\ nr = 0 \/ k = 0
    <3>1. ~ cut /\ ~ (cpProgram = "simpcp2" /\ nr > 0 /\ k > 0)
      BY <1>3, <1>6
    <3>2. cpProgram = "simpcp1" \/ cpProgram = "simpcp2"
      BY DEF CpInv
    <3>3. cpProgram = "simpcp1" => nr = 0
      BY <1>1 DEF CpInv, CpBuffered
    <3>4. /\ dstPos + nr = srcPos /\ nr <= Len(cpBuf)
          /\ \A i \in 1..nr : cpBuf[i] = dstPos + i
      BY <1>1, <3>1 DEF CpInv, CpInStep
    <3> QED
      BY <1>1, <3>1, <3>2, <3>3, <3>4
  <2>2. CASE k = 0
    BY <2>1, <2>2, <1>1, <1>2
  <2>3. CASE nr = 0
    BY <2>1, <2>3, <1>1, <1>2
  <2> QED
    BY <2>1, <2>2, <2>3
<1>7. CpInStep'
  BY <1>1, <1>6 DEF CpInStep
<1>8. CopyFaithful'
  <2>1. ~ cut' => \A i \in 1..dstPos : dest[i] = i
    BY <1>3 DEF CpInv, CopyFaithful
  <2>2. ~ cut' => (copier' = "done" => dstPos = srcLen)
    BY <1>1, <1>3, <1>6
  <2> QED
    BY <2>1, <2>2, <1>1 DEF CopyFaithful
<1> QED
  BY <1>1, <1>3, <1>4, <1>5, <1>7, <1>8 DEF CpInv

\* A write that is not short takes the file to where the source was read to.
LEMMA CpWriteKeeps ==
  ASSUME CpInv, NEW k \in 0..(2 * CpBlock), CpWrite(k)
  PROVE  CpInv'
<1> USE CpAssumption
<1>1. /\ srcLen \in Nat /\ oldLen \in Nat /\ CpBlock \in Nat \ {0} /\ srcPos \in 0..srcLen
      /\ copier = "write" /\ nr \in 0..(2 * CpBlock) /\ k \in 1..nr /\ k \in Nat
      /\ tw \in Nat /\ tw <= nr /\ dstPos \in Nat
      /\ cpBuf \in Seq(1..srcLen) /\ cut \in BOOLEAN
      /\ dest \in Seq({OldByte, Garbage} \cup 1..srcLen) /\ dstPos <= Len(dest)
      /\ dest' = Store(k) /\ dstPos' = dstPos + k
      /\ cut' = (cut \/ k < nr)
      /\ UNCHANGED <<cpProgram, srcLen, oldLen, srcPos, cpBuf>>
  BY DEF CpInv, CpTypeOK, CpBuffered, CpWrite, cpFile
<1>2. \/ tw + k < nr /\ tw' = tw + k /\ nr' = nr /\ copier' = "write"
      \/ tw' = 0 /\ nr' = 0 /\ copier' = "read"
  BY DEF CpWrite
<1>3. /\ Store(k) \in Seq({OldByte, Garbage} \cup 1..srcLen)
      /\ dstPos + k <= Len(Store(k))
      /\ (/\ k <= Len(cpBuf) /\ \A i \in 1..k : cpBuf[i] = dstPos + i
          /\ \A i \in 1..dstPos : dest[i] = i)
         => \A i \in 1..(dstPos + k) : Store(k)[i] = i
  BY <1>1, StoreOf
<1>4. CpTypeOK'
  <2>1. \A i \in 1..Len(Store(k)) : Store(k)[i] \in {OldByte, Garbage} \cup 1..srcLen
    BY <1>3, ElementOfSeq
  <2> QED
    BY <1>1, <1>2, <2>1 DEF CpTypeOK
<1>5. CpBuffered'
  BY <1>1, <1>2, <1>3 DEF CpBuffered
<1>6. ASSUME ~ cut'
      PROVE  /\ tw' = 0 /\ nr' = 0 /\ dstPos' = srcPos
             /\ \A i \in 1..(dstPos + k) : Store(k)[i] = i
  <2>1. /\ ~ cut /\ k = nr /\ tw = 0
        /\ dstPos + nr = srcPos /\ nr <= Len(cpBuf)
        /\ \A i \in 1..nr : cpBuf[i] = dstPos + i
        /\ \A i \in 1..dstPos : dest[i] = i
    <3>1. ~ cut /\ ~ (k < nr)
      BY <1>1, <1>6
    <3>2. /\ tw = 0 /\ dstPos + nr = srcPos /\ nr <= Len(cpBuf)
          /\ \A i \in 1..nr : cpBuf[i] = dstPos + i
      BY <1>1, <3>1 DEF CpInv, CpInStep
    <3>3. \A i \in 1..dstPos : dest[i] = i
      BY <3>1 DEF CpInv, CopyFaithful
    <3> QED
      BY <1>1, <3>1, <3>2, <3>3
  <2> QED
    BY <2>1, <1>1, <1>2, <1>3
<1>7. CpInStep'
  <2>1. Len(cpBuf) \in Nat
    BY <1>1, LenProperties
  <2> QED
    BY <1>1, <1>6, <2>1 DEF CpInStep
<1>8. CopyFaithful'
  <2>1. copier' # "done"
    BY <1>2
  <2> QED
    BY <1>1, <1>6, <2>1 DEF CopyFaithful
<1> QED
  BY <1>1, <1>3, <1>4, <1>5, <1>7, <1>8 DEF CpInv

\* The buffer and the two files of a copy are in step.
THEOREM SimpCpInductive == CpSpec => []CpInv
<1> USE CpAssumption
<1>1. ASSUME CpInit PROVE CpInv
  <2>1. /\ srcLen \in Nat /\ oldLen \in Nat /\ copier = "openSrc" /\ cut = FALSE
        /\ srcPos = 0 /\ dstPos = 0 /\ nr = 0 /\ tw = 0 /\ cpBuf = <<>>
        /\ cpProgram \in {"simpcp1", "simpcp2"} /\ dest = [i \in 1..oldLen |-> OldByte]
    BY <1>1 DEF CpInit
  <2>2. /\ dest \in Seq({OldByte, Garbage} \cup 1..srcLen) /\ Len(dest) = oldLen
        /\ \A i \in 1..Len(dest) : dest[i] \in {OldByte, Garbage} \cup 1..srcLen
    BY <2>1
  <2>3. cpBuf \in Seq(1..srcLen) /\ Len(cpBuf) = 0
    BY <2>1
  <2>4. CpTypeOK
    BY <2>1, <2>2 DEF CpTypeOK
  <2>5. CpBuffered /\ CpInStep
    BY <2>1, <2>2, <2>3 DEF CpBuffered, CpInStep
  <2>6. CopyFaithful
    BY <2>1 DEF CopyFaithful
  <2> QED
    BY <2>1, <2>2, <2>4, <2>5, <2>6 DEF CpInv
<1>2. CpInv /\ [CpNext]_cpVars => CpInv'
  <2> SUFFICES ASSUME CpInv, [CpNext]_cpVars PROVE CpInv'
    OBVIOUS
  <2>1. CASE CpSetup
    BY <2>1 DEF CpSetup, AfterSetup, cpFile, CpInv, CpTypeOK, CpBuffered, CpInStep,
                CopyFaithful
  <2>2. CASE CpFails
    BY <2>2 DEF CpFails, cpFile, CpInv, CpTypeOK, CpBuffered, CpInStep,
                CopyFaithful
  <2>3. CASE UNCHANGED cpVars
    BY <2>3 DEF cpVars, cpFile, CpInv, CpTypeOK, CpBuffered, CpInStep,
                CopyFaithful
  <2> QED
    BY <2>1, <2>2, <2>3, CpReadKeeps, CpWriteKeeps DEF CpNext, CpCall
<1> QED
  BY <1>1, <1>2, PTL DEF CpSpec

\* Whatever the sizes and wherever a call fails, unless a transfer is short in the
\* middle of the file: what simpcp1 and simpcp2 have written is the source from its
\* start, all of it when they end well.  What an older destination keeps beyond
\* that is not part of it.
THEOREM CopyFaithfulHolds == CpSpec => []CopyFaithful
<1>1. CpInv => CopyFaithful
  BY DEF CpInv
<1> QED
  BY SimpCpInductive, <1>1, PTL

---------------------------------------------------------------------------
(* SgFile *)

\* Where each segment of the vector begins.
LEMMA IovStarts ==
  /\ Len(Iov) = 6
  /\ IovStart[1] = 0 /\ IovStart[2] = 10 /\ IovStart[3] = 30 /\ IovStart[4] = 130
  /\ IovStart[5] = 160 /\ IovStart[6] = 180 /\ IovStart[7] = 222
<1> USE DEF A_HOLE_LEN, A_LEN, B_HOLE_LEN, B_LEN, C_HOLE_LEN, C_LEN
<1>1. /\ Len(Iov) = 6 /\ Len(Iov) + 1 = 7
      /\ Iov[1][2] = 10 /\ Iov[2][2] = 20 /\ Iov[3][2] = 100
      /\ Iov[4][2] = 30 /\ Iov[5][2] = 20 /\ Iov[6][2] = 42
  BY DEF Iov
<1> DEFINE step(f, j) == IF j = 1 THEN 0 ELSE f[j - 1] + Iov[j - 1][2]
           sums == [j \in 1..7 |-> IF j = 1 THEN 0 ELSE IF j = 2 THEN 10
                      ELSE IF j = 3 THEN 30 ELSE IF j = 4 THEN 130
                      ELSE IF j = 5 THEN 160 ELSE IF j = 6 THEN 180 ELSE 222]
<1>2. sums = [j \in 1..7 |-> step(sums, j)]
  <2>1. ASSUME NEW j \in 1..7 PROVE sums[j] = step(sums, j)
    <3>1. j = 1 \/ j = 2 \/ j = 3 \/ j = 4 \/ j = 5 \/ j = 6 \/ j = 7
      OBVIOUS
    <3> QED
      BY <3>1, <1>1
  <2>2. sums = [j \in 1..7 |-> sums[j]]
    OBVIOUS
  <2> QED
    BY <2>1, <2>2
<1>3. IovStart = [j \in 1..7 |-> step(IovStart, j)]
  <2> DEFINE begins(f) == f = [j \in 1..7 |-> step(f, j)]
  <2>1. begins(sums)
    BY <1>2
  <2>2. IovStart = CHOOSE f : begins(f)
    BY <1>1 DEF IovStart
  <2> HIDE DEF begins
  <2>3. begins(IovStart)
    BY <2>1, <2>2
  <2> QED
    BY <2>3 DEF begins
<1>4. /\ 1 \in 1..7 /\ 2 \in 1..7 /\ 3 \in 1..7 /\ 4 \in 1..7
      /\ 5 \in 1..7 /\ 6 \in 1..7 /\ 7 \in 1..7
  OBVIOUS
<1>5. \A j \in 1..7 : IovStart[j] = step(IovStart, j)
  BY <1>3
<1>6. /\ IovStart[1] = 0 /\ IovStart[2] = IovStart[1] + 10
      /\ IovStart[3] = IovStart[2] + 20 /\ IovStart[4] = IovStart[3] + 100
      /\ IovStart[5] = IovStart[4] + 30 /\ IovStart[6] = IovStart[5] + 20
      /\ IovStart[7] = IovStart[6] + 42
  BY <1>1, <1>4, <1>5
<1> QED
  BY <1>1, <1>6

\* writev lays the segments out as the seeks do.
LEMMA IovAsDrawn ==
  ASSUME NEW i \in 1..222
  PROVE  IovByte(i) = Drawn(i)
<1> DEFINE inside(j) == i \in (IovStart[j] + 1)..IovStart[j + 1]
           j0 == CHOOSE j \in 1..6 : inside(j)
<1>1. IovByte(i) = Iov[j0][1]
  BY IovStarts DEF IovByte
<1>2. /\ inside(1) <=> i \in 1..10
      /\ inside(2) <=> i \in 11..30
      /\ inside(3) <=> i \in 31..130
      /\ inside(4) <=> i \in 131..160
      /\ inside(5) <=> i \in 161..180
      /\ inside(6) <=> i \in 181..222
  BY IovStarts
<1>3. \A j \in 1..6 : j = 1 \/ j = 2 \/ j = 3 \/ j = 4 \/ j = 5 \/ j = 6
  OBVIOUS
<1>4. \E j \in 1..6 : inside(j)
  <2>1. i \in 1..10 \/ i \in 11..30 \/ i \in 31..130 \/ i \in 131..160 \/ i \in 161..180
          \/ i \in 181..222
    OBVIOUS
  <2> HIDE DEF inside
  <2> QED
    BY <1>2, <2>1
<1>5. j0 \in 1..6 /\ inside(j0)
  <2> HIDE DEF inside
  <2> QED
    BY <1>4
<1>6. /\ Iov[1][1] = "hole" /\ Iov[2][1] = "A" /\ Iov[3][1] = "hole"
      /\ Iov[4][1] = "B" /\ Iov[5][1] = "hole" /\ Iov[6][1] = "C"
  BY DEF Iov
<1>7. Drawn(i) = IF i \in 11..30 THEN "A" ELSE IF i \in 131..160 THEN "B"
                 ELSE IF i \in 181..222 THEN "C" ELSE "hole"
  BY DEF Drawn, A_START_OFF, B_START_OFF, C_START_OFF, Nul,
         A_HOLE_LEN, A_LEN, B_HOLE_LEN, B_LEN, C_HOLE_LEN, C_LEN
<1> HIDE DEF inside, j0
<1>8. j0 = 1 \/ j0 = 2 \/ j0 = 3 \/ j0 = 4 \/ j0 = 5 \/ j0 = 6
  BY <1>3, <1>5
<1> QED
  BY <1>1, <1>2, <1>5, <1>6, <1>7, <1>8

\* A buffer written whole, behind the part of the file that is as drawn.
LEMMA PutAsDrawn ==
  ASSUME NEW off \in Nat, NEW n \in Nat, NEW what,
         Len(sgFile) \in Nat, Len(sgFile) <= off,
         \A i \in 1..Len(sgFile) : sgFile[i] = Drawn(i),
         \A i \in (Len(sgFile) + 1)..off : Drawn(i) = Nul,
         \A i \in (off + 1)..(off + n) : Drawn(i) = what
  PROVE  SgPut(off, what, n) = DrawnTo(off + n)
<1> DEFINE size == IF off + n > Len(sgFile) THEN off + n ELSE Len(sgFile)
           byte(i) == IF i \in (off + 1)..(off + n) THEN what
                      ELSE IF i <= Len(sgFile) THEN sgFile[i] ELSE Nul
<1>2. size = off + n
  OBVIOUS
<1>3. SgPut(off, what, n) = [i \in 1..size |-> byte(i)]
  BY DEF SgPut
<1>4. ASSUME NEW i \in 1..size PROVE byte(i) = Drawn(i)
  <2>1. CASE i \in (off + 1)..(off + n)
    BY <2>1
  <2>2. CASE i \notin (off + 1)..(off + n) /\ i <= Len(sgFile)
    BY <2>2
  <2>3. CASE i \notin (off + 1)..(off + n) /\ ~ (i <= Len(sgFile))
    <3>1. i \in (Len(sgFile) + 1)..off
      BY <2>3, <1>2
    <3> QED
      BY <2>3, <3>1
  <2> QED
    BY <2>1, <2>2, <2>3
<1> HIDE DEF size, byte
<1> QED
  BY <1>2, <1>3, <1>4 DEF DrawnTo

\* The places of the buffers.
LEMMA DrawnBytes ==
  /\ A_START_OFF = 10 /\ B_START_OFF = 130 /\ C_START_OFF = 180
  /\ A_LEN = 20 /\ B_LEN = 30 /\ C_LEN = 42
  /\ \A i \in 1..10 : Drawn(i) = Nul
  /\ \A i \in 11..30 : Drawn(i) = "A"
  /\ \A i \in 31..130 : Drawn(i) = Nul
  /\ \A i \in 131..160 : Drawn(i) = "B"
  /\ \A i \in 161..180 : Drawn(i) = Nul
  /\ \A i \in 181..222 : Drawn(i) = "C"
BY DEF Drawn, A_START_OFF, B_START_OFF, C_START_OFF,
       A_HOLE_LEN, A_LEN, B_HOLE_LEN, B_LEN, C_HOLE_LEN, C_LEN

\* What a seek and a write of all the bytes, or of half of them, do.
LEMMA SgWriteKeeps ==
  ASSUME SgInv, SgNormal
  PROVE  SgInv'
<1>1. /\ UNCHANGED sgMem /\ sgMem \in [SgName -> {"none", "live", "freed"}]
      /\ sg \in {"writeA", "writeB", "writeC"} /\ \A b \in SgName : sgMem[b] = "live"
      /\ sg' \in {"writeB", "writeC", "close", "fatal"} /\ sgShort' \in BOOLEAN
  BY DEF SgInv, SgTypeOK, SgMemory, SgNormal, SgWriteAt
<1>2. SgTypeOK' /\ SetupAllOrNothing' /\ SgMemory'
  BY <1>1 DEF SgTypeOK, SetupAllOrNothing, SgMemory, SgName
<1>3. sg' \notin SgName \cup {"open", "writeA", "writev"}
  BY <1>1 DEF SgName
<1>4. ASSUME ~ sgShort', sg' # "fatal"
      PROVE  sgFile' = DrawnTo(SgDone')
  <2>1. CASE SgWriteAt("writeA", A_START_OFF, "A", A_LEN, "writeB")
    <3>1. PICK n \in {A_LEN, A_LEN \div 2} :
            /\ sgFile' = SgPut(A_START_OFF, "A", n)
            /\ sgShort' = (sgShort \/ n < A_LEN) /\ sg' = "writeB"
      BY <2>1, <1>4 DEF SgWriteAt
    <3>2. n = 20 /\ ~ sgShort
      <4>1. ~ sgShort /\ ~ (n < A_LEN)
        BY <3>1, <1>4
      <4> QED
        BY <4>1, DrawnBytes
    <3>3. sgFile = DrawnTo(0)
      BY <3>2, <2>1 DEF SgInv, SgDone, SgWriteAt
    <3>4. SgDone' = 30
      BY <3>1, DrawnBytes DEF SgDone
    <3>5. SgPut(10, "A", 20) = DrawnTo(10 + 20)
      <4>1. /\ Len(sgFile) \in Nat /\ Len(sgFile) <= 10
            /\ \A i \in 1..Len(sgFile) : sgFile[i] = Drawn(i)
        BY <3>3 DEF DrawnTo
      <4>2. \A i \in (Len(sgFile) + 1)..10 : Drawn(i) = Nul
        <5>1. \A i \in (Len(sgFile) + 1)..10 : i \in 1..10
          BY <4>1
        <5>2. \A i \in 1..10 : Drawn(i) = Nul
          BY DrawnBytes
        <5> QED
          BY <5>1, <5>2
      <4>3. \A i \in (10 + 1)..(10 + 20) : Drawn(i) = "A"
        BY DrawnBytes
      <4> QED
        BY <4>1, <4>2, <4>3, PutAsDrawn
    <3> QED
      BY <3>1, <3>2, <3>4, <3>5, DrawnBytes
  <2>2. CASE SgWriteAt("writeB", B_START_OFF, "B", B_LEN, "writeC")
    <3>1. PICK n \in {B_LEN, B_LEN \div 2} :
            /\ sgFile' = SgPut(B_START_OFF, "B", n)
            /\ sgShort' = (sgShort \/ n < B_LEN) /\ sg' = "writeC"
      BY <2>2, <1>4 DEF SgWriteAt
    <3>2. n = 30 /\ ~ sgShort
      <4>1. ~ sgShort /\ ~ (n < B_LEN)
        BY <3>1, <1>4
      <4> QED
        BY <4>1, DrawnBytes
    <3>3. sgFile = DrawnTo(30)
      BY <3>2, <2>2, DrawnBytes DEF SgInv, SgDone, SgWriteAt
    <3>4. SgDone' = 160
      BY <3>1, DrawnBytes DEF SgDone
    <3>5. SgPut(130, "B", 30) = DrawnTo(130 + 30)
      <4>1. Len(sgFile) = 30 /\ \A i \in 1..Len(sgFile) : sgFile[i] = Drawn(i)
        BY <3>3 DEF DrawnTo
      <4>2. /\ \A i \in (Len(sgFile) + 1)..130 : Drawn(i) = Nul
            /\ \A i \in (130 + 1)..(130 + 30) : Drawn(i) = "B"
        BY <4>1, DrawnBytes
      <4> QED
        BY <4>1, <4>2, PutAsDrawn
    <3> QED
      BY <3>1, <3>2, <3>4, <3>5, DrawnBytes
  <2>3. CASE SgWriteAt("writeC", C_START_OFF, "C", C_LEN, "close")
    <3>1. PICK n \in {C_LEN, C_LEN \div 2} :
            /\ sgFile' = SgPut(C_START_OFF, "C", n)
            /\ sgShort' = (sgShort \/ n < C_LEN) /\ sg' = "close"
      BY <2>3, <1>4 DEF SgWriteAt
    <3>2. n = 42 /\ ~ sgShort
      <4>1. ~ sgShort /\ ~ (n < C_LEN)
        BY <3>1, <1>4
      <4> QED
        BY <4>1, DrawnBytes
    <3>3. sgFile = DrawnTo(160)
      BY <3>2, <2>3, DrawnBytes DEF SgInv, SgDone, SgWriteAt
    <3>4. SgDone' = 222
      BY <3>1, DrawnBytes DEF SgDone
    <3>5. SgPut(180, "C", 42) = DrawnTo(180 + 42)
      <4>1. Len(sgFile) = 160 /\ \A i \in 1..Len(sgFile) : sgFile[i] = Drawn(i)
        BY <3>3 DEF DrawnTo
      <4>2. /\ \A i \in (Len(sgFile) + 1)..180 : Drawn(i) = Nul
            /\ \A i \in (180 + 1)..(180 + 42) : Drawn(i) = "C"
        BY <4>1, DrawnBytes
      <4> QED
        BY <4>1, <4>2, PutAsDrawn
    <3> QED
      BY <3>1, <3>2, <3>4, <3>5, DrawnBytes
  <2> QED
    BY <2>1, <2>2, <2>3 DEF SgNormal
<1> QED
  BY <1>2, <1>3, <1>4 DEF SgInv

\* An allocation succeeds, or the buffers before it are freed, each once.
LEMMA AllocateKeeps ==
  ASSUME SgInv, Allocate
  PROVE  SgInv'
<1>1. /\ sg \in SgName /\ UNCHANGED <<sgFile, sgShort>> /\ ~ sgShort
      /\ sgFile = DrawnTo(0)
      /\ sgMem = [b \in SgName |-> IF b \in Unwind[sg] THEN "live" ELSE "none"]
      /\ sgMem \in [SgName -> {"none", "live", "freed"}]
  BY DEF SgInv, SgTypeOK, SgMemory, Allocate, SgDone, SgName
<1>2. /\ sg' \in {"B", "C", "hole", "open", "nomem"}
      /\ sgMem' \in [SgName -> {"none", "live", "freed"}]
      /\ sg' = "nomem" => \A b \in SgName : sgMem'[b] \in {"none", "freed"}
      /\ sg' \in SgName => \A b \in SgName :
           sgMem'[b] = IF b \in Unwind[sg'] THEN "live" ELSE "none"
      /\ sg' = "open" => \A b \in SgName : sgMem'[b] = "live"
  <2>1. CASE sg' = "nomem" /\ sgMem' = SgFree(sgMem, Unwind[sg])
    BY <2>1, <1>1 DEF SgFree, SgName
  <2>2. CASE sg' = Following[sg] /\ sgMem' = [sgMem EXCEPT ![sg] = "live"]
    <3>1. CASE sg = "A"
      BY <3>1, <2>2, <1>1 DEF Following, Unwind, SgName
    <3>2. CASE sg = "B"
      BY <3>2, <2>2, <1>1 DEF Following, Unwind, SgName
    <3>3. CASE sg = "C"
      BY <3>3, <2>2, <1>1 DEF Following, Unwind, SgName
    <3>4. CASE sg = "hole"
      BY <3>4, <2>2, <1>1 DEF Following, Unwind, SgName
    <3> QED
      BY <3>1, <3>2, <3>3, <3>4, <1>1 DEF SgName
  <2> QED
    BY <2>1, <2>2 DEF Allocate
<1>3. SgTypeOK' /\ SetupAllOrNothing' /\ SgMemory'
  BY <1>1, <1>2 DEF SgInv, SgTypeOK, SetupAllOrNothing, SgMemory, SgName
<1>4. SgDone' = 0
  BY <1>2 DEF SgDone
<1> QED
  BY <1>1, <1>3, <1>4 DEF SgInv

\* What sgio_simple has allocated and written at each of its steps.
THEOREM SgioInductive == SgSpec => []SgInv
<1>1. ASSUME SgInit PROVE SgInv
  <2>1. /\ sg = "A" /\ sgShort = FALSE /\ sgFile = <<>>
        /\ sgMem = [b \in SgName |-> "none"]
    BY <1>1 DEF SgInit
  <2>2. SgDone = 0
    BY <2>1 DEF SgDone
  <2>3. sgFile = DrawnTo(SgDone)
    BY <2>1, <2>2 DEF DrawnTo
  <2>4. SgTypeOK /\ SetupAllOrNothing /\ SgMemory
    BY <2>1 DEF SgTypeOK, SetupAllOrNothing, SgMemory, SgName, Unwind
  <2> QED
    BY <2>1, <2>3, <2>4 DEF SgInv
<1>2. ASSUME SgInv, [SgNext]_sgVars PROVE SgInv'
  <2>1. CASE SgOpen
    <3>1. /\ sg = "open" /\ sg' \in {"writeA", "writev", "fatal"}
          /\ UNCHANGED <<sgMem, sgFile, sgShort>>
      BY <2>1 DEF SgOpen
    <3>2. SgDone = 0 /\ SgDone' = 0
      BY <3>1 DEF SgDone
    <3> QED
      BY <1>2, <3>1, <3>2 DEF SgInv, SgTypeOK, SetupAllOrNothing, SgMemory, SgName
  <2>2. CASE SgWritev
    <3>1. PICK n \in {IovStart[Len(Iov) + 1], IovStart[Len(Iov)], IovStart[3], 0} :
            /\ sgFile' = [i \in 1..n |-> IovByte(i)]
            /\ sgShort' = (n < IovStart[Len(Iov) + 1])
      BY <2>2 DEF SgWritev
    <3>2. sg = "writev" /\ sg' = "close" /\ UNCHANGED sgMem
      BY <2>2 DEF SgWritev
    <3>3. SgDone' = 222
      BY <3>2, DrawnBytes DEF SgDone
    <3>4. ~ sgShort' => n = 222
      <4>1. ~ sgShort' => ~ (n < IovStart[Len(Iov) + 1])
        BY <3>1
      <4>2. n \in {222, 180, 30, 0} /\ IovStart[Len(Iov) + 1] = 222
        BY IovStarts
      <4> QED
        BY <4>1, <4>2
    <3>5. ~ sgShort' => sgFile' = DrawnTo(SgDone')
      <4>1. [i \in 1..222 |-> IovByte(i)] = DrawnTo(222)
        BY IovAsDrawn DEF DrawnTo
      <4>2. ~ sgShort' => sgFile' = [i \in 1..222 |-> IovByte(i)]
        BY <3>1, <3>4
      <4> QED
        BY <3>3, <4>1, <4>2
    <3>6. SgTypeOK' /\ SetupAllOrNothing' /\ SgMemory'
      BY <1>2, <3>1, <3>2 DEF SgInv, SgTypeOK, SetupAllOrNothing, SgMemory, SgName
    <3> QED
      BY <3>2, <3>5, <3>6 DEF SgInv, SgName
  <2>3. CASE SgClose
    <3>1. /\ sg = "close" /\ sg' = "exit" /\ UNCHANGED <<sgFile, sgShort>>
          /\ sgMem' = SgFree(sgMem, {"A", "B", "C"}) /\ \A b \in SgName : sgMem[b] = "live"
      BY <2>3, <1>2 DEF SgClose, SgInv, SgMemory
    <3>2. SgDone' = SgDone
      BY <3>1 DEF SgDone
    <3>3. sgMem' \in [SgName -> {"none", "live", "freed"}]
      BY <3>1 DEF SgFree, SgName
    <3>4. SgTypeOK' /\ SetupAllOrNothing' /\ SgMemory'
      BY <1>2, <3>1, <3>3 DEF SgInv, SgTypeOK, SetupAllOrNothing, SgMemory, SgName
    <3> QED
      BY <1>2, <3>1, <3>2, <3>4 DEF SgInv, SgName
  <2>4. CASE UNCHANGED sgVars
    BY <1>2, <2>4 DEF sgVars, SgInv, SgTypeOK, SetupAllOrNothing, SgMemory, SgDone
  <2> QED
    BY <1>2, <2>1, <2>2, <2>3, <2>4, SgWriteKeeps, AllocateKeeps DEF SgNext
<1> QED
  BY <1>1, <1>2, PTL DEF SgSpec

\* sgio_simple, whichever allocation fails and however its writes end.
THEOREM SgioHolds == SgSpec => [](SetupAllOrNothing /\ SameLayout)
<1>1. SgInv => SetupAllOrNothing /\ SameLayout
  BY DEF SgInv, SgDone, SameLayout, DrawnTo
<1> QED
  BY SgioInductive, <1>1, PTL

=============================================================================
