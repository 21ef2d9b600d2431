----------------------------- MODULE Privileges -----------------------------
(***************************************************************************)
(* ch7/savedset_demo.c: a setuid-root program gives its privilege up and   *)
(* takes it back, through the saved set-user-id.  ch8/set_pcap.c: a        *)
(* program with file capabilities trims them, uses CAP_SETUID to become    *)
(* root, and then drops everything.                                        *)
(***************************************************************************)
EXTENDS Naturals

Root == 0
User == 1000
Cap == {"setuid", "admin"}

VARIABLES
  pvProgram,             \* "savedset", "pcap1" or "pcap2" (set_pcap's option)
  pv,                    \* control point
  ruid, euid, suid,      \* real, effective and saved user id
  effective, permitted   \* capability sets

pvIds == <<ruid, euid, suid, effective, permitted>>
pvVars == <<pvProgram, pv, pvIds>>

\* savedset_demo: installed setuid-root or not.  set_pcap: installed with both
\* file capabilities or with none, as the Makefile's setcap has been run or not.
PvInit ==
  /\ ruid \in {Root, User}
  /\ \/ /\ pvProgram = "savedset" /\ pv = "check"
        /\ euid \in {ruid, Root}
        /\ permitted = IF euid = Root THEN Cap ELSE {}
     \/ /\ pvProgram \in {"pcap1", "pcap2"} /\ pv = "caps"
        /\ euid = ruid
        /\ permitted \in {IF ruid = Root THEN Cap ELSE {}, Cap}
  /\ suid = euid /\ effective = permitted

---------------------------------------------------------------------------
(* The kernel's rules. *)

\* The capabilities follow the ids: they are effective again when the
\* effective id becomes root, lost when it ceases to be, and no longer
\* permitted when none of the three ids is root any more.
EffectiveAfter(e) ==
  IF e = Root /\ euid # Root THEN permitted
  ELSE IF e # Root /\ euid = Root THEN {} ELSE effective

PermittedAfter(r, e, s) ==
  IF Root \in {ruid, euid, suid} /\ Root \notin {r, e, s} THEN {} ELSE permitted

MaySetuid(u) == u \in {ruid, suid} \/ "setuid" \in effective

Seteuid(u) ==
  /\ euid' = u
  /\ effective' = EffectiveAfter(u)
  /\ permitted' = PermittedAfter(ruid, u, suid)
  /\ UNCHANGED <<ruid, suid>>

\* With CAP_SETUID setuid(2) sets all three ids, without it only the effective.
KSetuid(u) ==
  LET all == "setuid" \in effective
  IN  /\ euid' = u
      /\ ruid' = (IF all THEN u ELSE ruid) /\ suid' = (IF all THEN u ELSE suid)
      /\ effective' = EffectiveAfter(u)
      /\ permitted' = PermittedAfter(ruid', u, suid')

---------------------------------------------------------------------------
(* savedset_demo; saved_setuid is 0, the effective id of the start. *)

\* Without setuid-root installation the program refuses to go on.
SavedCheck ==
  /\ pv = "check" /\ pv' = (IF euid = Root THEN "down1" ELSE "refused")
  /\ UNCHANGED <<pvProgram, pvIds>>

\* seteuid(u), or FATAL when it is not allowed.
SavedSwitch(from, u, to) ==
  /\ pv = from
  /\ IF MaySetuid(u) THEN pv' = to /\ Seteuid(u)
     ELSE pv' = "fatal" /\ UNCHANGED pvIds
  /\ UNCHANGED pvProgram

\* Mutant of SavedSet: setuid in place of seteuid at the first switch.
SavedSetForgets ==
  \/ SavedCheck
  \/ pv = "down1" /\ pv' = "up" /\ KSetuid(ruid) /\ UNCHANGED pvProgram
  \/ SavedSwitch("up", Root, "down2") \/ SavedSwitch("down2", ruid, "exit")

SavedSet ==
  \/ SavedCheck
  \/ SavedSwitch("down1", ruid, "up")
  \/ SavedSwitch("up", Root, "down2")
  \/ SavedSwitch("down2", ruid, "exit")

---------------------------------------------------------------------------
(* set_pcap *)

\* cap_get_proc, set the flags of the option, clear CAP_SYS_ADMIN for option 1,
\* cap_set_proc: an effective capability must be permitted.
Wanted == IF pvProgram = "pcap1" THEN {"setuid"} ELSE Cap
Cleared == IF pvProgram = "pcap1" THEN {"admin"} ELSE {}

SetCaps ==
  /\ pv = "caps"
  /\ IF (effective \cup Wanted) \ Cleared \subseteq permitted
     THEN pv' = "pause1" /\ effective' = (effective \cup Wanted) \ Cleared
     ELSE pv' = "refused" /\ UNCHANGED effective
  /\ UNCHANGED <<pvProgram, ruid, euid, suid, permitted>>

\* A signal ends the first pause; test_setuid: a failure is only warned about.
TestSetuid(from, to) ==
  /\ pv = from /\ pv' = to
  /\ IF MaySetuid(Root) THEN Seteuid(Root) ELSE UNCHANGED pvIds
  /\ UNCHANGED pvProgram

\* drop_caps_be_normal, first half: no capabilities, or FATAL where one of the cap
\* calls fails.
DropCaps ==
  /\ pv = "drop"
  /\ \/ pv' = "normal" /\ effective' = {} /\ permitted' = {}
     \/ pv' = "refused" /\ UNCHANGED <<effective, permitted>>
  /\ UNCHANGED <<pvProgram, ruid, euid, suid>>

\* Second half: setuid(getuid()).
BeNormal ==
  /\ pv = "normal"
  /\ IF MaySetuid(ruid) THEN pv' = "test2" /\ KSetuid(ruid)
     ELSE pv' = "fatal" /\ UNCHANGED pvIds
  /\ UNCHANGED pvProgram

\* A signal ends the second pause.
Pause2 ==
  /\ pv = "pause2" /\ pv' = "exit"
  /\ UNCHANGED <<pvProgram, pvIds>>

SetPcap ==
  \/ SetCaps \/ TestSetuid("pause1", "drop")
  \/ DropCaps \/ BeNormal \/ TestSetuid("test2", "pause2") \/ Pause2

PvNext == SavedSet \/ SetPcap

PvSpec == PvInit /\ [][PvNext]_pvVars

---------------------------------------------------------------------------
(* Properties. *)

PvTypeOK ==
  /\ pv \in {"check", "down1", "up", "down2", "caps", "pause1", "drop", "normal",
             "test2", "pause2", "exit", "refused", "fatal"}
  /\ {ruid, euid, suid} \subseteq {Root, User}
  /\ effective \subseteq permitted /\ permitted \subseteq Cap

\* No privilege outlives the point where the program gives it up for good, and
\* none that it needs is lost on the way: set_pcap, started by a user, cannot
\* become root again after drop_caps_be_normal, and did become root before it;
\* option 1 never acts with CAP_SYS_ADMIN, unless root's ids bring it back;
\* savedset_demo always gets its privilege back.
PrivilegeOrder ==
  /\ pvProgram # "savedset" /\ ruid = User =>
       /\ pv \in {"test2", "pause2", "exit"} =>
            euid = User /\ suid = User /\ permitted = {}
       /\ pv = "drop" => euid = Root
       /\ pvProgram = "pcap1" /\ pv = "pause1" => effective = {"setuid"}
  /\ pv # "fatal"
  /\ pvProgram = "savedset" =>
       /\ pv = "down2" => euid = Root
       /\ pv \in {"up", "exit"} => euid = ruid

---------------------------------------------------------------------------
(* The inductive invariant behind PrivilegeOrder: ids and capabilities at each *)
(* control point.                                                            *)

SavedStages ==
  pvProgram = "savedset" =>
    /\ pv \in {"check", "down1", "up", "down2", "exit", "refused"}
    /\ pv = "check" => suid = euid /\ euid \in {ruid, Root}
    /\ pv \in {"check", "down1", "up", "down2"} => (euid = Root => effective = permitted)
    /\ pv \in {"down1", "down2"} => euid = Root
    /\ pv \in {"up", "exit"} => euid = ruid
    /\ pv \in {"down1", "up", "down2", "exit"} => suid = Root
    /\ suid = Root => permitted = Cap

PcapStages ==
  pvProgram # "savedset" =>
    /\ pvProgram \in {"pcap1", "pcap2"}
    /\ pv \notin {"check", "down1", "up", "down2", "fatal"}
    /\ suid = ruid
    /\ pv \in {"caps", "pause1", "test2"} => euid = ruid
    /\ pv = "caps" => effective = permitted
    /\ pv = "pause1" => effective = (IF pvProgram = "pcap1" THEN {"setuid"} ELSE Cap)
    /\ pv \in {"drop", "normal"} => euid = Root
    /\ pv \in {"normal", "test2", "pause2", "exit"} => permitted = {} /\ effective = {}
    /\ pv \in {"pause2", "exit"} => (ruid = User => euid = User)

PvInv == PvTypeOK /\ SavedStages /\ PcapStages

============================================================================
