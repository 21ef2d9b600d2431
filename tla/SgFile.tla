------------------------------- MODULE SgFile -------------------------------
(***************************************************************************)
(* ch18/sgio_simple.c: three buffers go to three places of a file, either  *)
(* with a seek and a write for each, or with one writev of six segments    *)
(* in which the gaps are written as nuls.                                  *)
(***************************************************************************)
EXTENDS Naturals, Sequences

VARIABLES
  sgWay,     \* "normal" or "sgio"
  sg,        \* control point
  sgMem,     \* each buffer: "none", "live", "freed", "corrupt"
  sgFile,    \* the bytes of the file, from offset 0
  sgShort    \* the system wrote less than asked, which the code ignores

sgVars == <<sgWay, sg, sgMem, sgFile, sgShort>>

A_HOLE_LEN == 10
A_LEN == 20
B_HOLE_LEN == 100
B_LEN == 30
C_HOLE_LEN == 20
C_LEN == 42
A_START_OFF == A_HOLE_LEN
B_START_OFF == A_HOLE_LEN + A_LEN + B_HOLE_LEN
C_START_OFF == A_HOLE_LEN + A_LEN + B_HOLE_LEN + B_LEN + C_HOLE_LEN

SgName == {"A", "B", "C", "hole"}
Nul == "hole"

SgInit ==
  /\ sgWay \in {"normal", "sgio"}
  /\ sg = "A"
  /\ sgMem = [b \in SgName |-> "none"]
  /\ sgFile = <<>> /\ sgShort = FALSE

SgFree(mem, set) ==
  [b \in SgName |-> IF b \notin set THEN mem[b]
                    ELSE IF mem[b] = "live" THEN "freed" ELSE "corrupt"]

---------------------------------------------------------------------------
(* setup_buffers_goto *)

Following == [A |-> "B", B |-> "C", C |-> "hole", hole |-> "open"]

\* Mutant of Unwind: each goto goes one label too far up.
UnwindOneMore ==
  [A |-> {"A"}, B |-> {"A", "B"}, C |-> {"A", "B", "C"}, hole |-> {"A", "B", "C"}]

\* The buffers that the labels out_freeC, out_freeB, out_freeA, out free when
\* the allocation of b fails.
Unwind ==
  [A |-> {}, B |-> {"A"}, C |-> {"A", "B"}, hole |-> {"A", "B", "C"}]

Allocate ==
  /\ sg \in SgName
  /\ \/ /\ sgMem' = [sgMem EXCEPT ![sg] = "live"]
        /\ sg' = Following[sg]
     \/ /\ sgMem' = SgFree(sgMem, Unwind[sg])
        /\ sg' = "nomem"
  /\ UNCHANGED <<sgWay, sgFile, sgShort>>

\* unlink, umask, open.
SgOpen ==
  /\ sg = "open"
  /\ sg' \in {IF sgWay = "normal" THEN "writeA" ELSE "writev", "fatal"}
  /\ UNCHANGED <<sgWay, sgMem, sgFile, sgShort>>

---------------------------------------------------------------------------
(* The two ways to write. *)

\* write(2) of n bytes from what at offset off; a gap reads as nuls.
SgPut(off, what, n) ==
  [i \in 1..(IF off + n > Len(sgFile) THEN off + n ELSE Len(sgFile)) |->
     IF i \in (off + 1)..(off + n) THEN what
     ELSE IF i <= Len(sgFile) THEN sgFile[i] ELSE Nul]

\* lseek to the place of a buffer and write it; n bytes arrive.
SgWriteAt(step, off, what, len, next) ==
  /\ sg = step
  /\ \/ \E n \in {len, len \div 2} :
          /\ sgFile' = SgPut(off, what, n)
          /\ sgShort' = (sgShort \/ n < len)
          /\ sg' = next
     \/ sg' = "fatal" /\ UNCHANGED <<sgFile, sgShort>>
  /\ UNCHANGED <<sgWay, sgMem>>

SgNormal ==
  \/ SgWriteAt("writeA", A_START_OFF, "A", A_LEN, "writeB")
  \/ SgWriteAt("writeB", B_START_OFF, "B", B_LEN, "writeC")
  \/ SgWriteAt("writeC", C_START_OFF, "C", C_LEN, "close")

Iov ==
  <<<<"hole", A_HOLE_LEN>>, <<"A", A_LEN>>, <<"hole", B_HOLE_LEN>>,
    <<"B", B_LEN>>, <<"hole", C_HOLE_LEN>>, <<"C", C_LEN>>>>

\* Where segment j of the vector begins; IovStart[7] is the whole length.
IovStart[j \in 1..(Len(Iov) + 1)] ==
  IF j = 1 THEN 0 ELSE IovStart[j - 1] + Iov[j - 1][2]

IovByte(i) ==
  Iov[CHOOSE j \in 1..Len(Iov) : i \in (IovStart[j] + 1)..IovStart[j + 1]][1]

\* writev of n bytes; main ignores the result.
SgWritev ==
  /\ sg = "writev"
  /\ \E n \in {IovStart[Len(Iov) + 1], IovStart[Len(Iov)], IovStart[3], 0} :
       /\ sgFile' = [i \in 1..n |-> IovByte(i)]
       /\ sgShort' = (n < IovStart[Len(Iov) + 1])
  /\ sg' = "close"
  /\ UNCHANGED <<sgWay, sgMem>>

\* close; the buffers are freed, gbuf_hole is left to exit.
SgClose ==
  /\ sg = "close" /\ sg' = "exit"
  /\ sgMem' = SgFree(sgMem, {"A", "B", "C"})
  /\ UNCHANGED <<sgWay, sgFile, sgShort>>

SgNext == Allocate \/ SgOpen \/ SgNormal \/ SgWritev \/ SgClose

SgSpec == SgInit /\ [][SgNext]_sgVars

---------------------------------------------------------------------------
(* Properties. *)

SgTypeOK ==
  /\ sg \in SgName \cup {"nomem", "open", "writeA", "writeB", "writeC", "writev",
                         "close", "exit", "fatal"}
  /\ sgMem \in [SgName -> {"none", "live", "freed"}]
  /\ sgShort \in BOOLEAN

\* When setup fails, whichever allocation it was, nothing stays allocated; and
\* nothing is written from a buffer that is not allocated.
SetupAllOrNothing ==
  /\ sg = "nomem" => \A b \in SgName : sgMem[b] \in {"none", "freed"}
  /\ sg \in {"open", "writeA", "writeB", "writeC", "writev", "close"} =>
       \A b \in SgName : sgMem[b] = "live"

\* The layout that the comments draw, for a byte of the file.
Drawn(i) ==
  CASE i \in (A_START_OFF + 1)..(A_START_OFF + A_LEN) -> "A"
    [] i \in (B_START_OFF + 1)..(B_START_OFF + B_LEN) -> "B"
    [] i \in (C_START_OFF + 1)..(C_START_OFF + C_LEN) -> "C"
    [] OTHER -> Nul

\* Both ways leave the same file, the one that is drawn, when all is written.
SameLayout ==
  sg = "exit" /\ ~ sgShort => sgFile = [i \in 1..(C_START_OFF + C_LEN) |-> Drawn(i)]

\* What is allocated, stage by stage.
SgMemory ==
  /\ sg \in SgName => \A b \in SgName :
       sgMem[b] = IF b \in Unwind[sg] THEN "live" ELSE "none"
  /\ sg \in {"open", "writeA", "writeB", "writeC", "writev", "close"} =>
       \A b \in SgName : sgMem[b] = "live"

\* The part of the file that a stage has behind it.
SgDone ==
  CASE sg = "writeB" -> A_START_OFF + A_LEN
    [] sg = "writeC" -> B_START_OFF + B_LEN
    [] sg \in {"close", "exit"} -> C_START_OFF + C_LEN
    [] OTHER -> 0

\* The first n bytes of the drawing.
DrawnTo(n) == [i \in 1..n |-> Drawn(i)]

SgInv ==
  /\ SgTypeOK /\ SetupAllOrNothing /\ SgMemory
  /\ (~ sgShort /\ sg # "fatal") => sgFile = DrawnTo(SgDone)
  /\ (sg \in SgName \cup {"open", "writeA", "writev"}) => ~ sgShort

============================================================================
