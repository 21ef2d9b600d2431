---------------------------- MODULE SharedOffset ----------------------------
(***************************************************************************)
(* ch10/fork_r6_of.c: a parent and its child write lines to one open file, *)
(* each after a seek to a place of its own.  The offset belongs to the     *)
(* open file description, so the two share it; write(2) uses and advances  *)
(* it in one step, a seek and the write after it are two.                  *)
(*                                                                         *)
(* Lines are numbered 1..2*OfLines; the child's place is before line 1,    *)
(* the parent's before line OfLines + 1 (seekto is left out: both add it). *)
(* Line k of writer w is <<w, k>>.  A write(2) writes a whole line: a short *)
(* one, which the program does not look for, is left out.                  *)
(***************************************************************************)
EXTENDS Naturals

CONSTANT OfLines   \* bound: numlines

ASSUME OfAssumption == OfLines \in Nat \ {0}

Writer == {"child", "parent"}
Hole == <<"none", 0>>

VARIABLES
  writer,     \* control points of the two processes
  left,       \* lines each has still to write
  offset,     \* offset of the open file, in lines
  lines,      \* the file
  overlap,    \* both processes were between their seek and their last write
  last        \* who made the last seek

ofVars == <<writer, left, offset, lines, overlap, last>>

Place(w) == IF w = "child" THEN 0 ELSE OfLines

OfInit ==
  /\ writer = [w \in Writer |-> IF w = "parent" THEN "open" ELSE "none"]
  /\ left = [w \in Writer |-> OfLines]
  /\ offset = 0
  /\ lines = [i \in 1..(3 * OfLines) |-> Hole]
  /\ overlap = FALSE
  /\ last = "none"

\* unlink, open with O_TRUNC and fork; each may fail before there is a child.
OpenFork ==
  /\ writer["parent"] = "open"
  /\ writer' \in {[w \in Writer |-> "calloc"], [writer EXCEPT !["parent"] = "fatal"]}
  /\ UNCHANGED <<left, offset, lines, overlap, last>>

OfCalloc(w) ==
  /\ writer[w] = "calloc"
  /\ writer' \in {[writer EXCEPT ![w] = "seek"], [writer EXCEPT ![w] = "fatal"]}
  /\ UNCHANGED <<left, offset, lines, overlap, last>>

OtherWriter(w) == IF w = "child" THEN "parent" ELSE "child"

\* Mutant of Seek: both processes seek to the same place.
SeekSame(w) ==
  /\ writer[w] = "seek"
  /\ offset' = 0
  /\ writer' = [writer EXCEPT ![w] = "write"]
  /\ overlap' = (overlap \/ writer[OtherWriter(w)] = "write")
  /\ last' = w
  /\ UNCHANGED <<left, lines>>

Seek(w) ==
  /\ writer[w] = "seek"
  /\ offset' = Place(w)
  /\ writer' = [writer EXCEPT ![w] = "write"]
  /\ overlap' = (overlap \/ writer[OtherWriter(w)] = "write")
  /\ last' = w
  /\ UNCHANGED <<left, lines>>

WriteLine(w) ==
  /\ writer[w] = "write" /\ left[w] > 0
  /\ lines' = [lines EXCEPT ![offset + 1] = <<w, OfLines - left[w] + 1>>]
  /\ offset' = offset + 1
  /\ left' = [left EXCEPT ![w] = @ - 1]
  /\ UNCHANGED <<writer, overlap, last>>

\* The last line is written, or lseek or write fails; close and exit.  The
\* parent does not wait for the child.
Leave(w) ==
  /\ \/ /\ writer[w] = "write" /\ left[w] = 0
        /\ writer' = [writer EXCEPT ![w] = "exit"]
     \/ /\ writer[w] \in {"seek", "write"} /\ left[w] > 0
        /\ writer' = [writer EXCEPT ![w] = "fatal"]
  /\ UNCHANGED <<left, offset, lines, overlap, last>>

OfNext ==
  \/ OpenFork
  \/ \E w \in Writer : OfCalloc(w) \/ Seek(w) \/ WriteLine(w) \/ Leave(w)

OfSpec == OfInit /\ [][OfNext]_ofVars

---------------------------------------------------------------------------
(* Properties. *)

OfTypeOK ==
  /\ writer \in [Writer -> {"none", "open", "calloc", "seek", "write", "exit", "fatal"}]
  /\ left \in [Writer -> 0..OfLines]
  /\ offset \in 0..(3 * OfLines)
  /\ lines \in [1..(3 * OfLines) -> (Writer \X (1..OfLines)) \cup {Hole}]
  /\ last \in Writer \cup {"none"}

\* The header: the two processes try to get it right by seeking first.  They do
\* whenever one of them has finished before the other seeks, in either order: the
\* lines of each are then at its own place, in order, and nowhere else.
RightWhenSerial ==
  ~ overlap =>
    \A w \in Writer : \A i \in 1..(3 * OfLines), k \in 1..OfLines :
      lines[i] = <<w, k>> <=> i = Place(w) + k /\ k <= OfLines - left[w]

\* The header: otherwise the file gets corrupted.  But what overlapping loses is
\* never a line of the process that made the last seek: its lines are in the file,
\* between its place and the offset, among the other's.
LastSeekerKeepsLines ==
  \A w \in Writer : last = w =>
    \A k \in 1..OfLines : k <= OfLines - left[w] =>
      \E i \in (Place(w) + 1)..offset : lines[i] = <<w, k>>

\* Whatever is still to be written fits behind the offset.
OfRoom == offset + left["child"] + left["parent"] <= 3 * OfLines

\* There is no child before the fork, and a process starts with all its lines to
\* write.  Where they do not overlap, at most one of them writes, and the offset
\* is where its next line belongs; after a seek it only grows.
OfStages ==
  /\ writer["parent"] = "open" => writer["child"] = "none"
  /\ \A w \in Writer : writer[w] \in {"none", "open", "calloc", "seek"} => left[w] = OfLines
  /\ ~ overlap =>
       /\ \E w \in Writer : writer[w] # "write"
       /\ \A w \in Writer : writer[w] = "write" => offset = Place(w) + OfLines - left[w]
  /\ \A w \in Writer : last = w => Place(w) <= offset

OfInv == OfTypeOK /\ OfRoom /\ OfStages /\ RightWhenSerial /\ LastSeekerKeepsLines

============================================================================
