------------------------------- MODULE SigIpc -------------------------------
(***************************************************************************)
(* ch12/sigq_ipc: sigq_sender.c queues a realtime signal that carries a    *)
(* data item; the handler of sigq_recv.c stores it in one global record,   *)
(* which main displays when it next wakes.                                 *)
(***************************************************************************)
EXTENDS Naturals, Sequences, SequencesExt

CONSTANTS
  SiSender,   \* runs of the sender; the message of each is its own identity
  SiQueue     \* bound: signals the kernel queues for the receiver

ASSUME SiAssumption == SiQueue \in Nat \ {0}

NoMsg == 0

VARIABLES
  sender,      \* control point of each sender
  recv,        \* control point of the receiver
  queued,      \* the kernel's queue
  recv_data,   \* the record: [pid, data]
  data_recvd,
  reading,     \* display_recv_data: the pid it has printed
  siShown,     \* history: what was displayed, [pid, data]
  arrived,     \* history: messages handled
  replaced,    \* history: messages overwritten while data_recvd was set
  late         \* history: messages handled between the test and the reset

siHistory == <<siShown, arrived, replaced, late>>
siVars == <<sender, recv, queued, recv_data, data_recvd, reading, siHistory>>

SiInit ==
  /\ sender = [m \in SiSender |-> "probe"]
  /\ recv = "start" /\ queued = <<>>
  /\ recv_data = [pid |-> NoMsg, data |-> NoMsg]
  /\ data_recvd = FALSE /\ reading = NoMsg
  /\ siShown = {} /\ arrived = {} /\ replaced = {} /\ late = {}

Receiver == <<recv, recv_data, data_recvd, reading>>

---------------------------------------------------------------------------
(* sigq_sender: kill(target, 0), then sigqueue; -1, -2 and FATAL. *)

Probe(m) ==
  /\ sender[m] = "probe"
  /\ sender' = [sender EXCEPT ![m] = IF recv = "dead" THEN "failed" ELSE "queue"]
  /\ UNCHANGED <<Receiver, queued, siHistory>>

Sigqueue(m) ==
  /\ sender[m] = "queue"
  /\ LET room == recv # "dead" /\ Len(queued) < SiQueue IN
       /\ sender' = [sender EXCEPT ![m] = IF room THEN "sent" ELSE "failed"]
       /\ queued' = IF room THEN Append(queued, m) ELSE queued
  /\ UNCHANGED <<Receiver, siHistory>>

---------------------------------------------------------------------------
(* sigq_recv *)

\* SIG_COMM before sigaction: the default action ends the process.
KilledAtStart ==
  /\ recv = "start" /\ queued # <<>>
  /\ recv' = "dead" /\ queued' = <<>>
  /\ UNCHANGED <<sender, recv_data, data_recvd, reading, siHistory>>

Sigaction ==
  /\ recv = "start"
  /\ recv' \in {"sleep", "dead"}
  /\ queued' = IF recv' = "dead" THEN <<>> ELSE queued
  /\ UNCHANGED <<sender, recv_data, data_recvd, reading, siHistory>>

\* Mutant of ReadMsg: data_recvd is not set.
ReadMsgSilent ==
  /\ recv \notin {"start", "dead"} /\ queued # <<>>
  /\ queued' = Tail(queued)
  /\ LET m == Head(queued) IN
       /\ recv_data' = [pid |-> m, data |-> m]
       /\ arrived' = arrived \cup {m}
       /\ replaced' = IF data_recvd THEN replaced \cup {recv_data.data} ELSE replaced
       /\ late' = IF recv \in {"sleep", "poll"} THEN late ELSE late \cup {m}
  /\ UNCHANGED <<sender, recv, data_recvd, reading, siShown>>

\* read_msg runs with every signal masked: no other instance interrupts it.
ReadMsg ==
  /\ recv \notin {"start", "dead"} /\ queued # <<>>
  /\ queued' = Tail(queued)
  /\ LET m == Head(queued) IN
       /\ recv_data' = [pid |-> m, data |-> m]
       /\ arrived' = arrived \cup {m}
       /\ replaced' = IF data_recvd THEN replaced \cup {recv_data.data} ELSE replaced
       /\ late' = IF recv \in {"sleep", "poll"} THEN late ELSE late \cup {m}
  /\ data_recvd' = TRUE
  /\ UNCHANGED <<sender, recv, reading, siShown>>

\* r_sleep goes back to sleep for the rest of its time when a signal ends it.
Wake ==
  /\ recv = "sleep" /\ recv' = "poll"
  /\ UNCHANGED <<sender, queued, recv_data, data_recvd, reading, siHistory>>

Poll ==
  /\ recv = "poll"
  /\ recv' = IF data_recvd THEN "displayPid" ELSE "sleep"
  /\ UNCHANGED <<sender, queued, recv_data, data_recvd, reading, siHistory>>

\* display_recv_data reads the record's members one after the other.
DisplayPid ==
  /\ recv = "displayPid"
  /\ reading' = recv_data.pid /\ recv' = "displayData"
  /\ UNCHANGED <<sender, queued, recv_data, data_recvd, siHistory>>

DisplayData ==
  /\ recv = "displayData"
  /\ siShown' = siShown \cup {[pid |-> reading, data |-> recv_data.data]}
  /\ recv' = "clear"
  /\ UNCHANGED <<sender, queued, recv_data, data_recvd, reading, arrived, replaced, late>>

Clear ==
  /\ recv = "clear"
  /\ data_recvd' = FALSE /\ reading' = NoMsg /\ recv' = "sleep"
  /\ UNCHANGED <<sender, queued, recv_data, siHistory>>

SiMain == Wake \/ Poll \/ DisplayPid \/ DisplayData \/ Clear

SiNext ==
  \/ \E m \in SiSender : Probe(m) \/ Sigqueue(m)
  \/ KilledAtStart \/ Sigaction \/ ReadMsg \/ SiMain

SiSpec == SiInit /\ [][SiNext]_siVars

---------------------------------------------------------------------------
(* Properties. *)

SiMsg == SiSender \cup {NoMsg}

SiTypeOK ==
  /\ sender \in [SiSender -> {"probe", "queue", "sent", "failed"}]
  /\ recv \in {"start", "sleep", "poll", "displayPid", "displayData", "clear", "dead"}
  /\ queued \in Seq(SiSender) /\ Len(queued) <= SiQueue
  /\ recv_data \in [pid : SiMsg, data : SiMsg]
  /\ data_recvd \in BOOLEAN /\ reading \in SiMsg
  /\ siShown \subseteq [pid : SiMsg, data : SiMsg]
  /\ arrived \cup replaced \cup late \subseteq SiSender

\* A message that reached the handler is displayed, whole, unless another one
\* replaced it before main looked, or it fell between main's test of data_recvd
\* and its reset; only such a late message can mix two messages in one display.
MessageAccounted ==
  /\ arrived \subseteq {d.data : d \in {w \in siShown : w.pid = w.data}}
       \cup replaced \cup late \cup (IF data_recvd THEN {recv_data.data} ELSE {})
  /\ \A d \in siShown : (d.pid # d.data) => (d.data \in late)
  /\ \A m \in SiSender : (sender[m] = "sent" /\ recv # "dead") =>
       m \in arrived \cup ToSet(queued)

---------------------------------------------------------------------------
(* The inductive invariant behind MessageAccounted. *)

ShownWhole == {d.data : d \in {w \in siShown : w.pid = w.data}}

\* The record is of one message; while it is displayed, a message that changes
\* it is late.
Displaying ==
  /\ recv_data.pid = recv_data.data
  /\ data_recvd => recv_data.data \in arrived
  /\ recv = "displayData" => (reading = recv_data.data \/ recv_data.data \in late)
  /\ recv = "clear" => recv_data.data \in ShownWhole \cup late

SiInv == SiTypeOK /\ MessageAccounted /\ Displaying

=============================================================================
