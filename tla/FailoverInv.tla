---------------------------- MODULE FailoverInv -----------------------------
(***************************************************************************)
(* The inductive invariants behind the safety properties of Failover: who  *)
(* has the turn on the primary, what is left to tear down, what the stream *)
(* holds between the last record the backup has read and the next one the  *)
(* primary will write, and which checkpoint covers the output let out.     *)
(***************************************************************************)
EXTENDS Failover

(* The helper waits and the answer it will read is good. *)
Granted(request) == helper = request /\ replies # << >> /\ Head(replies) = 1

(* The checkpoint's memory is written, its device model's state is not. *)
Resuming == helper = "postcopy" \/ (helper = "checkpoint" /\ (asked \/ libxl = "stream"))

-----------------------------------------------------------------------------
(* The helper, a process, and libxl's event loop take turns: there is a     *)
(* request, or libxl works on one, or an answer, and before the helper is   *)
(* started and after it is reaped libxl sets up and tears down.  The watch  *)
(* is awaited whenever an event of it is under way, which is what a patient *)
(* guest gives (libxl_save_callout.c, libxl_remus.c).                       *)
TurnsInv ==
  /\ AnswersMatch
  /\ events <= 1 /\ (events > 0 => libxl = "watch")
  /\ helper = "none" => libxl \in {"new", "setup", "teardown", "done", "ended"}
  /\ helper \in {"live", "send", "record", "exited"} => libxl = "idle"
  /\ helper \in Waits => libxl \notin {"new", "setup", "teardown", "done", "ended"}
  /\ helper = "reaped" => libxl \in {"teardown", "done", "ended"}

(* What is in place is known to be, so that teardown finds it; teardown     *)
(* waits for all that is in place unless it has met an error; the save is   *)
(* reported complete when teardown starts, once (libxl_checkpoint_device.c, *)
(* libxl_remus.c).                                                          *)
SessionInv ==
  /\ installed \subseteq matched
  /\ libxl = "new" => installed = {}
  /\ libxl = "setup" => Nics \subseteq matched
  /\ libxl = "teardown" /\ ~failed => installed \subseteq busy
  /\ libxl \in {"done", "ended"} /\ ~failed => installed = {}
  /\ completions <= IF libxl \in {"teardown", "done", "ended"} THEN 1 ELSE 0

-----------------------------------------------------------------------------
(* The stream as the two ends see it. *)

(* The version of the memory of the checkpoint the backup is receiving. *)
Held == IF buffering THEN buffered ELSE mem

(* The type of the record the backup has read last. *)
LastRead ==
  CASE backup = "starting"          -> "none"
    [] backup # "starting" /\ inCheckpoint /\ queued # 0 -> "EMULATOR_CONTEXT"
    [] backup # "starting" /\ inCheckpoint /\ queued = 0 -> "CHECKPOINT"
    [] backup # "starting" /\ ~inCheckpoint /\ Held # 0  -> "PAGE_DATA"
    [] backup # "starting" /\ ~inCheckpoint /\ Held = 0  ->
         IF buffering THEN "CHECKPOINT_END" ELSE "LIBXC_CONTEXT"

(* The type of the record that precedes the k-th of the stream. *)
Before(k) == IF k = 1 THEN LastRead ELSE stream[k - 1].type

(* The type of the record that was written last, unless some were lost. *)
LastWritten == Before(Len(stream) + 1)

(* The version of the memory sent in the k-th record of the stream, or in   *)
(* one that has been read.                                                  *)
PageAt(k) == IF k > 0 THEN stream[k].ver ELSE Held

(* The records of the stream come in one order. *)
Follows(t) ==
  CASE t = "none"                                  -> "LIBXC_CONTEXT"
    [] t \in {"LIBXC_CONTEXT", "CHECKPOINT_END"}   -> "PAGE_DATA"
    [] t = "PAGE_DATA"                             -> "CHECKPOINT"
    [] t = "CHECKPOINT" /\ guestType = "HVM"       -> "EMULATOR_CONTEXT"
    [] t = "CHECKPOINT" /\ guestType # "HVM"       -> "CHECKPOINT_END"
    [] t = "EMULATOR_CONTEXT"                      -> "CHECKPOINT_END"

(* The records under way continue what the backup has read, a device        *)
(* model's state is of the version of the memory before it, and the backup  *)
(* has either nothing in place or one whole checkpoint (libxl_stream_read.c *)
(* and xc_sr_restore.c rely on this order and check little of it).          *)
StreamInv ==
  /\ backup \notin {"starting", "restoring"} => stream = << >> /\ link # "up"
  /\ backup = "starting" => /\ ~buffering /\ ~inCheckpoint
                            /\ buffered = 0 /\ queued = 0 /\ mem = 0 /\ dm = 0
  /\ backup = "running" => buffering
  /\ ~buffering => buffered = 0
  /\ buffering => mem # 0 /\ (guestType = "HVM" => dm = mem)
  /\ IF inCheckpoint THEN Held # 0 /\ queued \in {0, Held} ELSE queued = 0
  /\ queued # 0 => guestType = "HVM"
  /\ \A i \in 1 .. Len(stream) :
       /\ stream[i].type = Follows(Before(i))
       /\ stream[i].type = "PAGE_DATA" => stream[i].ver # 0
       /\ stream[i].type = "EMULATOR_CONTEXT" => stream[i].ver = PageAt(i - 2)

(* As long as a write of the primary can arrive, the records that have been *)
(* written are the ones before the next it will write, and the device       *)
(* model's state saved when the guest was suspended is of the version of    *)
(* the memory sent after it (xc_sr_save.c, libxl_dom_suspend.c).            *)
WriterInv ==
  /\ libxl = "stream" => guestType = "HVM"
  /\ helper = "send" \/ Granted("suspend") =>
       guest = "suspended" /\ (guestType = "HVM" => dmSave = version)
  /\ primary = "up" /\ link = "up" =>
       /\ libxl \in {"new", "setup"} => LastWritten = "none"
       /\ helper \in {"live", "suspend", "send"} => LastWritten \in {"LIBXC_CONTEXT", "CHECKPOINT_END"}
       /\ helper = "record" => LastWritten = "PAGE_DATA"
       /\ Resuming => LastWritten = "CHECKPOINT"
       /\ libxl = "end" => LastWritten = IF guestType = "HVM" THEN "EMULATOR_CONTEXT" ELSE "CHECKPOINT"
       /\ libxl \in {"timer", "watch"} \/ Granted("checkpoint") => LastWritten = "CHECKPOINT_END"
       /\ guestType = "HVM" /\ helper = "record" => dmSave = PageAt(Len(stream))
       /\ guestType = "HVM" /\ Resuming => dmSave = PageAt(Len(stream) - 1)

-----------------------------------------------------------------------------
(* Output. *)

(* The end of a checkpoint has been written and not been lost. *)
EverEnded == buffering \/ \E i \in 1 .. Len(stream) : stream[i].type = "CHECKPOINT_END"

(* From a checkpoint's memory to its end. *)
Span == IF guestType = "HVM" THEN 3 ELSE 2

(* Versions only grow along the way from the guest to the backup's memory. *)
OrderInv ==
  /\ mem <= version /\ Held <= version /\ (Held # 0 => mem <= Held)
  /\ \A i \in 1 .. Len(stream) : stream[i].type = "PAGE_DATA" =>
       /\ mem <= stream[i].ver /\ Held <= stream[i].ver /\ stream[i].ver <= version
       /\ \A j \in 1 .. Len(stream) :
            i < j /\ stream[j].type = "PAGE_DATA" => stream[i].ver <= stream[j].ver

(* The guest has been suspended once with every interface plugged. *)
Protected ==
  \/ helper \in {"send", "record", "postcopy", "checkpoint"}
  \/ Granted("suspend")
  \/ helper = "suspend" /\ EverEnded

(* Every matched interface is plugged before the memory of the first        *)
(* checkpoint is sent and stays so, and what is out is not newer than the   *)
(* last epoch that was closed (libxl_netbuffer.c, libxl_remus.c).           *)
PlugInv ==
  /\ \A n \in Nics : released[n] <= version /\ closedAt[n] <= version
  /\ \A n \in plugged : released[n] <= closedAt[n]
  /\ helper \in {"none", "live"} => ~EverEnded
  /\ Protected => Nics \cap matched \subseteq plugged

(* While a checkpoint is under way the epochs were closed at a version no   *)
(* newer than its memory, and nothing that was written is lost.             *)
EpochInv ==
  primary = "up" /\ link = "up" =>
    /\ ~lost
    /\ \A n \in plugged :
         /\ helper = "record" => closedAt[n] <= PageAt(Len(stream))
         /\ Resuming => closedAt[n] <= PageAt(Len(stream) - 1)
         /\ libxl = "end" => closedAt[n] <= PageAt(Len(stream) + 1 - Span)

(* The output of interface n is that of a checkpoint the backup has in      *)
(* place or will have, as its records are under way.                        *)
Covered(n) ==
  \/ buffering /\ released[n] <= mem
  \/ \E i \in 1 .. Len(stream) :
       stream[i].type = "CHECKPOINT_END" /\ released[n] <= PageAt(i - Span)

(* Once a checkpoint is complete all output is covered (libxl_remus.c       *)
(* commits when the end of the checkpoint is written).                      *)
CoverInv == ~lost /\ EverEnded => \A n \in plugged : Covered(n)

-----------------------------------------------------------------------------
(* What keeps the two ends of a session consistent, for a patient guest:    *)
(* inductive together with RemusTypeOK; implies AnswersMatch,               *)
(* SessionEndsClean, BackupConsistent and OutputCommit.                     *)
RemusInv ==
  /\ TurnsInv
  /\ SessionInv
  /\ StreamInv
  /\ WriterInv
  /\ OrderInv
  /\ PlugInv
  /\ EpochInv
  /\ CoverInv
=============================================================================
