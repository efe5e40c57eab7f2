------------------------------ MODULE Failover ------------------------------
(***************************************************************************)
(* CPS-Remus as a whole: the primary host (RemusSave), the backup host     *)
(* (RemusRestore), the stream between them, and the heartbeat              *)
(* (cpsremus_heartbeat_send.c, cpsremus_heartbeat_rcv.c) that makes the    *)
(* backup take over.                                                       *)
(*                                                                         *)
(* The receiver learns from a FIFO which process to kill: the sshd that    *)
(* feeds the stream to xl migrate-receive.  The pid is written without     *)
(* waiting for a reader, when the restore helper starts.                   *)
(***************************************************************************)
EXTENDS RemusSave, RemusRestore

CONSTANT Faults   \* faults that may happen, of FaultKinds

FaultKinds == {"crash",   \* of the primary host
               "cut",     \* of the network between the hosts
               "late",    \* a heartbeat that misses its time-out
               "backup"}  \* an error on the backup host

ASSUME FaultsAssumption == Faults \subseteq FaultKinds

VARIABLES
  primary,   \* "up" or "crashed"
  receiver   \* "starting", "fifo" (open, no pid yet), "watching" or "fired"

failVars == <<primary, receiver>>
vars == <<saveVars, chanVars, restoreVars, failVars>>

(* Every variable has its type, and the network buffers are those of        *)
(* network interfaces only.                                                 *)
RemusTypeOK ==
  /\ SaveTypeOK /\ ChannelTypeOK /\ RestoreTypeOK
  /\ primary \in {"up", "crashed"}
  /\ receiver \in {"starting", "fifo", "watching", "fired"}

Init ==
  /\ SaveInit /\ ChannelInit /\ RestoreInit
  /\ primary = "up" /\ receiver = "starting"

-----------------------------------------------------------------------------
(* The parts, each with what it leaves alone. *)

Helper == primary = "up" /\ HelperStep /\ UNCHANGED <<restoreVars, failVars>>
Libxl  == primary = "up" /\ LibxlStep /\ UNCHANGED <<restoreVars, failVars>>
Guest  == primary = "up" /\ GuestStep /\ UNCHANGED <<restoreVars, failVars>>
Backup == RestoreStep /\ UNCHANGED <<saveVars, failVars>>

(* run_helper() on the backup: the pid is lost when nobody has the FIFO     *)
(* open for reading.                                                        *)
run_helper ==
  /\ libxc_context
  /\ receiver' = IF receiver = "fifo" THEN "watching" ELSE receiver
  /\ UNCHANGED <<saveVars, primary>>

OpenFifo ==
  /\ receiver = "starting" /\ receiver' = "fifo"
  /\ UNCHANGED <<saveVars, chanVars, restoreVars, primary>>

(* The receiver hears nothing within its time-out, or its input ends. *)
Silent == primary = "crashed" \/ link = "cut" \/ libxl = "ended" \/ "late" \in Faults

(* Slip: the process is not killed. *)
Fires_NoKill ==
  /\ receiver = "watching" /\ Silent /\ receiver' = "fired"
  /\ UNCHANGED <<saveVars, chanVars, restoreVars, primary>>

(* kill(remus_pid, SIGTERM) and no further wait. *)
ReceiverFires ==
  /\ receiver = "watching" /\ Silent /\ receiver' = "fired"
  /\ link' = "closed" /\ Lose
  /\ UNCHANGED <<saveVars, restoreVars, primary>>

Receiver == OpenFifo \/ ReceiverFires

(* The environment's faults.  The crash of a primary whose session is over  *)
(* is of no interest, and one behind a cut shows the backup nothing new.    *)
PrimaryCrashes ==
  /\ "crash" \in Faults /\ libxl # "ended" /\ link # "cut"
  /\ primary = "up" /\ primary' = "crashed"
  /\ Lose
  /\ UNCHANGED <<saveVars, link, restoreVars, receiver>>

CutLink ==
  /\ "cut" \in Faults /\ link = "up" /\ link' = "cut"
  /\ Lose
  /\ UNCHANGED <<saveVars, restoreVars, failVars>>

BackupFaults == "backup" \in Faults /\ BackupError /\ UNCHANGED <<saveVars, failVars>>

Next ==
  \/ Helper \/ Libxl \/ Guest \/ Backup \/ run_helper \/ Receiver
  \/ PrimaryCrashes \/ CutLink \/ BackupFaults

(* Each process is scheduled while its host is up: the event loop's timers  *)
(* fire, scripts end, readers read.  Nothing is assumed of the guest.       *)
Spec ==
  /\ Init /\ [][Next]_vars
  /\ WF_vars(Helper) /\ WF_vars(Libxl) /\ WF_vars(Backup \/ run_helper) /\ WF_vars(Receiver)

-----------------------------------------------------------------------------
(* Safety. *)

(* The helper and libxl take turns: an answer is in the pipe only when the  *)
(* helper's request has been read and dealt with, there is never a second   *)
(* one, and libxl works for the request the helper waits on.  With this the *)
(* two never write to the stream at the same time (libxl_save_callout.c     *)
(* sends a bare int, nothing ties an answer to a request).                  *)
AnswersMatch ==
  /\ Len(replies) <= 1
  /\ replies # << >> => helper \in Waits /\ ~asked /\ libxl = "idle"
  /\ asked => helper \in Waits /\ libxl = "idle"
  /\ libxl = "suspend" => helper = "suspend"
  /\ libxl = "preresume" => helper = "postcopy"
  /\ libxl \in {"stream", "end", "timer", "watch"} => helper = "checkpoint"

(* A guest activated at the backup is one that existed at the primary: its  *)
(* memory and its device model are of the same checkpoint, wherever the     *)
(* stream broke off after its headers (xc_sr_restore.c buffers,             *)
(* libxl_stream_read.c queues).                                             *)
BackupConsistent ==
  backup = "running" => mem # 0 /\ (guestType = "HVM" => dm = mem)

(* Output commit: the outside has seen no packet of a buffered interface    *)
(* that the activated guest has not sent, as long as what was written to    *)
(* the stream has arrived (libxl_remus.c commits when the checkpoint is     *)
(* written; nothing acknowledges it).                                       *)
OutputCommit ==
  backup = "running" /\ ~lost => \A n \in plugged : released[n] <= mem

(* At the end of a session whose teardown reported no error no device is    *)
(* left with its buffer in place, however set-up or checkpoints failed, and *)
(* the save was reported complete at most once.                             *)
SessionEndsClean ==
  libxl \in {"done", "ended"} => (~failed => installed = {}) /\ completions <= 1

-----------------------------------------------------------------------------
(* Liveness. *)

(* Every request of the helper is answered, by the event loop or by a       *)
(* time-out, except that an event-driven checkpoint waits for the guest,    *)
(* and for ever when its watch, unchecked, was not registered               *)
(* (libxl_remus.c:356).                                                     *)
EveryRequestAnswered ==
  helper \in Waits ~> \/ replies # << >> \/ helper = "exited" \/ primary = "crashed"
                      \/ libxl = "watch" /\ events = 0

(* A guest suspended for a checkpoint runs again, whatever else fails: the  *)
(* checkpoint, the stream, the devices or a first attempt to resume it.     *)
(* Only a host that crashes, or a failure of the attempt with which         *)
(* main_remus() ends a session and whose result nobody looks at             *)
(* (xl_migrate.c:820), leaves it suspended.  A guest that suspends after    *)
(* the session has ended is left out.                                       *)
GuestResumes ==
  guest = "suspended" /\ libxl # "ended" ~> guest \in {"running", "stuck"} \/ primary = "crashed"

(* The primary has crashed; the backup holds a checkpoint and has yet to    *)
(* hear of it.                                                              *)
Orphaned ==
  primary = "crashed" /\ receiver = "watching" /\ backup = "restoring" /\ buffering

CheckpointUnderWay ==
  inCheckpoint \/ \E i \in 1 .. Len(stream) : stream[i].type = "CHECKPOINT"

(* When the primary crashes and no checkpoint is under way, the backup      *)
(* activates the guest, provided that a first checkpoint has arrived and    *)
(* that the receiver has got its pid.                                       *)
TakesOver ==
  Orphaned /\ ~CheckpointUnderWay ~> backup \in {"running", "error"}

(* The same without the exception: "a backup, which will activate if the    *)
(* target VM fails" (docs/README.remus).                                    *)
FailsOver ==
  Orphaned ~> backup \in {"running", "error"}
=============================================================================
