---------------------------- MODULE RemusRestore ----------------------------
(***************************************************************************)
(* The backup host of CPS-Remus: xl migrate-receive, libxl's stream reader *)
(* (libxl_stream_read.c) and the restore helper (xc_sr_restore.c), which   *)
(* take turns in reading the stream.  A checkpoint is kept aside until all *)
(* of it has arrived.                                                      *)
(***************************************************************************)
EXTENDS Channel

VARIABLES
  backup,        \* see RestoreTypeOK
  buffering,     \* buffer_all_records: a whole checkpoint has been received
  buffered,      \* version of the buffered memory, or 0
  inCheckpoint,  \* libxl reads the stream
  queued,        \* version of the queued device model's state, or 0
  mem, dm        \* versions of the memory and device model in place, or 0

restoreVars == <<backup, buffering, buffered, inCheckpoint, queued, mem, dm>>

(* "running": the guest is activated.  Otherwise it never is: "failed" has  *)
(* no consistent state, "error" met an error of its own, "aborted" failed   *)
(* an assertion, "spinning" reads on for ever.                              *)
RestoreTypeOK ==
  /\ backup \in {"starting", "restoring", "running", "failed", "error", "aborted", "spinning"}
  /\ buffering \in BOOLEAN /\ inCheckpoint \in BOOLEAN
  /\ buffered \in Nat /\ queued \in Nat /\ mem \in Nat /\ dm \in Nat

RestoreInit ==
  /\ backup = "starting" /\ buffering = FALSE /\ inCheckpoint = FALSE
  /\ buffered = 0 /\ queued = 0 /\ mem = 0 /\ dm = 0

(* The next record of the stream is of type t and is taken off it. *)
Reads(t) ==
  /\ stream # << >> /\ Head(stream).type = t
  /\ stream' = Tail(stream) /\ UNCHANGED <<link, lost>>

(* libxl hands the stream to the restore helper. *)
libxc_context ==
  /\ backup = "starting" /\ Reads("LIBXC_CONTEXT") /\ backup' = "restoring"
  /\ UNCHANGED <<buffering, buffered, inCheckpoint, queued, mem, dm>>

(* Slip: pages are written to the guest's memory as they arrive. *)
Pages_Direct ==
  /\ backup = "restoring" /\ ~inCheckpoint /\ Reads("PAGE_DATA")
  /\ mem' = Head(stream).ver
  /\ UNCHANGED <<backup, buffering, buffered, inCheckpoint, queued, dm>>

handle_page_data ==
  /\ backup = "restoring" /\ ~inCheckpoint /\ Reads("PAGE_DATA")
  /\ IF buffering THEN buffered' = Head(stream).ver /\ UNCHANGED mem
                  ELSE mem' = Head(stream).ver /\ UNCHANGED buffered
  /\ UNCHANGED <<backup, buffering, inCheckpoint, queued, dm>>

(* The helper hands the stream to libxl. *)
libxl__stream_read_start_checkpoint ==
  /\ backup = "restoring" /\ ~inCheckpoint /\ Reads("CHECKPOINT")
  /\ inCheckpoint' = TRUE
  /\ UNCHANGED <<backup, buffering, buffered, queued, mem, dm>>

queue_emulator_context ==
  /\ backup = "restoring" /\ inCheckpoint /\ Reads("EMULATOR_CONTEXT")
  /\ queued' = Head(stream).ver
  /\ UNCHANGED <<backup, buffering, buffered, inCheckpoint, mem, dm>>

(* The end of a checkpoint: libxl processes its queue and answers, the      *)
(* helper processes its buffer.                                             *)
handle_checkpoint ==
  /\ backup = "restoring" /\ inCheckpoint /\ Reads("CHECKPOINT_END")
  /\ dm' = queued /\ queued' = 0 /\ inCheckpoint' = FALSE
  /\ IF buffering THEN mem' = buffered /\ UNCHANGED buffering
                  ELSE buffering' = TRUE /\ UNCHANGED mem
  /\ buffered' = 0
  /\ UNCHANGED backup

(* The end of the restore: what was put aside is dropped; a domain that     *)
(* cannot be activated is destroyed.                                        *)
Ends(outcome) ==
  /\ backup' = outcome
  /\ buffered' = 0 /\ queued' = 0 /\ inCheckpoint' = FALSE
  /\ IF outcome \in {"failed", "error"} THEN buffering' = FALSE /\ mem' = 0 /\ dm' = 0
                                        ELSE UNCHANGED <<buffering, mem, dm>>

(* The stream has ended while the helper, or libxl before it, reads it.     *)
(* The stream's header and LIBXC_CONTEXT, which the primary writes one      *)
(* after the other, are one record here.                                    *)
BrokenChannel ==
  /\ link = "closed" /\ stream = << >>
  /\ backup \in {"starting", "restoring"} /\ ~inCheckpoint
  /\ Ends(IF buffering THEN "running" ELSE "failed")
  /\ UNCHANGED chanVars

(* ... while libxl reads the records of a checkpoint.  Its reader takes the *)
(* end of file (eof) for a record of zeroes, queues it and reads on.  A     *)
(* read error makes it answer XGR_CHECKPOINT_FAILOVER; stream_done() then   *)
(* asserts that its queue is empty.  Of the two records of the device model *)
(* that are one here the first may be queued when the stream breaks: half.  *)
BrokenInCheckpoint(eof, half) ==
  /\ link = "closed" /\ stream = << >>
  /\ backup = "restoring" /\ inCheckpoint
  /\ half => queued = 0 /\ dm # 0
  /\ IF eof
     THEN backup' = "spinning" /\ UNCHANGED <<buffering, buffered, inCheckpoint, queued, mem, dm>>
     ELSE Ends(CASE ~buffering                           -> "failed"
                 [] buffering /\ queued = 0 /\ ~half     -> "running"
                 [] buffering /\ (queued # 0 \/ half)     -> "aborted")
  /\ UNCHANGED chanVars

(* An error of the backup's own, out of memory for one. *)
BackupError ==
  /\ backup \in {"starting", "restoring"} /\ Ends("error")
  /\ link' = IF link = "up" THEN "closed" ELSE link
  /\ stream' = << >> /\ lost' = (lost \/ stream # << >>)

RestoreStep ==
  \/ handle_page_data \/ libxl__stream_read_start_checkpoint
  \/ queue_emulator_context \/ handle_checkpoint
  \/ BrokenChannel \/ \E eof, half \in BOOLEAN : BrokenInCheckpoint(eof, half)
=============================================================================
