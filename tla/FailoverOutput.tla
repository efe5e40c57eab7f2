--------------------------- MODULE FailoverOutput --------------------------
(***************************************************************************)
(* Output commit: what the outside has seen of the guest is covered by a   *)
(* checkpoint that the backup has in place or will have, for every set of  *)
(* devices, every length of the stream and every number of checkpoints.    *)
(***************************************************************************)
EXTENDS FailoverStream

LEMMA RestoreNat ==
  ASSUME RestoreTypeOK
  PROVE  mem \in Nat /\ buffered \in Nat /\ Held \in Nat
BY DEF RestoreTypeOK, Held

LEMMA HeldFrame ==
  ASSUME UNCHANGED restoreVars
  PROVE  Held' = Held /\ mem' = mem /\ buffering' = buffering
BY DEF restoreVars, Held

(* A step of the primary and of its guest, as the stream sees it: the       *)
(* guest's version does not fall, and memory that is written is of it.      *)
LEMMA PrimaryEffect ==
  ASSUME RemusTypeOK, Helper \/ Libxl \/ Guest
  PROVE  /\ UNCHANGED <<restoreVars, guestType>> /\ version' \in Nat /\ version <= version'
         /\ link' = "up" => link = "up"
         /\ \/ UNCHANGED stream
            \/ /\ link = "up" /\ UNCHANGED version
               /\ \E t \in RecordTypes, v \in Nat :
                    Write(Rec(t, v)) /\ (t = "PAGE_DATA" => v = version)
<1>. USE DEF modeVars, guestVars, chanVars
<1>0. /\ version \in Nat /\ dmSave \in Nat
      /\ \A rec : Write(rec) => (UNCHANGED stream \/ link = "up") /\ UNCHANGED link
      /\ WriteFails => UNCHANGED chanVars
  BY DEF RemusTypeOK, SaveTypeOK, Write, WriteFails
<1>. USE DEF RecordTypes
<1>1. CASE Helper
  <2>1. UNCHANGED <<restoreVars, guestType, version>>
    BY <1>1 DEF Helper, HelperStep, send_domain_memory_live, suspend_and_send_dirty,
       write_checkpoint_record, helper_getreply, suspend_domain, helperFrame
  <2>2. CASE suspend_and_send_dirty
    BY <1>0, <2>1, <2>2 DEF suspend_and_send_dirty
  <2>3. CASE write_checkpoint_record
    BY <1>0, <2>1, <2>3 DEF write_checkpoint_record
  <2>4. CASE send_domain_memory_live \/ helper_getreply
    <3>1. UNCHANGED <<stream, link>>
      BY <2>4 DEF send_domain_memory_live, helper_getreply, suspend_domain
    <3>. QED BY <1>0, <2>1, <3>1
  <2>. QED BY <1>1, <2>2, <2>3, <2>4 DEF Helper, HelperStep
<1>2. CASE Libxl
  <2>1. UNCHANGED <<restoreVars, guestType, version>>
    BY <1>2 DEF Libxl, LibxlStep, libxl__remus_setup, helper_exited, main_remus, DeviceSetUp,
       DevicePreresumed, DeviceTornDown, libxl__remus_domain_suspend_callback,
       suspend_common_wait_guest_timeout, libxl__remus_domain_resume_callback,
       libxl__remus_domain_save_checkpoint_callback, write_emulator_context_record,
       remus_checkpoint_stream_written, domain_suspend_common_guest_suspended, remus_next_checkpoint,
       cpsremus_next_checkpoint, Requested
  <2>2. ASSUME NEW d \in Devices, NEW ok \in BOOLEAN, DeviceSetUp(d, ok)
        PROVE  \/ UNCHANGED chanVars
               \/ Write(Rec("LIBXC_CONTEXT", 0))
    BY <1>0, <2>2 DEF DeviceSetUp, libxl__domain_save
  <2>3. CASE write_emulator_context_record
    BY <1>0, <2>1, <2>3 DEF write_emulator_context_record
  <2>4. ASSUME NEW bad \in SUBSET (Nics \cap matched), remus_checkpoint_stream_written(bad)
        PROVE  \/ UNCHANGED chanVars
               \/ Write(Rec("CHECKPOINT_END", 0))
    BY <1>0, <2>4 DEF remus_checkpoint_stream_written
  <2>5. CASE main_remus
    BY <1>0, <2>1, <2>5 DEF main_remus
  <2>6. CASE UNCHANGED chanVars
    BY <1>0, <2>1, <2>6
  <2>7. CASE Write(Rec("LIBXC_CONTEXT", 0)) \/ Write(Rec("CHECKPOINT_END", 0))
    BY <1>0, <2>1, <2>7
  <2>. QED BY <1>2, <2>2, <2>3, <2>4, <2>5, <2>6, <2>7 DEF Libxl, LibxlStep, libxl__remus_setup, helper_exited,
       DevicePreresumed, DeviceTornDown, libxl__remus_domain_suspend_callback,
       suspend_common_wait_guest_timeout, libxl__remus_domain_resume_callback,
       libxl__remus_domain_save_checkpoint_callback, domain_suspend_common_guest_suspended,
       remus_next_checkpoint, cpsremus_next_checkpoint
<1>3. CASE Guest
  BY <1>0, <1>3 DEF Guest, GuestStep, GuestRuns, GuestSuspends, GuestWrites, guestFrame
<1>. QED BY <1>1, <1>2, <1>3

-----------------------------------------------------------------------------
(* OrderInv. *)

LEMMA OrderInit == Init => OrderInv
<1>. SUFFICES ASSUME Init PROVE OrderInv
  OBVIOUS
<1>1. Len(stream) = 0 /\ Held = 0 /\ mem = 0 /\ version = 1
  BY DEF Init, SaveInit, ChannelInit, RestoreInit, Held
<1>. QED BY <1>1 DEF OrderInv

LEMMA OrderFrame ==
  ASSUME RemusTypeOK, OrderInv, UNCHANGED <<stream, restoreVars>>, version' \in Nat, version <= version'
  PROVE  OrderInv'
<1>1. /\ version \in Nat /\ mem \in Nat /\ Held \in Nat
      /\ \A i \in 1 .. Len(stream) : stream[i].ver \in Nat
  BY RestoreNat, StreamTyped DEF RemusTypeOK, SaveTypeOK
<1>. QED BY <1>1, HeldFrame DEF OrderInv

LEMMA OrderAppend ==
  ASSUME RemusTypeOK, OrderInv, UNCHANGED <<restoreVars, version>>, link = "up",
         NEW t \in RecordTypes, NEW v \in Nat, Write(Rec(t, v)), t = "PAGE_DATA" => v = version
  PROVE  OrderInv'
<1>1. /\ version \in Nat /\ mem \in Nat /\ Held \in Nat /\ Len(stream) \in Nat
      /\ \A i \in 1 .. Len(stream) : stream[i].ver \in Nat
  BY RestoreNat, StreamTyped DEF RemusTypeOK, SaveTypeOK
<1>2. /\ Len(stream') = Len(stream) + 1
      /\ \A i \in 1 .. Len(stream) : stream'[i] = stream[i]
      /\ stream'[Len(stream) + 1].type = t /\ stream'[Len(stream) + 1].ver = v
  BY WriteEffect DEF RemusTypeOK
<1>3. \A i \in 1 .. Len(stream') : i \in 1 .. Len(stream) \/ i = Len(stream) + 1
  BY <1>1, <1>2
<1>4. Held' = Held /\ mem' = mem
  BY HeldFrame
<1>5. ASSUME NEW i \in 1 .. Len(stream'), stream'[i].type = "PAGE_DATA"
      PROVE  mem <= stream'[i].ver /\ Held <= stream'[i].ver /\ stream'[i].ver <= version
  BY <1>1, <1>2, <1>3, <1>5 DEF OrderInv
<1>6. ASSUME NEW i \in 1 .. Len(stream'), stream'[i].type = "PAGE_DATA",
             NEW j \in 1 .. Len(stream'), i < j, stream'[j].type = "PAGE_DATA"
      PROVE  stream'[i].ver <= stream'[j].ver
  <2>1. i \in 1 .. Len(stream)
    BY <1>1, <1>2, <1>6
  <2>2. CASE j \in 1 .. Len(stream)
    BY <1>2, <1>6, <2>1, <2>2 DEF OrderInv
  <2>3. CASE j = Len(stream) + 1
    BY <1>2, <1>6, <2>1, <2>3 DEF OrderInv
  <2>. QED BY <1>3, <2>2, <2>3
<1>. QED BY <1>4, <1>5, <1>6 DEF OrderInv

LEMMA OrderLose ==
  ASSUME RemusTypeOK, OrderInv, Lose, UNCHANGED <<restoreVars, version>>
  PROVE  OrderInv'
<1>1. /\ Len(stream) \in Nat /\ Len(stream') \in Nat /\ Len(stream') <= Len(stream)
      /\ \A i \in 1 .. Len(stream') : stream'[i] = stream[i]
  BY LoseEffect, StreamTyped DEF RemusTypeOK
<1>. QED BY <1>1, HeldFrame DEF OrderInv

LEMMA OrderRead ==
  ASSUME RemusTypeOK, StreamInv, OrderInv, ReadStep, UNCHANGED <<guestType, version>>
  PROVE  OrderInv'
<1>1. /\ version \in Nat /\ mem \in Nat /\ Held \in Nat /\ Len(stream) \in Nat
      /\ \A i \in 1 .. Len(stream) : stream[i].ver \in Nat /\ stream[i].type \in RecordTypes
  BY RestoreNat, StreamTyped DEF RemusTypeOK, SaveTypeOK
<1>2. /\ 1 <= Len(stream) /\ Len(stream') = Len(stream) - 1
      /\ \A i \in 1 .. Len(stream') : stream'[i] = stream[i + 1]
  BY ReadShift DEF RemusTypeOK
<1>3. /\ stream[1].type = "PAGE_DATA" =>
           Held = 0 /\ Held' = stream[1].ver /\ Held' # 0 /\ mem' \in {mem, stream[1].ver}
      /\ stream[1].type \in {"CHECKPOINT", "EMULATOR_CONTEXT"} => Held' = Held /\ mem' = mem
      /\ stream[1].type = "CHECKPOINT_END" => Held' = 0 /\ mem' = Held /\ Held # 0
      /\ stream[1].type = "LIBXC_CONTEXT" => Held' = 0 /\ mem' = mem
  BY ReadKeeps DEF RemusTypeOK
<1>4. stream[1].type \in {"PAGE_DATA", "CHECKPOINT", "EMULATOR_CONTEXT", "CHECKPOINT_END", "LIBXC_CONTEXT"}
  BY <1>1, <1>2 DEF RecordTypes
<1>5. \A i \in 1 .. Len(stream') : i + 1 \in 1 .. Len(stream) /\ 1 < i + 1
  BY <1>1, <1>2
<1>6. 1 \in 1 .. Len(stream)
  BY <1>1, <1>2
<1>7. mem' <= version /\ Held' <= version /\ (Held' # 0 => mem' <= Held')
  BY <1>1, <1>3, <1>4, <1>6 DEF OrderInv
<1>8. ASSUME NEW i \in 1 .. Len(stream'), stream'[i].type = "PAGE_DATA"
      PROVE  mem' <= stream'[i].ver /\ Held' <= stream'[i].ver /\ stream'[i].ver <= version
  <2>1. stream[i + 1].type = "PAGE_DATA" /\ stream'[i] = stream[i + 1] /\ i + 1 \in 1 .. Len(stream)
        /\ 1 < i + 1
    BY <1>2, <1>5, <1>8
  <2>2. /\ mem <= stream[i + 1].ver /\ Held <= stream[i + 1].ver /\ stream[i + 1].ver <= version
        /\ stream[1].type = "PAGE_DATA" => stream[1].ver <= stream[i + 1].ver
    BY <1>6, <2>1 DEF OrderInv
  <2>. QED BY <1>1, <1>3, <1>4, <2>1, <2>2
<1>9. ASSUME NEW i \in 1 .. Len(stream'), stream'[i].type = "PAGE_DATA",
             NEW j \in 1 .. Len(stream'), i < j, stream'[j].type = "PAGE_DATA"
      PROVE  stream'[i].ver <= stream'[j].ver
  <2>1. i + 1 < j + 1
    BY <1>9
  <2>. QED BY <1>2, <1>5, <1>9, <2>1 DEF OrderInv
<1>. QED BY <1>7, <1>8, <1>9 DEF OrderInv

LEMMA OrderEnds ==
  ASSUME RemusTypeOK, OrderInv, UNCHANGED version, stream' = << >>, NEW outcome, Ends(outcome)
  PROVE  OrderInv'
<1>1. Len(stream') = 0 /\ version \in Nat /\ mem \in Nat
  BY RestoreNat DEF RemusTypeOK, SaveTypeOK
<1>2. buffered' = 0 /\ mem' \in {0, mem}
  BY DEF Ends
<1>3. Held' \in {0, mem'}
  BY <1>2 DEF Held
<1>. QED BY <1>1, <1>2, <1>3 DEF OrderInv

(* The steps of the backup's end, and what they leave. *)
LEMMA EndsEffect ==
  ASSUME RemusTypeOK, StreamInv, RestoreStep \/ libxc_context \/ BackupError, ~ReadStep
  PROVE  /\ \/ UNCHANGED <<buffering, buffered, mem, inCheckpoint, queued, dm>>
            \/ \E outcome : Ends(outcome)
         /\ stream' = << >>
         /\ buffering' => buffering /\ mem' = mem /\ stream = << >> /\ lost' = lost
         /\ link' # "up"
<1>1. CASE BrokenChannel
  BY <1>1 DEF BrokenChannel, Ends, chanVars
<1>2. ASSUME NEW eof \in BOOLEAN, NEW half \in BOOLEAN, BrokenInCheckpoint(eof, half)
      PROVE  /\ \/ UNCHANGED <<buffering, buffered, mem, inCheckpoint, queued, dm>>
                \/ \E outcome : Ends(outcome)
             /\ stream' = << >>
             /\ buffering' => buffering /\ mem' = mem /\ stream = << >> /\ lost' = lost
             /\ link' # "up"
  <2>1. CASE eof
    BY <1>2, <2>1 DEF BrokenInCheckpoint, chanVars
  <2>2. CASE ~eof
    <3>1. \E outcome : Ends(outcome)
      BY <1>2, <2>2 DEF BrokenInCheckpoint
    <3>2. buffering' => buffering /\ mem' = mem
      BY <3>1 DEF Ends
    <3>. QED BY <1>2, <3>1, <3>2 DEF BrokenInCheckpoint, chanVars
  <2>. QED BY <2>1, <2>2
<1>3. CASE BackupError
  BY <1>3 DEF BackupError, Ends
<1>. QED BY <1>1, <1>2, <1>3 DEF RestoreStep, ReadStep

(* A step is one of the primary, a record that is read, the end of the      *)
(* restore, the loss of records, or of no concern here.                     *)
LEMMA StepKinds ==
  ASSUME [Next]_vars
  PROVE  \/ Helper \/ Libxl \/ Guest
         \/ ReadStep /\ UNCHANGED <<saveVars, primary>>
         \/ /\ (RestoreStep \/ libxc_context \/ BackupError) /\ ~ReadStep
            /\ UNCHANGED <<saveVars, primary>>
         \/ /\ Lose /\ UNCHANGED <<saveVars, restoreVars>> /\ (link' = "up" => link = "up")
            /\ primary' # "up" \/ link' # "up"
         \/ UNCHANGED <<saveVars, chanVars, restoreVars, primary>>
<1>1. CASE Backup
  BY <1>1 DEF Backup, failVars
<1>2. CASE run_helper
  BY <1>2 DEF run_helper, ReadStep
<1>3. CASE Receiver
  BY <1>3 DEF Receiver, OpenFifo, ReceiverFires
<1>4. CASE PrimaryCrashes
  BY <1>4 DEF PrimaryCrashes
<1>5. CASE CutLink
  BY <1>5 DEF CutLink
<1>6. CASE BackupFaults
  BY <1>6 DEF BackupFaults, failVars
<1>7. CASE UNCHANGED vars
  BY <1>7 DEF vars, failVars
<1>. QED BY <1>1, <1>2, <1>3, <1>4, <1>5, <1>6, <1>7 DEF Next

LEMMA OrderStep ==
  ASSUME RemusTypeOK, StreamInv, OrderInv, [Next]_vars
  PROVE  OrderInv'
<1>0. version \in Nat
  BY DEF RemusTypeOK, SaveTypeOK
<1>1. CASE Helper \/ Libxl \/ Guest
  BY <1>1, PrimaryEffect, OrderFrame, OrderAppend
<1>2. ASSUME UNCHANGED saveVars
      PROVE  UNCHANGED <<guestType, version>> /\ version' \in Nat /\ version <= version'
  BY <1>0, <1>2 DEF saveVars, modeVars, guestVars
<1>3. CASE ReadStep /\ UNCHANGED saveVars
  BY <1>2, <1>3, OrderRead
<1>4. CASE /\ (RestoreStep \/ libxc_context \/ BackupError) /\ ~ReadStep /\ UNCHANGED saveVars
  <2>1. CASE \E outcome : Ends(outcome)
    BY <1>2, <1>4, <2>1, EndsEffect, OrderEnds
  <2>2. CASE UNCHANGED <<buffering, buffered, mem>>
    <3>1. stream' = << >> /\ Len(stream') = 0
      BY <1>4, EndsEffect
    <3>2. Held' = Held
      BY <2>2 DEF Held
    <3>. QED BY <1>2, <1>4, <2>2, <3>1, <3>2 DEF OrderInv
  <2>. QED BY <1>4, <2>1, <2>2, EndsEffect
<1>5. CASE Lose /\ UNCHANGED <<saveVars, restoreVars>>
  BY <1>2, <1>5, OrderLose
<1>6. CASE UNCHANGED <<saveVars, chanVars, restoreVars>>
  BY <1>2, <1>6, OrderFrame DEF chanVars
<1>. QED BY <1>1, <1>3, <1>4, <1>5, <1>6, StepKinds

-----------------------------------------------------------------------------
(* PlugInv. *)

(* Only the primary writes the end of a checkpoint. *)
LEMMA EndedFrame ==
  ASSUME UNCHANGED <<stream, restoreVars>>
  PROVE  EverEnded' <=> EverEnded
BY DEF EverEnded, restoreVars

LEMMA EndedAppend ==
  ASSUME RemusTypeOK, NEW t \in RecordTypes, t # "CHECKPOINT_END", NEW v \in Nat, Write(Rec(t, v)),
         UNCHANGED restoreVars
  PROVE  EverEnded' <=> EverEnded
<1>1. CASE link = "up"
  <2>1. /\ Len(stream) \in Nat /\ Len(stream') = Len(stream) + 1
        /\ \A i \in 1 .. Len(stream) : stream'[i] = stream[i]
        /\ stream'[Len(stream) + 1].type = t
    BY <1>1, WriteEffect, StreamTyped DEF RemusTypeOK
  <2>2. \A i \in 1 .. Len(stream') : i \in 1 .. Len(stream) \/ i = Len(stream) + 1
    BY <2>1
  <2>3. \A i \in 1 .. Len(stream) : i \in 1 .. Len(stream')
    BY <2>1
  <2>. QED BY <2>1, <2>2, <2>3 DEF EverEnded, restoreVars
<1>2. CASE link # "up"
  BY <1>2, EndedFrame DEF Write
<1>. QED BY <1>1, <1>2

LEMMA EndedLose ==
  ASSUME RemusTypeOK, Lose, UNCHANGED restoreVars
  PROVE  EverEnded' => EverEnded
<1>1. /\ Len(stream) \in Nat /\ Len(stream') \in Nat /\ Len(stream') <= Len(stream)
      /\ \A i \in 1 .. Len(stream') : stream'[i] = stream[i]
  BY LoseEffect, StreamTyped DEF RemusTypeOK
<1>. QED BY <1>1 DEF EverEnded, restoreVars

LEMMA EndedRead ==
  ASSUME RemusTypeOK, StreamInv, ReadStep, UNCHANGED guestType
  PROVE  EverEnded' => EverEnded
<1>1. /\ 1 <= Len(stream) /\ Len(stream) \in Nat /\ Len(stream') = Len(stream) - 1
      /\ \A i \in 1 .. Len(stream') : stream'[i] = stream[i + 1]
      /\ stream[1].type # "CHECKPOINT_END" => UNCHANGED buffering
  BY ReadShift, ReadKeeps DEF RemusTypeOK
<1>2. ASSUME NEW i \in 1 .. Len(stream'), stream'[i].type = "CHECKPOINT_END"
      PROVE  EverEnded
  <2>1. i + 1 \in 1 .. Len(stream) /\ stream[i + 1].type = "CHECKPOINT_END"
    BY <1>1, <1>2
  <2>. QED BY <2>1 DEF EverEnded
<1>3. ASSUME buffering'
      PROVE  EverEnded
  <2>1. 1 \in 1 .. Len(stream)
    BY <1>1
  <2>. QED BY <1>1, <1>3, <2>1 DEF EverEnded
<1>. QED BY <1>2, <1>3 DEF EverEnded

LEMMA EndedEnds ==
  ASSUME RemusTypeOK, StreamInv, RestoreStep \/ libxc_context \/ BackupError, ~ReadStep
  PROVE  EverEnded' => EverEnded
<1>1. Len(stream') = 0 /\ (buffering' => buffering)
  BY EndsEffect
<1>. QED BY <1>1 DEF EverEnded

(* A step that leaves the network buffers alone and protects nobody anew. *)
LEMMA PlugFrame ==
  ASSUME RemusTypeOK, PlugInv, version' \in Nat, version <= version',
         UNCHANGED <<plugged, closedAt, released>>,
         Protected' => Protected /\ UNCHANGED matched,
         helper' \in {"none", "live"} => helper \in {"none", "live"} /\ (EverEnded' => EverEnded)
  PROVE  PlugInv'
<1>1. /\ version \in Nat /\ plugged \subseteq Nics
      /\ \A n \in Nics : released[n] \in Nat /\ closedAt[n] \in Nat
  BY DEF RemusTypeOK, SaveTypeOK, DevicesTypeOK
<1>. QED BY <1>1 DEF PlugInv

LEMMA PlugInit == Init => PlugInv
<1>. SUFFICES ASSUME Init PROVE PlugInv
  OBVIOUS
<1>1. Len(stream) = 0 /\ ~EverEnded
  BY DEF Init, ChannelInit, RestoreInit, EverEnded
<1>2. replies = << >>
  BY DEF Init, SaveInit
<1>. QED BY <1>1, <1>2 DEF Init, SaveInit, DevicesInit, PlugInv, Protected, Granted

LEMMA HelperPlug ==
  ASSUME RemusTypeOK, TurnsInv, PlugInv, HelperStep, UNCHANGED restoreVars
  PROVE  PlugInv'
<1>. USE DEF modeVars, guestVars, devVars, nicVars, chanVars
<1>0. SaveTypeOK /\ version \in Nat
  BY DEF RemusTypeOK, SaveTypeOK
<1>1. UNCHANGED <<version, plugged, closedAt, released, matched>>
  BY DEF HelperStep, send_domain_memory_live, suspend_and_send_dirty, write_checkpoint_record,
     helper_getreply, suspend_domain, helperFrame
<1>2. EverEnded' <=> EverEnded
  <2>1. \/ UNCHANGED stream
        \/ Write(Rec("PAGE_DATA", version))
        \/ Write(Rec("CHECKPOINT", 0))
    BY DEF HelperStep, send_domain_memory_live, suspend_and_send_dirty, write_checkpoint_record,
       helper_getreply, suspend_domain, WriteFails
  <2>. QED BY <1>0, <2>1, EndedFrame, EndedAppend DEF RecordTypes
<1>3. CASE send_domain_memory_live
  <2>1. helper = "live" /\ replies' = << >> /\ helper' \in {"suspend", "exited"} /\ ~EverEnded
    BY <1>3 DEF send_domain_memory_live, TurnsInv, AnswersMatch, PlugInv, Ask, Becomes, Waits
  <2>. QED BY <1>0, <1>1, <1>2, <2>1, PlugFrame DEF Protected, Granted
<1>4. CASE suspend_and_send_dirty \/ write_checkpoint_record
  <2>1. helper \in {"send", "record"} /\ helper' \in {"record", "postcopy", "exited"}
    BY <1>4 DEF suspend_and_send_dirty, write_checkpoint_record, Ask, Becomes
  <2>. QED BY <1>0, <1>1, <1>2, <2>1, PlugFrame DEF Protected, Granted
<1>5. CASE helper_getreply
  <2>1. helper \in Waits /\ replies # << >> /\ Len(replies) <= 1
    BY <1>5 DEF helper_getreply, suspend_domain, TurnsInv, AnswersMatch
  <2>2. replies' = << >> /\ Head(replies) \in {0, 1}
    BY <1>0, <1>5, <2>1, TakeReply DEF helper_getreply, suspend_domain
  <2>3. \/ helper' = "exited"
        \/ Granted("suspend") /\ helper' = "send"
        \/ helper \in {"postcopy", "checkpoint"} /\ helper' \in {"checkpoint", "suspend"}
    BY <1>5, <2>1, <2>2 DEF helper_getreply, suspend_domain, Becomes, Ask, Granted, Waits
  <2>4. Protected' => Protected
    BY <2>2, <2>3 DEF Protected, Granted
  <2>5. helper' \notin {"none", "live"}
    BY <2>3
  <2>. QED BY <1>0, <1>1, <2>4, <2>5, PlugFrame
<1>. QED BY <1>3, <1>4, <1>5 DEF HelperStep

LEMMA LibxlPlug ==
  ASSUME RemusTypeOK, TurnsInv, PlugInv, LibxlStep, UNCHANGED restoreVars
  PROVE  PlugInv'
<1>. USE DEF modeVars, guestVars, helperVars, devVars, nicVars, chanVars
<1>0. /\ SaveTypeOK /\ version \in Nat /\ plugged \subseteq Nics
      /\ closedAt \in [Nics -> Nat] /\ released \in [Nics -> Nat]
  BY DEF RemusTypeOK, SaveTypeOK, DevicesTypeOK
\* Nothing is protected before the helper is started and after it is reaped.
<1>1. ASSUME UNCHANGED <<version, plugged, closedAt, released>>, helper' \in {"none", "live", "reaped"},
             helper' \in {"none", "live"} => helper = "none" /\ (EverEnded' => EverEnded)
      PROVE  PlugInv'
  <2>1. ~Protected'
    BY <1>1 DEF Protected, Granted
  <2>. QED BY <1>0, <1>1, <2>1, PlugFrame
<1>2. CASE libxl__remus_setup
  <2>1. helper = "none"
    BY <1>0, <1>2 DEF libxl__remus_setup, TurnsInv, SaveTypeOK
  <2>2. EverEnded' <=> EverEnded
    BY <1>2, EndedFrame DEF libxl__remus_setup
  <2>. QED BY <1>1, <1>2, <2>1, <2>2 DEF libxl__remus_setup
<1>3. CASE helper_exited
  BY <1>1, <1>3 DEF helper_exited
<1>4. CASE main_remus
  <2>1. helper \in {"none", "reaped"}
    BY <1>0, <1>4 DEF main_remus, TurnsInv, SaveTypeOK
  <2>2. EverEnded' <=> EverEnded
    BY <1>4, EndedFrame DEF main_remus
  <2>. QED BY <1>1, <1>4, <2>1, <2>2 DEF main_remus
<1>5. ASSUME NEW d \in Devices, NEW ok \in BOOLEAN, DeviceSetUp(d, ok)
      PROVE  PlugInv'
  <2>1. helper = "none" /\ UNCHANGED <<version, plugged, closedAt, released>>
    BY <1>0, <1>5 DEF DeviceSetUp, TurnsInv, SaveTypeOK
  <2>2. helper' \in {"none", "live"} /\ (UNCHANGED stream \/ Write(Rec("LIBXC_CONTEXT", 0)))
    BY <1>5, <2>1 DEF DeviceSetUp, libxl__domain_save, WriteFails
  <2>3. EverEnded' <=> EverEnded
    BY <2>2, EndedFrame, EndedAppend DEF RecordTypes
  <2>. QED BY <1>1, <2>1, <2>2, <2>3
<1>6. ASSUME NEW d \in Devices, NEW ok \in BOOLEAN, DeviceTornDown(d, ok)
      PROVE  PlugInv'
  <2>1. helper \in {"none", "reaped"} /\ UNCHANGED <<helper, version, closedAt, released, stream>>
    BY <1>0, <1>6 DEF DeviceTornDown, TurnsInv, SaveTypeOK
  <2>2. plugged' \subseteq plugged
    BY <1>6 DEF DeviceTornDown, TearDown
  <2>3. ~Protected' /\ (EverEnded' <=> EverEnded)
    BY <2>1, EndedFrame DEF Protected, Granted
  <2>. QED BY <2>1, <2>2, <2>3 DEF PlugInv
\* libxl works for a helper that waits.
<1>7. ASSUME UNCHANGED <<version, plugged, closedAt, released, matched, helper>>,
             helper \in {"postcopy", "checkpoint"}
      PROVE  PlugInv'
  BY <1>0, <1>7, PlugFrame DEF Protected
<1>8. CASE libxl__remus_domain_suspend_callback
  <2>1. /\ UNCHANGED <<version, plugged, closedAt, released, matched, helper, replies, stream>>
        /\ helper = "suspend"
    BY <1>8 DEF libxl__remus_domain_suspend_callback, Requested
  <2>2. EverEnded' <=> EverEnded
    BY <2>1, EndedFrame
  <2>. QED BY <1>0, <2>1, <2>2, PlugFrame DEF Protected, Granted
<1>9. CASE suspend_common_wait_guest_timeout
  <2>1. /\ UNCHANGED <<version, plugged, closedAt, released, matched, helper, stream>>
        /\ helper = "suspend" /\ replies = << >> /\ sendreply(0)
    BY <1>9 DEF suspend_common_wait_guest_timeout, TurnsInv, AnswersMatch
  <2>2. EverEnded' <=> EverEnded
    BY <2>1, EndedFrame
  <2>3. Head(replies') = 0
    BY <1>0, <2>1, ReplyEffect
  <2>. QED BY <1>0, <2>1, <2>2, <2>3, PlugFrame DEF Protected, Granted
<1>10. ASSUME NEW bad \in SUBSET (Nics \cap matched), NEW dmOk \in BOOLEAN,
              domain_suspend_common_guest_suspended(dmOk, bad)
       PROVE  PlugInv'
  <2>1. /\ UNCHANGED <<version, matched, helper, stream>> /\ helper = "suspend" /\ replies = << >>
    BY <1>10 DEF domain_suspend_common_guest_suspended, TurnsInv, AnswersMatch
  <2>2. EverEnded' <=> EverEnded
    BY <2>1, EndedFrame
  <2>3. CASE UNCHANGED nicVars /\ sendreply(0)
    <3>1. Head(replies') = 0
      BY <1>0, <2>1, <2>3, ReplyEffect
    <3>. QED BY <1>0, <2>1, <2>2, <2>3, <3>1, PlugFrame DEF Protected, Granted
  <2>4. CASE /\ devices_postsuspend(bad, version)
             /\ sendreply(IF bad = {} THEN 1 ELSE 0)
    <3>. DEFINE good == (Nics \cap matched) \ bad
    <3>1. /\ plugged' = plugged \cup good /\ released' = released
          /\ \A n \in Nics : closedAt'[n] = IF n \in good THEN version ELSE closedAt[n]
      BY <2>4 DEF devices_postsuspend
    <3>2. Protected' => Nics \cap matched' \subseteq plugged'
      <4>1. CASE bad = {}
        BY <2>1, <3>1, <4>1
      <4>2. CASE bad # {}
        <5>1. Head(replies') = 0
          BY <1>0, <2>1, <2>4, <4>2, ReplyEffect
        <5>. QED BY <2>1, <2>2, <3>1, <5>1 DEF Protected, Granted, PlugInv
      <4>. QED BY <4>1, <4>2
    <3>3. good \subseteq Nics
      OBVIOUS
    <3>. HIDE DEF good
    <3>. QED BY <1>0, <2>1, <3>1, <3>2, <3>3 DEF PlugInv
  <2>. QED BY <1>10, <2>3, <2>4 DEF domain_suspend_common_guest_suspended
<1>11. CASE libxl__remus_domain_resume_callback
  BY <1>7, <1>11 DEF libxl__remus_domain_resume_callback, Requested
<1>12. ASSUME NEW d \in Devices, NEW ok \in BOOLEAN, DevicePreresumed(d, ok)
       PROVE  PlugInv'
  BY <1>7, <1>12 DEF DevicePreresumed, TurnsInv, AnswersMatch
<1>13. CASE libxl__remus_domain_save_checkpoint_callback
  BY <1>7, <1>13 DEF libxl__remus_domain_save_checkpoint_callback, Requested
<1>14. CASE write_emulator_context_record
  BY <1>7, <1>14 DEF write_emulator_context_record, TurnsInv, AnswersMatch
<1>15. CASE \E ok \in BOOLEAN : remus_next_checkpoint(ok)
  BY <1>7, <1>15 DEF remus_next_checkpoint, TurnsInv, AnswersMatch
<1>16. CASE cpsremus_next_checkpoint
  BY <1>7, <1>16 DEF cpsremus_next_checkpoint, TurnsInv, AnswersMatch
<1>17. ASSUME NEW bad \in SUBSET (Nics \cap matched), remus_checkpoint_stream_written(bad)
       PROVE  PlugInv'
  <2>1. UNCHANGED <<version, matched, helper>> /\ helper = "checkpoint"
    BY <1>17 DEF remus_checkpoint_stream_written, TurnsInv, AnswersMatch
  <2>2. CASE devices_commit(bad, version)
    <3>1. /\ UNCHANGED <<plugged, closedAt>>
          /\ \A n \in Nics : released'[n] \in {closedAt[n], released[n]}
      BY <2>2 DEF devices_commit
    <3>. QED BY <1>0, <2>1, <3>1 DEF PlugInv, Protected
  <2>3. CASE UNCHANGED nicVars
    BY <1>7, <2>1, <2>3
  <2>. QED BY <1>17, <2>2, <2>3 DEF remus_checkpoint_stream_written
<1>. QED BY <1>2, <1>3, <1>4, <1>5, <1>6, <1>8, <1>9, <1>10, <1>11, <1>12, <1>13, <1>14, <1>15, <1>16,
            <1>17 DEF LibxlStep

LEMMA GuestPlug ==
  ASSUME RemusTypeOK, PlugInv, GuestStep, UNCHANGED restoreVars
  PROVE  PlugInv'
<1>. USE DEF guestFrame, modeVars, guestVars, helperVars, chanVars, devVars, nicVars
<1>0. /\ version \in Nat /\ plugged \subseteq Nics
      /\ closedAt \in [Nics -> Nat] /\ released \in [Nics -> Nat]
  BY DEF RemusTypeOK, SaveTypeOK, DevicesTypeOK
<1>1. UNCHANGED <<helper, replies, stream, matched, plugged, closedAt>>
  BY DEF GuestStep, GuestRuns, GuestSends, GuestSuspends, GuestWrites
<1>2. (EverEnded' <=> EverEnded) /\ (Protected' <=> Protected)
  BY <1>1, EndedFrame DEF Protected, Granted
<1>3. CASE UNCHANGED <<version, released>>
  BY <1>0, <1>1, <1>2, <1>3, PlugFrame
<1>4. CASE GuestRuns
  <2>1. /\ version' = version + 1
        /\ \A n \in Nics : released'[n] = IF n \in plugged THEN released[n] ELSE version + 1
    BY <1>4 DEF GuestRuns, GuestSends
  <2>. QED BY <1>0, <1>1, <1>2, <2>1 DEF PlugInv
<1>. QED BY <1>3, <1>4 DEF GuestStep, GuestSuspends, GuestWrites

LEMMA PlugStep ==
  ASSUME RemusTypeOK, TurnsInv, StreamInv, PlugInv, [Next]_vars
  PROVE  PlugInv'
<1>1. CASE Helper
  BY <1>1, HelperPlug DEF Helper
<1>2. CASE Libxl
  BY <1>2, LibxlPlug DEF Libxl
<1>3. CASE Guest
  BY <1>3, GuestPlug DEF Guest
<1>4. ASSUME UNCHANGED saveVars, EverEnded' => EverEnded
      PROVE  PlugInv'
  BY <1>4, PlugFrame DEF saveVars, modeVars, guestVars, helperVars, devVars, nicVars, RemusTypeOK,
                         SaveTypeOK, Protected, Granted
<1>5. UNCHANGED saveVars => UNCHANGED guestType
  BY DEF saveVars, modeVars
<1>. QED BY <1>1, <1>2, <1>3, <1>4, <1>5, StepKinds, EndedRead, EndedEnds, EndedLose, EndedFrame DEF chanVars

-----------------------------------------------------------------------------
(* EpochInv. *)

LEMMA EpochInit == Init => EpochInv
BY DEF Init, SaveInit, DevicesInit, ChannelInit, EpochInv

(* A step that leaves the stream alone and takes the checkpoint no further  *)
(* than to the end of its records.                                          *)
LEMMA EpochFrame ==
  ASSUME EpochInv, UNCHANGED <<stream, restoreVars, lost, primary, guestType, plugged, closedAt>>,
         link' = "up" => link = "up",
         helper' = "record" => helper = "record", Resuming' => Resuming,
         libxl' = "end" => libxl = "end" \/ (guestType # "HVM" /\ Resuming),
         ChannelTypeOK
  PROVE  EpochInv'
<1>1. Held' = Held /\ Len(stream) \in Nat /\ Span' = Span /\ (guestType # "HVM" => Span = 2) /\ Span \in {2, 3}
  BY HeldFrame, StreamTyped DEF Span
<1>2. PICK n : n = Len(stream)
  OBVIOUS
<1>3. \A k \in Int : PageAt(k)' = PageAt(k)
  BY <1>1 DEF PageAt
<1>4. /\ PageAt(Len(stream))' = PageAt(Len(stream))
      /\ PageAt(Len(stream) - 1)' = PageAt(Len(stream) - 1)
      /\ PageAt(Len(stream) + 1 - Span)' = PageAt(Len(stream) + 1 - Span)
  BY <1>1, <1>2, <1>3 DEF PageAt
<1>5. guestType # "HVM" => Len(stream) + 1 - Span = Len(stream) - 1
  BY <1>1
<1>. QED BY <1>4, <1>5 DEF EpochInv

(* A step after which no checkpoint is between its memory and its end. *)
LEMMA EpochIdle ==
  ASSUME EpochInv, UNCHANGED primary, link' = "up" => link = "up" /\ lost' = lost,
         helper' # "record", ~Resuming', libxl' # "end"
  PROVE  EpochInv'
BY DEF EpochInv

(* Writing to a stream that is up loses nothing. *)
LEMMA WriteKeepsLost ==
  ASSUME NEW rec, Write(rec) \/ WriteFails
  PROVE  UNCHANGED link /\ (link = "up" => UNCHANGED lost)
BY DEF Write, WriteFails, chanVars

LEMMA HelperEpoch ==
  ASSUME RemusTypeOK, TurnsInv, PlugInv, EpochInv, primary = "up", HelperStep,
         UNCHANGED <<restoreVars, failVars>>
  PROVE  EpochInv'
<1>. USE DEF helperFrame, modeVars, guestVars, devVars, nicVars, failVars
<1>0. ChannelTypeOK /\ SaveTypeOK /\ version \in Nat /\ plugged \subseteq Nics
  BY DEF RemusTypeOK, SaveTypeOK, DevicesTypeOK
<1>1. CASE send_domain_memory_live
  <2>1. helper' \in {"suspend", "exited"} /\ libxl' = "idle" /\ UNCHANGED <<link, lost, primary>>
    BY <1>1 DEF send_domain_memory_live, TurnsInv, Ask, Becomes, chanVars
  <2>. QED BY <2>1, EpochIdle DEF Resuming
<1>2. CASE suspend_and_send_dirty
  <2>1. libxl' = "idle" /\ UNCHANGED <<primary, plugged, closedAt>>
    BY <1>2 DEF suspend_and_send_dirty, TurnsInv
  <2>2. CASE WriteFails /\ helper' = "exited"
    BY <2>1, <2>2, EpochIdle, WriteKeepsLost DEF Resuming
  <2>3. CASE Write(Rec("PAGE_DATA", version)) /\ helper' = "record"
    <3>1. UNCHANGED link /\ (link = "up" => UNCHANGED lost)
      BY <2>3, WriteKeepsLost
    <3>2. link = "up" => PageAt(Len(stream))' = version
      BY <1>0, <2>3, ViewAppend DEF RecordTypes
    <3>3. \A n \in plugged : closedAt[n] <= version
      BY <1>0 DEF PlugInv
    <3>4. ~Resuming'
      BY <2>3 DEF Resuming
    <3>. QED BY <2>1, <2>3, <3>1, <3>2, <3>3, <3>4 DEF EpochInv
  <2>. QED BY <1>2, <2>2, <2>3 DEF suspend_and_send_dirty, Becomes
<1>3. CASE write_checkpoint_record
  <2>1. helper = "record" /\ libxl' = "idle" /\ UNCHANGED <<primary, plugged, closedAt>>
    BY <1>3 DEF write_checkpoint_record, TurnsInv
  <2>2. CASE WriteFails /\ helper' = "exited"
    BY <2>1, <2>2, EpochIdle, WriteKeepsLost DEF Resuming
  <2>3. CASE Write(Rec("CHECKPOINT", 0)) /\ helper' = "postcopy"
    <3>1. UNCHANGED link /\ (link = "up" => UNCHANGED lost)
      BY <2>3, WriteKeepsLost
    <3>2. link = "up" => PageAt(Len(stream) - 1)' = PageAt(Len(stream))
      BY <1>0, <2>3, ViewAppend DEF RecordTypes
    <3>. QED BY <2>1, <2>3, <3>1, <3>2 DEF EpochInv
  <2>. QED BY <1>3, <2>2, <2>3 DEF write_checkpoint_record, Becomes, Ask
<1>4. CASE helper_getreply
  <2>1. /\ helper \in Waits /\ libxl = "idle"
        /\ UNCHANGED <<stream, link, lost, primary, guestType, plugged, closedAt, libxl>>
    BY <1>4 DEF helper_getreply, suspend_domain, chanVars, TurnsInv, AnswersMatch
  <2>2. Head(replies) \in {0, 1}
    BY <1>0, <1>4, TakeReply DEF helper_getreply, suspend_domain, TurnsInv, AnswersMatch
  <2>3. helper' \in {"exited", "send", "suspend"} \/ (helper' = "checkpoint" /\ helper = "postcopy")
    BY <1>4, <2>1, <2>2 DEF helper_getreply, suspend_domain, Becomes, Ask, Waits
  <2>4. Resuming' => Resuming
    BY <2>1, <2>3 DEF Resuming
  <2>. QED BY <1>0, <2>1, <2>3, <2>4, EpochFrame
<1>. QED BY <1>1, <1>2, <1>3, <1>4 DEF HelperStep

LEMMA LibxlEpoch ==
  ASSUME RemusTypeOK, TurnsInv, WriterInv, EpochInv, primary = "up", LibxlStep,
         UNCHANGED <<restoreVars, failVars>>
  PROVE  EpochInv'
<1>. USE DEF modeVars, guestVars, helperVars, devVars, nicVars, failVars
<1>0. SaveTypeOK /\ ChannelTypeOK /\ dmSave \in Nat
  BY DEF RemusTypeOK, SaveTypeOK
\* No helper, or one that waits for its guest to be suspended.
<1>1. ASSUME helper' \in {"none", "live", "reaped", "suspend"}, libxl' # "end",
             link' = "up" => link = "up" /\ lost' = lost
      PROVE  EpochInv'
  BY <1>1, EpochIdle DEF Resuming
<1>2. CASE libxl__remus_setup
  <2>1. helper = "none"
    BY <1>0, <1>2 DEF libxl__remus_setup, TurnsInv, SaveTypeOK
  <2>. QED BY <1>1, <1>2, <2>1 DEF libxl__remus_setup, chanVars
<1>3. CASE helper_exited
  BY <1>1, <1>3 DEF helper_exited, libxl__checkpoint_devices_teardown, chanVars
<1>4. CASE main_remus
  <2>1. helper \in {"none", "reaped"}
    BY <1>0, <1>4 DEF main_remus, TurnsInv, SaveTypeOK
  <2>. QED BY <1>1, <1>4, <2>1 DEF main_remus
<1>5. ASSUME NEW d \in Devices, NEW ok \in BOOLEAN, DeviceSetUp(d, ok)
      PROVE  EpochInv'
  <2>1. helper = "none" /\ libxl = "setup"
    BY <1>0, <1>5 DEF DeviceSetUp, TurnsInv, SaveTypeOK
  <2>2. helper' \in {"none", "live"} /\ libxl' # "end"
    BY <1>5, <2>1 DEF DeviceSetUp, libxl__domain_save, libxl__checkpoint_devices_teardown
  <2>3. UNCHANGED chanVars \/ (\E rec : Write(rec)) \/ WriteFails
    BY <1>5 DEF DeviceSetUp, libxl__domain_save
  <2>4. UNCHANGED link /\ (link = "up" => UNCHANGED lost)
    BY <2>3, WriteKeepsLost DEF chanVars
  <2>. QED BY <1>1, <2>2, <2>4
<1>6. ASSUME NEW d \in Devices, NEW ok \in BOOLEAN, DeviceTornDown(d, ok)
      PROVE  EpochInv'
  <2>1. helper \in {"none", "reaped"}
    BY <1>0, <1>6 DEF DeviceTornDown, TurnsInv, SaveTypeOK
  <2>. QED BY <1>1, <1>6, <2>1 DEF DeviceTornDown, chanVars
<1>7. CASE libxl__remus_domain_suspend_callback
  BY <1>1, <1>7 DEF libxl__remus_domain_suspend_callback, Requested, chanVars
<1>8. CASE suspend_common_wait_guest_timeout
  BY <1>1, <1>8 DEF suspend_common_wait_guest_timeout, TurnsInv, AnswersMatch, chanVars
<1>9. ASSUME NEW bad \in SUBSET (Nics \cap matched), NEW dmOk \in BOOLEAN,
             domain_suspend_common_guest_suspended(dmOk, bad)
      PROVE  EpochInv'
  BY <1>1, <1>9 DEF domain_suspend_common_guest_suspended, TurnsInv, AnswersMatch, chanVars
\* The guest is to be resumed.
<1>10. ASSUME helper = "postcopy", libxl' \in {"idle", "preresume"},
              UNCHANGED <<helper, stream, link, lost, guestType, plugged, closedAt>>
       PROVE  EpochInv'
  BY <1>0, <1>10, EpochFrame DEF Resuming
<1>11. CASE libxl__remus_domain_resume_callback
  <2>1. libxl' \in {"idle", "preresume"}
    BY <1>11 DEF libxl__remus_domain_resume_callback, libxl__domain_resume
  <2>. QED BY <1>10, <1>11, <2>1 DEF libxl__remus_domain_resume_callback, Requested, chanVars
<1>12. ASSUME NEW d \in Devices, NEW ok \in BOOLEAN, DevicePreresumed(d, ok)
       PROVE  EpochInv'
  <2>1. libxl' \in {"idle", "preresume"}
    BY <1>12 DEF DevicePreresumed, libxl__domain_resume
  <2>. QED BY <1>10, <1>12, <2>1 DEF DevicePreresumed, TurnsInv, AnswersMatch, chanVars
<1>13. CASE libxl__remus_domain_save_checkpoint_callback
  <2>1. /\ Resuming /\ helper' = "checkpoint" /\ libxl' = IF guestType = "HVM" THEN "stream" ELSE "end"
        /\ UNCHANGED <<stream, link, lost, guestType, plugged, closedAt>>
    BY <1>13 DEF libxl__remus_domain_save_checkpoint_callback, Requested, Resuming, chanVars
  <2>. QED BY <1>0, <2>1, EpochFrame
\* The device model's state is written, the end of the checkpoint is next.
<1>14. CASE write_emulator_context_record
  <2>1. /\ libxl = "stream" /\ helper = "checkpoint" /\ ~asked /\ guestType = "HVM"
        /\ UNCHANGED <<helper, asked, guestType, plugged, closedAt>>
    BY <1>14 DEF write_emulator_context_record, TurnsInv, AnswersMatch, WriterInv
  <2>2. CASE UNCHANGED chanVars /\ libxl' = "idle"
    BY <2>1, <2>2, EpochIdle DEF Resuming, chanVars
  <2>3. CASE Write(Rec("EMULATOR_CONTEXT", dmSave)) /\ libxl' = "end"
    <3>1. UNCHANGED link /\ (link = "up" => UNCHANGED lost)
      BY <2>3, WriteKeepsLost
    <3>2. CASE link # "up"
      BY <3>1, <3>2 DEF EpochInv
    <3>3. CASE link = "up"
      <4>0. PICK m : m = Len(stream)
        OBVIOUS
      <4>1. m \in Nat /\ Len(stream') = m + 1 /\ \A k \in Int : k <= m => PageAt(k)' = PageAt(k)
        BY <1>0, <2>3, <3>3, <4>0, ViewAppend, WriteEffect, StreamTyped DEF RecordTypes
      <4>2. Span' = 3
        BY <2>1 DEF Span
      <4>3. PageAt(Len(stream) + 1 - Span)' = PageAt(m - 1)' /\ PageAt(m - 1)' = PageAt(m - 1)
        BY <4>1, <4>2 DEF PageAt
      <4>4. ~Resuming' /\ Resuming
        BY <2>1, <2>3 DEF Resuming
      <4>. QED BY <2>1, <2>3, <3>1, <3>3, <4>0, <4>3, <4>4 DEF EpochInv
    <3>. QED BY <3>2, <3>3
  <2>. QED BY <1>14, <2>2, <2>3 DEF write_emulator_context_record, WriteFails
\* The checkpoint is complete.
<1>15. ASSUME helper' = "checkpoint", ~asked', libxl' \in {"idle", "timer", "watch"},
              link' = "up" => link = "up" /\ lost' = lost
       PROVE  EpochInv'
  BY <1>15, EpochIdle DEF Resuming
<1>16. ASSUME NEW bad \in SUBSET (Nics \cap matched), remus_checkpoint_stream_written(bad)
       PROVE  EpochInv'
  <2>1. helper' = "checkpoint" /\ ~asked'
    BY <1>16 DEF remus_checkpoint_stream_written, TurnsInv, AnswersMatch
  <2>2. libxl' \in {"idle", "timer", "watch"}
    BY <1>16 DEF remus_checkpoint_stream_written, AwaitNext, AwaitEvent, AwaitTimer
  <2>3. (\E rec : Write(rec)) \/ WriteFails
    BY <1>16 DEF remus_checkpoint_stream_written
  <2>. QED BY <1>15, <2>1, <2>2, <2>3, WriteKeepsLost
<1>17. CASE \E ok \in BOOLEAN : remus_next_checkpoint(ok)
  BY <1>15, <1>17 DEF remus_next_checkpoint, TurnsInv, AnswersMatch, chanVars
<1>18. CASE cpsremus_next_checkpoint
  <2>1. libxl = "watch" /\ helper = "checkpoint" /\ ~asked
    BY <1>18 DEF cpsremus_next_checkpoint, TurnsInv, AnswersMatch
  <2>. QED BY <1>15, <1>18, <2>1 DEF cpsremus_next_checkpoint, chanVars
<1>. QED BY <1>2, <1>3, <1>4, <1>5, <1>6, <1>7, <1>8, <1>9, <1>11, <1>12, <1>13, <1>14, <1>16, <1>17,
            <1>18 DEF LibxlStep

LEMMA ReadEpoch ==
  ASSUME RemusTypeOK, StreamInv, WriterInv, EpochInv, ReadStep, UNCHANGED <<saveVars, primary>>
  PROVE  EpochInv'
<1>. USE DEF saveVars, modeVars, helperVars, devVars, nicVars
<1>0. PICK n : n = Len(stream)
  OBVIOUS
<1>1. n \in Nat /\ Len(stream') = n - 1 /\ UNCHANGED <<link, lost>>
  BY <1>0, ReadShift, ReadKeeps DEF RemusTypeOK
<1>2. /\ LastWritten = "PAGE_DATA" => PageAt(Len(stream))' = PageAt(Len(stream))
      /\ LastWritten = "CHECKPOINT" => PageAt(Len(stream) - 1)' = PageAt(Len(stream) - 1)
      /\ LastWritten = "EMULATOR_CONTEXT" => PageAt(Len(stream) - 2)' = PageAt(Len(stream) - 2)
  BY ViewRead DEF RemusTypeOK
<1>3. Span' = Span /\ Span = IF guestType = "HVM" THEN 3 ELSE 2
  BY DEF Span
<1>4. PageAt(Len(stream) + 1 - Span)' =
        IF guestType = "HVM" THEN PageAt(Len(stream) - 2)' ELSE PageAt(Len(stream) - 1)'
  BY <1>1, <1>3 DEF PageAt
<1>5. PageAt(Len(stream) + 1 - Span) =
        IF guestType = "HVM" THEN PageAt(Len(stream) - 2) ELSE PageAt(Len(stream) - 1)
  BY <1>0, <1>1, <1>3 DEF PageAt
<1>6. Resuming' <=> Resuming
  BY DEF Resuming
<1>. QED BY <1>1, <1>2, <1>4, <1>5, <1>6 DEF EpochInv, WriterInv

LEMMA EpochStep ==
  ASSUME RemusTypeOK, TurnsInv, StreamInv, WriterInv, PlugInv, EpochInv, [Next]_vars
  PROVE  EpochInv'
<1>1. CASE Helper
  BY <1>1, HelperEpoch DEF Helper
<1>2. CASE Libxl
  BY <1>2, LibxlEpoch DEF Libxl
<1>3. CASE Guest
  <2>1. UNCHANGED <<stream, link, lost, restoreVars, primary, guestType, plugged, closedAt, helper, asked, libxl>>
    BY <1>3 DEF Guest, GuestStep, GuestRuns, GuestSuspends, GuestWrites, GuestSends, guestFrame, modeVars,
                helperVars, chanVars, failVars, devVars, nicVars
  <2>. QED BY <2>1, EpochFrame DEF Resuming, RemusTypeOK
<1>4. CASE ReadStep /\ UNCHANGED <<saveVars, primary>>
  BY <1>4, ReadEpoch
<1>5. CASE primary' # "up" \/ link' # "up"
  BY <1>5 DEF EpochInv
<1>6. CASE UNCHANGED <<saveVars, chanVars, restoreVars, primary>>
  BY <1>6, EpochFrame DEF RemusTypeOK, Resuming, saveVars, modeVars, helperVars, devVars, nicVars, chanVars
<1>. QED BY <1>1, <1>2, <1>3, <1>4, <1>5, <1>6, StepKinds, EndsEffect

-----------------------------------------------------------------------------
(* CoverInv. *)

LEMMA CoverInit == Init => CoverInv
BY DEF Init, SaveInit, DevicesInit, CoverInv

(* A step that leaves the stream alone and lets nothing out of an interface *)
(* that is plugged.                                                         *)
LEMMA CoverFrame ==
  ASSUME CoverInv, UNCHANGED <<stream, restoreVars, guestType>>, lost => lost',
         EverEnded => \A n \in plugged' : n \in plugged /\ released'[n] = released[n]
  PROVE  CoverInv'
<1>1. Held' = Held /\ mem' = mem /\ buffering' = buffering /\ Span' = Span
  BY HeldFrame DEF Span
<1>2. \A k : PageAt(k)' = PageAt(k)
  BY <1>1 DEF PageAt
<1>3. \A i : PageAt(i - Span)' = PageAt(i - Span)
  BY <1>1, <1>2 DEF PageAt
<1>4. EverEnded' <=> EverEnded
  BY EndedFrame
<1>5. \A n \in plugged' : Covered(n) /\ released'[n] = released[n] => Covered(n)'
  BY <1>1, <1>3 DEF Covered
<1>. QED BY <1>4, <1>5 DEF CoverInv

(* A record that is written leaves those before it where they are. *)
LEMMA CoverGrows ==
  ASSUME RemusTypeOK, link = "up", NEW t \in RecordTypes, NEW v \in Nat, Write(Rec(t, v)),
         UNCHANGED <<restoreVars, guestType>>
  PROVE  \A i \in 1 .. Len(stream) + 1 : PageAt(i - Span)' = PageAt(i - Span)
<1>1. Span' = Span /\ Span \in {2, 3}
  BY DEF Span
<1>2. Len(stream) \in Nat /\ \A k \in Int : k <= Len(stream) => PageAt(k)' = PageAt(k)
  BY ViewAppend, StreamTyped DEF RemusTypeOK
<1>. TAKE i \in 1 .. Len(stream) + 1
<1>3. PICK k \in Int : k = i - Span /\ k <= Len(stream)
  BY <1>1, <1>2
<1>4. PageAt(k)' = PageAt(k)
  BY <1>2, <1>3
<1>5. PageAt(i - Span)' = PageAt(k)'
  BY <1>1, <1>3 DEF PageAt
<1>. QED BY <1>3, <1>4, <1>5

LEMMA CoverAppend ==
  ASSUME RemusTypeOK, CoverInv, NEW t \in RecordTypes, t # "CHECKPOINT_END", NEW v \in Nat, Write(Rec(t, v)),
         UNCHANGED <<restoreVars, guestType, plugged, released>>
  PROVE  CoverInv'
<1>1. CASE link # "up"
  BY <1>1, CoverFrame DEF Write
<1>2. CASE link = "up"
  <2>1. /\ Len(stream) \in Nat /\ Len(stream') = Len(stream) + 1 /\ UNCHANGED lost
        /\ \A i \in 1 .. Len(stream) : stream'[i] = stream[i]
    BY <1>2, WriteEffect, StreamTyped DEF RemusTypeOK
  <2>2. \A i \in 1 .. Len(stream) : i \in 1 .. Len(stream') /\ i \in 1 .. Len(stream) + 1
    BY <2>1
  <2>3. mem' = mem /\ buffering' = buffering
    BY HeldFrame
  <2>4. \A n : Covered(n) => Covered(n)'
    BY <1>2, <2>1, <2>2, <2>3, CoverGrows DEF Covered
  <2>. QED BY <2>1, <2>4, EndedAppend DEF CoverInv
<1>. QED BY <1>1, <1>2

(* The end of a checkpoint is written and output is let out: the checkpoint *)
(* covers it.                                                               *)
LEMMA CoverCommit ==
  ASSUME RemusTypeOK, PlugInv, EpochInv, CoverInv, primary = "up", libxl = "end",
         Write(Rec("CHECKPOINT_END", 0)), UNCHANGED <<restoreVars, guestType>>,
         NEW bad, devices_commit(bad, version)
  PROVE  CoverInv'
<1>1. CASE link # "up"
  BY <1>1 DEF Write, CoverInv
<1>2. CASE link = "up"
  <2>0. PICK m : m = Len(stream) + 1
    OBVIOUS
  <2>1. /\ m \in Nat /\ m \in 1 .. Len(stream') /\ stream'[m].type = "CHECKPOINT_END"
        /\ m \in 1 .. Len(stream) + 1
    BY <1>2, <2>0, WriteEffect, StreamTyped DEF RemusTypeOK, RecordTypes
  <2>2. PageAt(m - Span)' = PageAt(m - Span)
    BY <1>2, <2>1, CoverGrows DEF RecordTypes
  <2>3. \A n \in plugged : closedAt[n] <= PageAt(m - Span)
    <3>1. \A n \in plugged : closedAt[n] <= PageAt(Len(stream) + 1 - Span)
      BY <1>2 DEF EpochInv
    <3>2. Len(stream) + 1 - Span = m - Span
      BY <2>0, StreamTyped DEF Span, RemusTypeOK
    <3>. QED BY <3>1, <3>2
  <2>4. PageAt(m - Span) \in Nat
    <3>1. Held \in Nat /\ \A i \in 1 .. m - 1 : stream[i].ver \in Nat
      BY <2>0, RestoreNat, StreamTyped DEF RemusTypeOK
    <3>. QED BY <2>1, <3>1 DEF PageAt, Span
  <2>5. ASSUME NEW n \in plugged
        PROVE  released'[n] <= PageAt(m - Span)
    <3>1. n \in Nics /\ closedAt[n] \in Nat /\ released[n] \in Nat
      BY DEF RemusTypeOK, SaveTypeOK, DevicesTypeOK
    <3>2. released'[n] \in {closedAt[n], released[n]} /\ released[n] <= closedAt[n]
      BY <3>1 DEF devices_commit, PlugInv
    <3>. QED BY <2>3, <2>4, <3>1, <3>2
  <2>6. plugged' = plugged
    BY DEF devices_commit
  <2>7. \A n \in plugged' : Covered(n)'
    BY <2>1, <2>2, <2>5, <2>6 DEF Covered
  <2>. QED BY <2>7 DEF CoverInv
<1>. QED BY <1>1, <1>2

LEMMA CoverLose ==
  ASSUME RemusTypeOK, CoverInv, Lose, UNCHANGED <<saveVars, restoreVars>>
  PROVE  CoverInv'
<1>. SUFFICES ASSUME ~lost', EverEnded' PROVE \A n \in plugged' : Covered(n)'
  BY DEF CoverInv
<1>1. /\ Len(stream) \in Nat /\ Len(stream') = Len(stream) /\ ~lost
      /\ \A i \in 1 .. Len(stream) : stream'[i] = stream[i]
  <2>1. stream' \in Seq([type : RecordTypes, ver : Nat])
    BY LoseEffect DEF RemusTypeOK
  <2>2. Len(stream') \in Nat
    BY <2>1
  <2>3. ~lost /\ ~(Len(stream') < Len(stream))
    BY LoseEffect DEF RemusTypeOK, ChannelTypeOK
  <2>. QED BY <2>2, <2>3, LoseEffect, StreamTyped DEF RemusTypeOK
<1>2. UNCHANGED <<plugged, released, guestType>>
  BY DEF saveVars, modeVars, devVars, nicVars
<1>3. Held' = Held /\ mem' = mem /\ buffering' = buffering /\ Span' = Span /\ Span \in {2, 3}
  BY <1>2, HeldFrame DEF Span
<1>4. \A i \in 1 .. Len(stream) : PageAt(i - Span)' = PageAt(i - Span)
  BY <1>1, <1>3 DEF PageAt
<1>5. \A n : Covered(n) => Covered(n)'
  BY <1>1, <1>2, <1>3, <1>4 DEF Covered
<1>. QED BY <1>1, <1>2, <1>5, EndedLose DEF CoverInv

(* Where the memory of a checkpoint is, as seen from its end. *)
LEMMA EndShift ==
  ASSUME RemusTypeOK, StreamInv, ReadStep, UNCHANGED guestType,
         NEW i \in 1 .. Len(stream), i > 1, stream[i].type = "CHECKPOINT_END"
  PROVE  PageAt(i - 1 - Span)' = PageAt(i - Span)
<1>0. PICK n : n = Len(stream)
  OBVIOUS
<1>1. /\ n \in Nat /\ 1 <= n /\ i \in 2 .. n
      /\ \A k \in 1 .. n - 1 : PageAt(k)' = PageAt(k + 1)
      /\ \A k \in Int : k <= 0 => PageAt(k)' = Held' /\ PageAt(k) = Held
      /\ PageAt(1) = stream[1].ver
  BY <1>0, ReadShift DEF RemusTypeOK
<1>2. /\ stream[1].type = "PAGE_DATA" => Held' = stream[1].ver
      /\ stream[1].type \in {"CHECKPOINT", "EMULATOR_CONTEXT"} => Held' = Held
  BY ReadKeeps DEF RemusTypeOK
<1>3. ASSUME NEW k \in 2 .. n
      PROVE  /\ stream[k].type = "CHECKPOINT" => stream[k - 1].type = "PAGE_DATA"
             /\ stream[k].type = "EMULATOR_CONTEXT" => stream[k - 1].type = "CHECKPOINT"
             /\ stream[k].type = "CHECKPOINT_END" =>
                  stream[k - 1].type = IF guestType = "HVM" THEN "EMULATOR_CONTEXT" ELSE "CHECKPOINT"
  <2>1. k \in 1 .. n /\ k - 1 \in 1 .. n /\ k # 1
    BY <1>1
  <2>2. stream[k].type = Follows(stream[k - 1].type) /\ stream[k - 1].type \in RecordTypes
        /\ stream[k].type \in RecordTypes
    BY <1>0, <2>1, StreamTyped DEF StreamInv, Before, RemusTypeOK
  <2>3. (guestType # "HVM") => stream[k - 1].type # "EMULATOR_CONTEXT"
    <3>1. k - 1 = 1 => LastRead \in RecordTypes \cup {"none"}
      BY LastReadIs DEF RemusTypeOK
    <3>2. stream[k - 1].type = Follows(Before(k - 1)) /\ Before(k - 1) \in RecordTypes \cup {"none"}
      BY <1>0, <2>1, BeforeTyped DEF StreamInv, RemusTypeOK
    <3>. QED BY <3>2, FollowsInverse
  <2>. QED BY <2>2, <2>3, FollowsInverse
<1>4. \A k \in Int : k <= n - 1 =>
        /\ k > 0 => PageAt(k)' = PageAt(k + 1)
        /\ k = 0 /\ stream[1].type = "PAGE_DATA" => PageAt(k)' = PageAt(k + 1)
        /\ k < 0 /\ stream[1].type \in {"CHECKPOINT", "EMULATOR_CONTEXT"} => PageAt(k)' = PageAt(k + 1)
  BY <1>1, <1>2
<1>5. CASE guestType = "HVM"
  <2>1. Span = 3 /\ Span' = 3
    BY <1>5 DEF Span
  <2>2. stream[i - 1].type = "EMULATOR_CONTEXT"
    BY <1>1, <1>3, <1>5
  <2>3. i > 2 => stream[i - 2].type = "CHECKPOINT"
    <3>1. i > 2 => i - 1 \in 2 .. n /\ i - 1 - 1 = i - 2
      BY <1>1
    <3>. QED BY <1>3, <2>2, <3>1
  <2>4. i > 3 => stream[i - 3].type = "PAGE_DATA"
    <3>1. i > 3 => i - 2 \in 2 .. n /\ i - 2 - 1 = i - 3
      BY <1>1
    <3>. QED BY <1>1, <1>3, <2>3, <3>1
  <2>5. PageAt(i - 4)' = PageAt(i - 4 + 1)
    <3>1. CASE i = 2
      BY <1>1, <1>4, <2>2, <3>1
    <3>2. CASE i = 3
      BY <1>1, <1>4, <2>3, <3>2
    <3>3. CASE i = 4
      BY <1>1, <1>4, <2>4, <3>3
    <3>4. CASE i > 4
      BY <1>1, <1>4, <3>4
    <3>. QED BY <1>1, <3>1, <3>2, <3>3, <3>4
  <2>6. i - 4 + 1 = i - 3 /\ i - 1 - 3 = i - 4
    BY <1>1
  <2>7. PageAt(i - 1 - Span)' = PageAt(i - 4)'
    BY <2>1, <2>6 DEF PageAt
  <2>. QED BY <2>1, <2>5, <2>6, <2>7
<1>6. CASE guestType # "HVM"
  <2>1. Span = 2 /\ Span' = 2
    BY <1>6 DEF Span
  <2>2. stream[i - 1].type = "CHECKPOINT"
    BY <1>1, <1>3, <1>6
  <2>3. i > 2 => stream[i - 2].type = "PAGE_DATA"
    <3>1. i > 2 => i - 1 \in 2 .. n /\ i - 1 - 1 = i - 2
      BY <1>1
    <3>. QED BY <1>3, <2>2, <3>1
  <2>5. PageAt(i - 3)' = PageAt(i - 3 + 1)
    <3>1. CASE i = 2
      BY <1>1, <1>4, <2>2, <3>1
    <3>2. CASE i = 3
      BY <1>1, <1>4, <2>3, <3>2
    <3>4. CASE i > 3
      BY <1>1, <1>4, <3>4
    <3>. QED BY <1>1, <3>1, <3>2, <3>4
  <2>6. i - 3 + 1 = i - 2 /\ i - 1 - 2 = i - 3
    BY <1>1
  <2>7. PageAt(i - 1 - Span)' = PageAt(i - 3)'
    BY <2>1, <2>6 DEF PageAt
  <2>. QED BY <2>1, <2>5, <2>6, <2>7
<1>. QED BY <1>5, <1>6

LEMMA CoverRead ==
  ASSUME RemusTypeOK, StreamInv, OrderInv, CoverInv, ReadStep, UNCHANGED saveVars
  PROVE  CoverInv'
<1>. SUFFICES ASSUME ~lost', EverEnded', NEW n \in plugged' PROVE Covered(n)'
  BY DEF CoverInv
<1>0. UNCHANGED <<plugged, released, guestType>>
  BY DEF saveVars, modeVars, devVars, nicVars
<1>1. /\ Len(stream) \in Nat /\ 1 <= Len(stream) /\ Len(stream') = Len(stream) - 1
      /\ \A i \in 1 .. Len(stream') : stream'[i] = stream[i + 1]
      /\ \A i \in Int : i <= 0 => PageAt(i) = Held
  BY <1>0, ReadShift DEF RemusTypeOK
<1>2. Covered(n)
  BY <1>0, EndedRead, ReadKeeps DEF CoverInv, RemusTypeOK
<1>3. released[n] \in Nat
  BY <1>0 DEF RemusTypeOK, SaveTypeOK, DevicesTypeOK
<1>4. CASE buffering /\ released[n] <= mem
  <2>1. stream[1].type \in {"PAGE_DATA", "CHECKPOINT", "EMULATOR_CONTEXT", "CHECKPOINT_END", "LIBXC_CONTEXT"}
    BY <1>1, StreamTyped DEF RecordTypes, RemusTypeOK
  <2>2. buffering' /\ mem' \in {mem, Held} /\ (mem' # mem => mem <= Held)
    BY <1>0, <1>4, <2>1, ReadKeeps DEF RemusTypeOK, OrderInv
  <2>3. mem \in Nat /\ Held \in Nat
    BY RestoreNat DEF RemusTypeOK
  <2>. QED BY <1>0, <1>3, <1>4, <2>2, <2>3 DEF Covered
<1>5. ASSUME NEW i \in 1 .. Len(stream), stream[i].type = "CHECKPOINT_END", released[n] <= PageAt(i - Span)
      PROVE  Covered(n)'
  <2>1. CASE i = 1
    <3>1. PageAt(i - Span) = Held
      BY <1>1, <2>1 DEF Span
    <3>2. buffering' /\ mem' = Held
      BY <1>0, <1>5, <2>1, ReadKeeps DEF RemusTypeOK
    <3>. QED BY <1>0, <1>5, <3>1, <3>2 DEF Covered
  <2>2. CASE i > 1
    <3>1. PageAt(i - 1 - Span)' = PageAt(i - Span)
      BY <1>0, <1>5, <2>2, EndShift
    <3>2. i - 1 \in 1 .. Len(stream') /\ stream'[i - 1] = stream[i]
      BY <1>1, <2>2
    <3>. QED BY <1>0, <1>5, <3>1, <3>2 DEF Covered
  <2>. QED BY <2>1, <2>2
<1>. QED BY <1>2, <1>4, <1>5 DEF Covered

LEMMA CoverEnds ==
  ASSUME RemusTypeOK, StreamInv, CoverInv, RestoreStep \/ libxc_context \/ BackupError, ~ReadStep,
         UNCHANGED saveVars
  PROVE  CoverInv'
<1>. SUFFICES ASSUME ~lost', EverEnded', NEW n \in plugged' PROVE Covered(n)'
  BY DEF CoverInv
<1>1. /\ Len(stream') = 0 /\ (buffering' => buffering /\ mem' = mem /\ Len(stream) = 0 /\ lost' = lost)
  BY EndsEffect
<1>2. UNCHANGED <<plugged, released>>
  BY DEF saveVars, devVars, nicVars
<1>. QED BY <1>1, <1>2 DEF EverEnded, CoverInv, Covered

(* The steps of libxl that let nothing out. *)
LEMMA LibxlCover ==
  ASSUME RemusTypeOK, TurnsInv, PlugInv, EpochInv, CoverInv, primary = "up", LibxlStep,
         UNCHANGED restoreVars
  PROVE  CoverInv'
<1>. USE DEF modeVars, devVars, nicVars, chanVars
<1>1. ASSUME UNCHANGED <<guestType, stream, lost, plugged, released>>
      PROVE  CoverInv'
  BY <1>1, CoverFrame
<1>2. CASE \/ libxl__remus_setup \/ helper_exited \/ main_remus
           \/ libxl__remus_domain_suspend_callback \/ suspend_common_wait_guest_timeout
           \/ libxl__remus_domain_resume_callback \/ libxl__remus_domain_save_checkpoint_callback
           \/ (\E ok \in BOOLEAN : remus_next_checkpoint(ok)) \/ cpsremus_next_checkpoint
  BY <1>1, <1>2 DEF libxl__remus_setup, helper_exited, main_remus, libxl__remus_domain_suspend_callback,
     suspend_common_wait_guest_timeout, libxl__remus_domain_resume_callback,
     libxl__remus_domain_save_checkpoint_callback, remus_next_checkpoint, cpsremus_next_checkpoint, Requested
<1>3. ASSUME NEW d \in Devices, NEW ok \in BOOLEAN, DeviceSetUp(d, ok)
      PROVE  CoverInv'
  <2>1. UNCHANGED <<guestType, plugged, released>>
    BY <1>3 DEF DeviceSetUp
  <2>2. UNCHANGED chanVars \/ Write(Rec("LIBXC_CONTEXT", 0))
    BY <1>3 DEF DeviceSetUp, libxl__domain_save, WriteFails
  <2>. QED BY <1>1, <2>1, <2>2, CoverAppend DEF RecordTypes
<1>4. ASSUME NEW d \in Devices, NEW ok \in BOOLEAN, DevicePreresumed(d, ok)
      PROVE  CoverInv'
  BY <1>1, <1>4 DEF DevicePreresumed
<1>5. ASSUME NEW d \in Devices, NEW ok \in BOOLEAN, DeviceTornDown(d, ok)
      PROVE  CoverInv'
  <2>1. UNCHANGED <<guestType, stream, lost, released>> /\ plugged' \subseteq plugged
    BY <1>5 DEF DeviceTornDown, TearDown
  <2>. QED BY <2>1, CoverFrame
<1>6. CASE write_emulator_context_record
  <2>1. UNCHANGED <<guestType, plugged, released>> /\ dmSave \in Nat
    BY <1>6 DEF write_emulator_context_record, RemusTypeOK, SaveTypeOK
  <2>2. UNCHANGED chanVars \/ Write(Rec("EMULATOR_CONTEXT", dmSave))
    BY <1>6 DEF write_emulator_context_record, WriteFails
  <2>. QED BY <1>1, <2>1, <2>2, CoverAppend DEF RecordTypes
<1>7. ASSUME NEW bad \in SUBSET (Nics \cap matched), remus_checkpoint_stream_written(bad)
      PROVE  CoverInv'
  <2>1. libxl = "end" /\ UNCHANGED guestType
    BY <1>7 DEF remus_checkpoint_stream_written
  <2>2. CASE Write(Rec("CHECKPOINT_END", 0)) /\ devices_commit(bad, version)
    BY <2>1, <2>2, CoverCommit
  <2>3. CASE WriteFails /\ UNCHANGED nicVars
    BY <1>1, <2>1, <2>3 DEF WriteFails
  <2>. QED BY <1>7, <2>2, <2>3 DEF remus_checkpoint_stream_written
\* The first epoch is closed before the first checkpoint; after it all are plugged.
<1>8. ASSUME NEW bad \in SUBSET (Nics \cap matched), NEW dmOk \in BOOLEAN,
             domain_suspend_common_guest_suspended(dmOk, bad)
      PROVE  CoverInv'
  <2>1. helper = "suspend" /\ UNCHANGED <<guestType, stream, lost>>
    BY <1>8 DEF domain_suspend_common_guest_suspended, TurnsInv, AnswersMatch
  <2>2. released' = released /\ (plugged' = plugged \/ plugged' \subseteq plugged \cup (Nics \cap matched))
    BY <1>8 DEF domain_suspend_common_guest_suspended, devices_postsuspend
  <2>3. EverEnded => Nics \cap matched \subseteq plugged
    BY <2>1 DEF PlugInv, Protected
  <2>. QED BY <2>1, <2>2, <2>3, CoverFrame
<1>. QED BY <1>2, <1>3, <1>4, <1>5, <1>6, <1>7, <1>8 DEF LibxlStep

LEMMA CoverStep ==
  ASSUME RemusTypeOK, TurnsInv, StreamInv, OrderInv, PlugInv, EpochInv, CoverInv, [Next]_vars
  PROVE  CoverInv'
<1>1. CASE Helper
  <2>0. UNCHANGED <<restoreVars, helperFrame>>
    BY <1>1 DEF Helper, HelperStep, send_domain_memory_live, suspend_and_send_dirty, write_checkpoint_record,
       helper_getreply, suspend_domain
  <2>1. UNCHANGED <<restoreVars, guestType, plugged, released>> /\ version \in Nat
    BY <2>0 DEF helperFrame, modeVars, devVars, nicVars, RemusTypeOK, SaveTypeOK
  <2>2. UNCHANGED chanVars \/ Write(Rec("PAGE_DATA", version)) \/ Write(Rec("CHECKPOINT", 0))
    BY <1>1 DEF Helper, HelperStep, send_domain_memory_live, suspend_and_send_dirty, write_checkpoint_record,
       helper_getreply, suspend_domain, WriteFails
  <2>. QED BY <2>1, <2>2, CoverAppend, CoverFrame DEF RecordTypes, chanVars
<1>2. CASE Libxl
  BY <1>2, LibxlCover DEF Libxl
<1>3. CASE Guest
  <2>1. UNCHANGED <<stream, lost, restoreVars, guestType, plugged>>
    BY <1>3 DEF Guest, GuestStep, GuestRuns, GuestSuspends, GuestWrites, GuestSends, guestFrame, modeVars,
       chanVars, devVars, nicVars
  <2>2. \A n \in plugged : released'[n] = released[n]
    BY <1>3 DEF Guest, GuestStep, GuestRuns, GuestSuspends, GuestWrites, GuestSends, devVars, nicVars,
       RemusTypeOK, SaveTypeOK, DevicesTypeOK
  <2>. QED BY <2>1, <2>2, CoverFrame
<1>4. ASSUME UNCHANGED saveVars
      PROVE  UNCHANGED <<guestType, plugged, released>>
  BY <1>4 DEF saveVars, modeVars, devVars, nicVars
<1>5. CASE UNCHANGED <<saveVars, chanVars, restoreVars>>
  BY <1>4, <1>5, CoverFrame DEF chanVars
<1>. QED BY <1>1, <1>2, <1>3, <1>5, StepKinds, CoverRead, CoverEnds, CoverLose

-----------------------------------------------------------------------------
(* Versions grow along the way, interfaces are plugged before a checkpoint  *)
(* is sent, and once a checkpoint is complete all output is covered by one  *)
(* (libxl_remus.c, libxl_netbuffer.c), for a patient guest.                 *)
THEOREM OutputCorrect ==
  ASSUME PatientGuest
  PROVE  Spec => [](OrderInv /\ PlugInv /\ EpochInv /\ CoverInv)
<1>1. Init => OrderInv /\ PlugInv /\ EpochInv /\ CoverInv
  BY OrderInit, PlugInit, EpochInit, CoverInit
<1>2. RemusTypeOK /\ TurnsInv /\ StreamInv /\ WriterInv /\ OrderInv /\ PlugInv /\ EpochInv /\ CoverInv
        /\ [Next]_vars => (OrderInv /\ PlugInv /\ EpochInv /\ CoverInv)'
  BY OrderStep, PlugStep, EpochStep, CoverStep
<1>. QED BY <1>1, <1>2, RemusTypeCorrect, TurnsCorrect, StreamCorrect, PTL DEF Spec

(* The inductive invariant of a session and its failover (libxl_remus.c,    *)
(* xc_sr_save.c, libxl_stream_read.c, xc_sr_restore.c): turns, teardown,    *)
(* the order of records and the cover of output hold together, for every    *)
(* set of devices, every capacity of the stream and whatever fails, for a   *)
(* patient guest.                                                           *)
THEOREM RemusInvariantHolds ==
  ASSUME PatientGuest
  PROVE  Spec => []RemusInv
BY TurnsCorrect, StreamCorrect, OutputCorrect, PTL DEF RemusInv

(* Output commit: the outside has seen no packet of a buffered interface    *)
(* that the activated guest has not sent, as long as what was written to    *)
(* the stream has arrived, for every set of devices, every length of the    *)
(* stream and whatever fails (libxl_remus.c commits when the checkpoint is  *)
(* written), for a guest that writes its node only when a checkpoint is     *)
(* awaited.                                                                 *)
THEOREM OutputCommitCorrect ==
  ASSUME PatientGuest
  PROVE  Spec => []OutputCommit
<1>1. StreamInv /\ CoverInv => OutputCommit
  <2>. SUFFICES ASSUME StreamInv, CoverInv, backup = "running", ~lost PROVE \A n \in plugged : released[n] <= mem
    BY DEF OutputCommit
  <2>1. buffering /\ Len(stream) = 0
    BY DEF StreamInv
  <2>. QED BY <2>1 DEF CoverInv, EverEnded, Covered
<1>. QED BY <1>1, StreamCorrect, OutputCorrect, PTL
=============================================================================
