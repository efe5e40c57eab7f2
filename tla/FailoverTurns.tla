--------------------------- MODULE FailoverTurns ---------------------------
(***************************************************************************)
(* Type correctness of Failover, for every set of devices, every bound and *)
(* every guest, patient or not.  Then, for a guest that writes its node    *)
(* only while a checkpoint is awaited: the primary's two actors take       *)
(* turns, and a session ends clean, whatever fails.  Without that          *)
(* hypothesis an answer may be taken for another's, see AnswersMatch.      *)
(***************************************************************************)
EXTENDS FailoverInv, SequenceTheorems, TLAPS

(* A write leaves at most MaxStream records, each of the right shape. *)
LEMMA WriteTyped ==
  ASSUME ChannelTypeOK, NEW rec \in [type : RecordTypes, ver : Nat], Write(rec)
  PROVE  ChannelTypeOK'
<1>1. CASE link = "up"
  <2>1. Len(stream) < MaxStream /\ stream' = Append(stream, rec)
    BY <1>1 DEF Write
  <2>2. Len(stream') = Len(stream) + 1 /\ stream' \in Seq([type : RecordTypes, ver : Nat])
    BY <2>1 DEF ChannelTypeOK
  <2>. QED BY <1>1, <2>1, <2>2, ChannelAssumption DEF Write, ChannelTypeOK, ChannelAssumption
<1>2. CASE link # "up"
  BY <1>2 DEF Write, ChannelTypeOK
<1>. QED BY <1>1, <1>2

(* Losing the end of the stream leaves its records up to some place. *)
LEMMA LoseEffect ==
  ASSUME ChannelTypeOK, Lose
  PROVE  /\ stream' \in Seq([type : RecordTypes, ver : Nat])
         /\ Len(stream') <= Len(stream)
         /\ \A i \in 1 .. Len(stream') : stream'[i] = stream[i]
         /\ lost' = (lost \/ Len(stream') < Len(stream))
<1>1. PICK k \in 0 .. Len(stream) :
        stream' = SubSeq(stream, 1, k) /\ lost' = (lost \/ k < Len(stream))
  BY DEF Lose
<1>. DEFINE R == [type : RecordTypes, ver : Nat]
<1>2. stream \in Seq(R) /\ k \in Int /\ 1 \in Int /\ k <= Len(stream)
  BY <1>1 DEF ChannelTypeOK
<1>. HIDE DEF R
<1>3. \A i \in 1 .. k : stream[i] \in R
  BY <1>2
<1>4. /\ stream' \in Seq(R) /\ Len(stream') = IF 1 <= k THEN k - 1 + 1 ELSE 0
      /\ \A i \in 1 .. k - 1 + 1 : stream'[i] = stream[1 + i - 1]
  BY <1>1, <1>2, <1>3, SubSeqProperties
<1>. QED BY <1>1, <1>2, <1>4 DEF R

LEMMA LoseTyped ==
  ASSUME ChannelTypeOK, Lose, link' \in {"up", "cut", "closed"}
  PROVE  ChannelTypeOK'
<1>1. Len(stream') <= MaxStream
  BY LoseEffect, ChannelAssumption DEF ChannelTypeOK, ChannelAssumption
<1>2. lost' \in BOOLEAN
  BY LoseEffect
<1>. QED BY <1>1, <1>2, LoseEffect DEF ChannelTypeOK

(* The answers in the pipe are 0 or 1. *)
LEMMA ReplyTyped ==
  ASSUME SaveTypeOK, NEW r \in {0, 1}, sendreply(r)
  PROVE  replies' \in Seq({0, 1})
BY DEF sendreply, SaveTypeOK

LEMMA RecTyped ==
  ASSUME NEW t \in RecordTypes, NEW v \in Nat
  PROVE  Rec(t, v) \in [type : RecordTypes, ver : Nat]
BY DEF Rec

LEMMA TypeInit == Init => RemusTypeOK
<1>. SUFFICES ASSUME Init PROVE RemusTypeOK
  OBVIOUS
<1>1. DevicesTypeOK
  BY DEF Init, SaveInit, DevicesInit, DevicesTypeOK
<1>2. replies \in Seq({0, 1})
  BY DEF Init, SaveInit
<1>3. SaveTypeOK
  <2>1. /\ version \in 1 .. MaxVersion /\ dmSave \in 0 .. MaxVersion /\ completions \in Nat
        /\ events \in 0 .. MaxEvents
    BY SaveAssumption DEF Init, SaveInit, SaveAssumption
  <2>. QED BY <1>1, <1>2, <2>1 DEF Init, SaveInit, SaveTypeOK
<1>4. ChannelTypeOK
  <2>1. stream = << >> /\ Len(stream) <= MaxStream
    BY ChannelAssumption DEF Init, ChannelInit, ChannelAssumption
  <2>2. \A R : << >> \in Seq(R)
    OBVIOUS
  <2>. QED BY <2>1, <2>2 DEF Init, ChannelInit, ChannelTypeOK
<1>5. RestoreTypeOK
  BY DEF Init, RestoreInit, RestoreTypeOK
<1>. QED BY <1>3, <1>4, <1>5 DEF Init, RemusTypeOK

(* A step of the save helper. *)
LEMMA HelperTyped ==
  ASSUME SaveTypeOK, ChannelTypeOK, HelperStep
  PROVE  SaveTypeOK' /\ ChannelTypeOK'
<1>. USE DEF helperFrame, modeVars, guestVars, watchVars, devVars, nicVars, chanVars, Ask, Becomes,
             Waits
<1>1. /\ Rec("PAGE_DATA", version) \in [type : RecordTypes, ver : Nat]
      /\ Rec("CHECKPOINT", 0) \in [type : RecordTypes, ver : Nat]
  BY RecTyped DEF RecordTypes, SaveTypeOK
<1>2. CASE send_domain_memory_live
  <2>1. ChannelTypeOK'
    BY <1>2 DEF send_domain_memory_live, ChannelTypeOK
  <2>2. helper' \in Waits \cup {"exited"} /\ asked' \in BOOLEAN
    BY <1>2 DEF send_domain_memory_live, SaveTypeOK
  <2>. QED BY <1>2, <2>1, <2>2 DEF send_domain_memory_live, SaveTypeOK, DevicesTypeOK
<1>3. CASE suspend_and_send_dirty
  <2>1. ChannelTypeOK'
    BY <1>1, <1>3, WriteTyped DEF suspend_and_send_dirty, WriteFails, ChannelTypeOK
  <2>2. SaveTypeOK'
    BY <1>3 DEF suspend_and_send_dirty, SaveTypeOK, DevicesTypeOK
  <2>. QED BY <2>1, <2>2
<1>4. CASE write_checkpoint_record
  <2>1. ChannelTypeOK'
    BY <1>1, <1>4, WriteTyped DEF write_checkpoint_record, WriteFails, ChannelTypeOK
  <2>2. SaveTypeOK'
    BY <1>4 DEF write_checkpoint_record, SaveTypeOK, DevicesTypeOK
  <2>. QED BY <2>1, <2>2
<1>5. CASE helper_getreply
  <2>1. ChannelTypeOK'
    BY <1>5 DEF helper_getreply, suspend_domain, ChannelTypeOK
  <2>2. replies' \in Seq({0, 1})
    BY <1>5 DEF helper_getreply, suspend_domain, SaveTypeOK
  <2>3. helper' \in Waits \cup {"none", "live", "send", "record", "exited", "reaped"} /\ asked' \in BOOLEAN
    BY <1>5 DEF helper_getreply, suspend_domain, SaveTypeOK
  <2>. QED BY <1>5, <2>1, <2>2, <2>3 DEF helper_getreply, suspend_domain, SaveTypeOK, DevicesTypeOK
<1>. QED BY <1>2, <1>3, <1>4, <1>5 DEF HelperStep

(* The set-up of the devices and the start of the save. *)
LEMMA SetUpTyped ==
  ASSUME SaveTypeOK, ChannelTypeOK,
         \/ libxl__remus_setup
         \/ \E d \in Devices, ok \in BOOLEAN : DeviceSetUp(d, ok)
  PROVE  SaveTypeOK' /\ ChannelTypeOK'
<1>. USE DEF modeVars, guestVars, helperVars, watchVars, devVars, nicVars, chanVars,
             multidev_begin, multidev_one_callback
<1>1. Nics \subseteq Devices /\ Disks \subseteq Devices
  BY DEF Devices
<1>2. CASE libxl__remus_setup
  <2>1. ChannelTypeOK'
    BY <1>2 DEF libxl__remus_setup, ChannelTypeOK
  <2>2. DevicesTypeOK'
    BY <1>1, <1>2 DEF libxl__remus_setup, devices_setup, SaveTypeOK, DevicesTypeOK
  <2>3. libxl' \in {"setup", "done"}
    BY <1>2 DEF libxl__remus_setup
  <2>. QED BY <1>2, <2>1, <2>2, <2>3 DEF libxl__remus_setup, SaveTypeOK
<1>3. ASSUME NEW d \in Devices, NEW ok \in BOOLEAN, DeviceSetUp(d, ok)
      PROVE  SaveTypeOK' /\ ChannelTypeOK'
  <2>1. matched' \subseteq Devices /\ installed' \subseteq Devices
    BY <1>1, <1>3 DEF DeviceSetUp, SetUp, SaveTypeOK, DevicesTypeOK
  <2>2. ChannelTypeOK'
    <3>1. Rec("LIBXC_CONTEXT", 0) \in [type : RecordTypes, ver : Nat]
      BY RecTyped DEF RecordTypes
    <3>. QED BY <1>3, <3>1, WriteTyped DEF DeviceSetUp, libxl__domain_save, WriteFails, ChannelTypeOK
  <2>3. /\ busy' \subseteq Devices /\ failed' \in BOOLEAN
        /\ helper' \in {helper, "live"} /\ completions' \in {completions, completions + 1}
        /\ libxl' \in {libxl, "idle", "teardown", "done"}
    BY <1>3, <2>1 DEF DeviceSetUp, libxl__domain_save, libxl__checkpoint_devices_teardown,
                      SaveTypeOK, DevicesTypeOK
  <2>4. completions' \in Nat
    BY <2>3 DEF SaveTypeOK
  <2>. QED BY <1>3, <2>1, <2>2, <2>3, <2>4 DEF DeviceSetUp, SaveTypeOK, DevicesTypeOK
<1>. QED BY <1>2, <1>3

(* The end of the save, teardown and the end of the session. *)
LEMMA TearDownTyped ==
  ASSUME SaveTypeOK, ChannelTypeOK,
         \/ helper_exited \/ main_remus
         \/ \E d \in Devices, ok \in BOOLEAN : DeviceTornDown(d, ok)
  PROVE  SaveTypeOK' /\ ChannelTypeOK'
<1>. USE DEF modeVars, guestVars, helperVars, watchVars, devVars, nicVars, chanVars,
             multidev_begin, multidev_one_callback
<1>1. CASE helper_exited
  <2>1. completions' \in Nat /\ replies' \in Seq({0, 1})
    BY <1>1 DEF helper_exited, SaveTypeOK
  <2>. QED BY <1>1, <2>1 DEF helper_exited, libxl__checkpoint_devices_teardown, SaveTypeOK,
                             ChannelTypeOK, DevicesTypeOK
<1>2. CASE main_remus
  BY <1>2 DEF main_remus, SaveTypeOK, ChannelTypeOK, DevicesTypeOK
<1>3. ASSUME NEW d \in Devices, NEW ok \in BOOLEAN, DeviceTornDown(d, ok)
      PROVE  SaveTypeOK' /\ ChannelTypeOK'
  <2>1. installed' \subseteq Devices /\ plugged' \subseteq Nics
    BY <1>3 DEF DeviceTornDown, TearDown, SaveTypeOK, DevicesTypeOK
  <2>. QED BY <1>3, <2>1 DEF DeviceTornDown, SaveTypeOK, ChannelTypeOK, DevicesTypeOK
<1>. QED BY <1>1, <1>2, <1>3

(* The answer to the first callback. *)
LEMMA SuspendTyped ==
  ASSUME SaveTypeOK, ChannelTypeOK,
         \/ libxl__remus_domain_suspend_callback
         \/ suspend_common_wait_guest_timeout
         \/ \E bad \in SUBSET (Nics \cap matched), dmOk \in BOOLEAN :
              domain_suspend_common_guest_suspended(dmOk, bad)
  PROVE  SaveTypeOK' /\ ChannelTypeOK'
<1>. USE DEF modeVars, guestVars, helperVars, watchVars, devVars, nicVars, chanVars
<1>1. CASE libxl__remus_domain_suspend_callback
  BY <1>1 DEF libxl__remus_domain_suspend_callback, Requested, SaveTypeOK, ChannelTypeOK, DevicesTypeOK
<1>2. CASE suspend_common_wait_guest_timeout
  <2>1. replies' \in Seq({0, 1})
    BY <1>2, ReplyTyped DEF suspend_common_wait_guest_timeout
  <2>. QED BY <1>2, <2>1 DEF suspend_common_wait_guest_timeout, SaveTypeOK, ChannelTypeOK, DevicesTypeOK
<1>3. ASSUME NEW bad \in SUBSET (Nics \cap matched), NEW dmOk \in BOOLEAN,
             domain_suspend_common_guest_suspended(dmOk, bad)
      PROVE  SaveTypeOK' /\ ChannelTypeOK'
  <2>1. replies' \in Seq({0, 1})
    BY <1>3, ReplyTyped DEF domain_suspend_common_guest_suspended
  <2>2. version \in Nat
    BY DEF SaveTypeOK
  <2>3. plugged' \subseteq Nics /\ closedAt' \in [Nics -> Nat] /\ released' \in [Nics -> Nat]
    BY <1>3, <2>2 DEF domain_suspend_common_guest_suspended, devices_postsuspend, SaveTypeOK,
                      DevicesTypeOK
  <2>4. dmSave' \in 0 .. MaxVersion
    BY <1>3 DEF domain_suspend_common_guest_suspended, SaveTypeOK
  <2>. QED BY <1>3, <2>1, <2>3, <2>4
           DEF domain_suspend_common_guest_suspended, SaveTypeOK, ChannelTypeOK, DevicesTypeOK
<1>. QED BY <1>1, <1>2, <1>3

(* The answer to the second callback. *)
LEMMA ResumeTyped ==
  ASSUME SaveTypeOK, ChannelTypeOK,
         \/ libxl__remus_domain_resume_callback
         \/ \E d \in Devices, ok \in BOOLEAN : DevicePreresumed(d, ok)
  PROVE  SaveTypeOK' /\ ChannelTypeOK'
<1>. USE DEF modeVars, guestVars, helperVars, watchVars, devVars, nicVars, chanVars,
             multidev_begin, multidev_one_callback
<1>1. CASE libxl__remus_domain_resume_callback
  <2>1. replies' \in Seq({0, 1})
    <3>1. CASE \E ok \in BOOLEAN : libxl__domain_resume(ok)
      BY <3>1, ReplyTyped DEF libxl__domain_resume
    <3>2. CASE UNCHANGED replies
      BY <3>2 DEF SaveTypeOK
    <3>. QED BY <1>1, <3>1, <3>2 DEF libxl__remus_domain_resume_callback
  <2>2. busy' \subseteq Devices
    BY <1>1 DEF libxl__remus_domain_resume_callback, PreresumeDevices, Devices, SaveTypeOK, DevicesTypeOK
  <2>. QED BY <1>1, <2>1, <2>2 DEF libxl__remus_domain_resume_callback, libxl__domain_resume, Requested,
                             SaveTypeOK, ChannelTypeOK, DevicesTypeOK
<1>2. ASSUME NEW d \in Devices, NEW ok \in BOOLEAN, DevicePreresumed(d, ok)
      PROVE  SaveTypeOK' /\ ChannelTypeOK'
  <2>1. replies' \in Seq({0, 1})
    <3>1. CASE \E resumed \in BOOLEAN : libxl__domain_resume(resumed)
      BY <3>1, ReplyTyped DEF libxl__domain_resume
    <3>2. CASE UNCHANGED replies
      BY <3>2 DEF SaveTypeOK
    <3>3. CASE sendreply(0)
      BY <3>3, ReplyTyped
    <3>. QED BY <1>2, <3>1, <3>2, <3>3 DEF DevicePreresumed
  <2>. QED BY <1>2, <2>1 DEF DevicePreresumed, libxl__domain_resume, SaveTypeOK, ChannelTypeOK, DevicesTypeOK
<1>. QED BY <1>1, <1>2

(* The answer to the third callback. *)
LEMMA CheckpointTyped ==
  ASSUME SaveTypeOK, ChannelTypeOK,
         \/ libxl__remus_domain_save_checkpoint_callback
         \/ write_emulator_context_record
         \/ \E bad \in SUBSET (Nics \cap matched) : remus_checkpoint_stream_written(bad)
         \/ (\E ok \in BOOLEAN : remus_next_checkpoint(ok)) \/ cpsremus_next_checkpoint
  PROVE  SaveTypeOK' /\ ChannelTypeOK'
<1>. USE DEF modeVars, guestVars, helperVars, watchVars, devVars, nicVars, chanVars, multidev_begin
<1>0. /\ Rec("EMULATOR_CONTEXT", dmSave) \in [type : RecordTypes, ver : Nat]
      /\ Rec("CHECKPOINT_END", 0) \in [type : RecordTypes, ver : Nat]
  BY RecTyped DEF RecordTypes, SaveTypeOK
<1>1. CASE libxl__remus_domain_save_checkpoint_callback
  BY <1>1 DEF libxl__remus_domain_save_checkpoint_callback, Requested, SaveTypeOK, ChannelTypeOK,
              DevicesTypeOK
<1>2. CASE write_emulator_context_record
  <2>1. ChannelTypeOK'
    BY <1>0, <1>2, WriteTyped DEF write_emulator_context_record, WriteFails, ChannelTypeOK
  <2>2. replies' \in Seq({0, 1})
    BY <1>2, ReplyTyped DEF write_emulator_context_record, SaveTypeOK
  <2>. QED BY <1>2, <2>1, <2>2 DEF write_emulator_context_record, SaveTypeOK, DevicesTypeOK
<1>3. ASSUME NEW bad \in SUBSET (Nics \cap matched), remus_checkpoint_stream_written(bad)
      PROVE  SaveTypeOK' /\ ChannelTypeOK'
  <2>1. ChannelTypeOK'
    BY <1>0, <1>3, WriteTyped DEF remus_checkpoint_stream_written, WriteFails, ChannelTypeOK
  <2>2. replies' \in Seq({0, 1})
    <3>1. UNCHANGED replies \/ sendreply(0)
      BY <1>3 DEF remus_checkpoint_stream_written, AwaitNext, AwaitEvent, AwaitTimer
    <3>. QED BY <3>1, ReplyTyped DEF SaveTypeOK
  <2>3. plugged' \subseteq Nics /\ closedAt' \in [Nics -> Nat] /\ released' \in [Nics -> Nat]
    BY <1>3 DEF remus_checkpoint_stream_written, devices_commit, SaveTypeOK, DevicesTypeOK
  <2>4. watch' \in BOOLEAN /\ events' \in 0 .. MaxEvents /\ libxl' \in {"timer", "watch", "idle"}
    <3>1. 1 \in 0 .. MaxEvents
      BY SaveAssumption DEF SaveAssumption
    <3>2. \/ AwaitNext
          \/ libxl' = "idle" /\ UNCHANGED watchVars
      BY <1>3 DEF remus_checkpoint_stream_written
    <3>. QED BY <3>1, <3>2 DEF AwaitNext, AwaitEvent, AwaitTimer, SaveTypeOK
  <2>. QED BY <1>3, <2>1, <2>2, <2>3, <2>4 DEF remus_checkpoint_stream_written, SaveTypeOK, DevicesTypeOK
<1>4. CASE \E ok \in BOOLEAN : remus_next_checkpoint(ok)
  <2>1. replies' \in Seq({0, 1})
    BY <1>4, ReplyTyped DEF remus_next_checkpoint
  <2>. QED BY <1>4, <2>1 DEF remus_next_checkpoint, SaveTypeOK, ChannelTypeOK, DevicesTypeOK
<1>5. CASE cpsremus_next_checkpoint
  <2>1. replies' \in Seq({0, 1})
    BY <1>5, ReplyTyped DEF cpsremus_next_checkpoint, SaveTypeOK
  <2>2. events' \in 0 .. MaxEvents /\ completions' \in Nat
    BY <1>5, SaveAssumption DEF cpsremus_next_checkpoint, SaveTypeOK, SaveAssumption
  <2>3. /\ busy' \subseteq Devices /\ failed' \in BOOLEAN
        /\ libxl' \in {libxl, "idle", "done", "teardown"}
    BY <1>5 DEF cpsremus_next_checkpoint, libxl__checkpoint_devices_teardown, SaveTypeOK, DevicesTypeOK
  <2>. QED BY <1>5, <2>1, <2>2, <2>3 DEF cpsremus_next_checkpoint, SaveTypeOK, ChannelTypeOK, DevicesTypeOK
<1>. QED BY <1>1, <1>2, <1>3, <1>4, <1>5

(* A step of the guest. *)
LEMMA GuestTyped ==
  ASSUME SaveTypeOK, ChannelTypeOK, GuestStep
  PROVE  SaveTypeOK' /\ ChannelTypeOK'
<1>. USE DEF guestFrame, modeVars, guestVars, helperVars, watchVars, devVars, nicVars, chanVars
<1>1. CASE GuestRuns
  <2>1. version' \in 1 .. MaxVersion
    BY <1>1, SaveAssumption DEF GuestRuns, SaveTypeOK, SaveAssumption
  <2>2. released' \in [Nics -> Nat]
    BY <1>1, <2>1 DEF GuestRuns, GuestSends, SaveTypeOK, DevicesTypeOK
  <2>. QED BY <1>1, <2>1, <2>2 DEF GuestRuns, GuestSends, SaveTypeOK, ChannelTypeOK, DevicesTypeOK
<1>2. CASE GuestSuspends
  BY <1>2 DEF GuestSuspends, SaveTypeOK, ChannelTypeOK, DevicesTypeOK
<1>3. CASE GuestWrites
  BY <1>3, SaveAssumption DEF GuestWrites, SaveTypeOK, ChannelTypeOK, DevicesTypeOK, SaveAssumption
<1>. QED BY <1>1, <1>2, <1>3 DEF GuestStep

(* A record that is read has its shape, and so has the rest of the stream. *)
LEMMA ReadTyped ==
  ASSUME ChannelTypeOK, NEW t, Reads(t)
  PROVE  ChannelTypeOK' /\ Head(stream).ver \in Nat
<1>. DEFINE R == [type : RecordTypes, ver : Nat]
<1>1. stream \in Seq(R) /\ stream # << >> /\ stream' = Tail(stream)
  BY DEF Reads, ChannelTypeOK
<1>. HIDE DEF R
<1>2. /\ Head(stream) \in R /\ stream' \in Seq(R)
      /\ Len(stream') = Len(stream) - 1 /\ Len(stream) \in Nat
  BY <1>1, HeadTailProperties
<1>3. Len(stream') <= MaxStream
  BY <1>2, ChannelAssumption DEF ChannelTypeOK, ChannelAssumption
<1>. QED BY <1>2, <1>3 DEF Reads, ChannelTypeOK, R

(* The end of the restore. *)
LEMMA EndsTyped ==
  ASSUME RestoreTypeOK, NEW outcome \in {"running", "failed", "error", "aborted"}, Ends(outcome)
  PROVE  RestoreTypeOK'
<1>1. CASE outcome \in {"failed", "error"}
  <2>1. buffering' = FALSE /\ mem' = 0 /\ dm' = 0
    BY <1>1 DEF Ends
  <2>2. /\ backup' = outcome /\ inCheckpoint' = FALSE /\ buffered' = 0 /\ queued' = 0
    BY DEF Ends
  <2>. QED BY <1>1, <2>1, <2>2 DEF RestoreTypeOK
<1>2. CASE outcome \in {"running", "aborted"}
  <2>1. UNCHANGED <<buffering, mem, dm>>
    BY <1>2 DEF Ends
  <2>. QED BY <1>2, <2>1 DEF Ends, RestoreTypeOK
<1>. QED BY <1>1, <1>2

(* A step of the backup host. *)
LEMMA RestoreTyped ==
  ASSUME RestoreTypeOK, ChannelTypeOK, RestoreStep \/ libxc_context \/ BackupError
  PROVE  RestoreTypeOK' /\ ChannelTypeOK'
<1>. USE DEF chanVars
<1>1. CASE handle_page_data
  BY <1>1, ReadTyped DEF handle_page_data, RestoreTypeOK
<1>2. CASE libxl__stream_read_start_checkpoint
  BY <1>2, ReadTyped DEF libxl__stream_read_start_checkpoint, RestoreTypeOK
<1>3. CASE queue_emulator_context
  BY <1>3, ReadTyped DEF queue_emulator_context, RestoreTypeOK
<1>4. CASE handle_checkpoint
  BY <1>4, ReadTyped DEF handle_checkpoint, RestoreTypeOK
<1>5. CASE libxc_context
  BY <1>5, ReadTyped DEF libxc_context, RestoreTypeOK
<1>6. CASE BrokenChannel
  BY <1>6, EndsTyped DEF BrokenChannel, ChannelTypeOK
<1>7. ASSUME NEW eof \in BOOLEAN, NEW half \in BOOLEAN, BrokenInCheckpoint(eof, half)
      PROVE  RestoreTypeOK' /\ ChannelTypeOK'
  <2>1. ChannelTypeOK'
    BY <1>7 DEF BrokenInCheckpoint, ChannelTypeOK
  <2>2. CASE eof
    BY <1>7, <2>1, <2>2 DEF BrokenInCheckpoint, RestoreTypeOK
  <2>3. CASE ~eof
    <3>1. \/ Ends("failed") \/ Ends("running") \/ Ends("aborted")
      BY <1>7, <2>3 DEF BrokenInCheckpoint, RestoreTypeOK
    <3>. QED BY <2>1, <3>1, EndsTyped
  <2>. QED BY <2>2, <2>3
<1>8. CASE BackupError
  <2>1. ChannelTypeOK'
    <3>1. \A R : << >> \in Seq(R)
      OBVIOUS
    <3>2. stream' = << >> /\ Len(stream') <= MaxStream
      BY <1>8, ChannelAssumption DEF BackupError, ChannelAssumption
    <3>. QED BY <1>8, <3>1, <3>2 DEF BackupError, ChannelTypeOK
  <2>. QED BY <1>8, <2>1, EndsTyped DEF BackupError
<1>. QED BY <1>1, <1>2, <1>3, <1>4, <1>5, <1>6, <1>7, <1>8 DEF RestoreStep

(* Every step of the two hosts, the guest and the heartbeat keeps the       *)
(* variables typed.                                                         *)
LEMMA TypeStep ==
  ASSUME RemusTypeOK, [Next]_vars
  PROVE  RemusTypeOK'
<1>. USE DEF RemusTypeOK
<1>1. CASE Helper
  BY <1>1, HelperTyped DEF Helper, restoreVars, failVars, RestoreTypeOK
<1>2. CASE Libxl
  <2>1. SaveTypeOK' /\ ChannelTypeOK'
    BY <1>2, SetUpTyped, TearDownTyped, SuspendTyped, ResumeTyped, CheckpointTyped
       DEF Libxl, LibxlStep
  <2>. QED BY <1>2, <2>1 DEF Libxl, restoreVars, failVars, RestoreTypeOK
<1>3. CASE Guest
  BY <1>3, GuestTyped DEF Guest, restoreVars, failVars, RestoreTypeOK
<1>4. ASSUME UNCHANGED saveVars
      PROVE  SaveTypeOK'
  BY <1>4 DEF saveVars, modeVars, guestVars, helperVars, watchVars, devVars, nicVars, SaveTypeOK,
              DevicesTypeOK
<1>5. CASE Backup
  BY <1>4, <1>5, RestoreTyped DEF Backup, failVars
<1>6. CASE run_helper
  BY <1>4, <1>6, RestoreTyped DEF run_helper
<1>7. CASE Receiver
  BY <1>4, <1>7, LoseTyped
     DEF Receiver, OpenFifo, ReceiverFires, restoreVars, chanVars, RestoreTypeOK, ChannelTypeOK
<1>8. CASE PrimaryCrashes
  <2>1. ChannelTypeOK'
    BY <1>8, LoseTyped DEF PrimaryCrashes, ChannelTypeOK
  <2>. QED BY <1>4, <1>8, <2>1 DEF PrimaryCrashes, restoreVars, RestoreTypeOK
<1>9. CASE CutLink
  <2>1. ChannelTypeOK'
    BY <1>9, LoseTyped DEF CutLink
  <2>. QED BY <1>4, <1>9, <2>1 DEF CutLink, failVars, restoreVars, RestoreTypeOK
<1>10. CASE BackupFaults
  BY <1>4, <1>10, RestoreTyped DEF BackupFaults, failVars
<1>11. CASE UNCHANGED vars
  BY <1>4, <1>11 DEF vars, chanVars, restoreVars, failVars, ChannelTypeOK, RestoreTypeOK
<1>. QED BY <1>1, <1>2, <1>3, <1>5, <1>6, <1>7, <1>8, <1>9, <1>10, <1>11 DEF Next

(* Every variable of CPS-Remus has its type, for every set of devices and   *)
(* every bound, whatever fails: no more records are under way than the      *)
(* pipes hold, the answers are 0 or 1, and only network interfaces are      *)
(* plugged (libxl_remus.c, libxl_netbuffer.c).                              *)
THEOREM RemusTypeCorrect == Spec => []RemusTypeOK
<1>1. Init => RemusTypeOK
  BY TypeInit
<1>2. RemusTypeOK /\ [Next]_vars => RemusTypeOK'
  BY TypeStep
<1>. QED BY <1>1, <1>2, PTL DEF Spec

-----------------------------------------------------------------------------
(* Turns. *)

(* An answer sent to a helper that waits with an empty pipe is the only one *)
(* in it.                                                                   *)
LEMMA ReplyEffect ==
  ASSUME SaveTypeOK, NEW r \in {0, 1}, sendreply(r), replies = << >>, helper # "exited"
  PROVE  Len(replies') = 1 /\ replies' # << >> /\ Head(replies') = r
<1>1. replies' = Append(<< >>, r)
  BY DEF sendreply
<1>. QED BY <1>1

(* The helper takes the only answer out of the pipe. *)
LEMMA TakeReply ==
  ASSUME SaveTypeOK, replies # << >>, Len(replies) <= 1
  PROVE  Tail(replies) = << >> /\ Head(replies) \in {0, 1}
<1>. DEFINE S == {0, 1}
<1>1. replies \in Seq(S)
  BY DEF SaveTypeOK
<1>. HIDE DEF S
<1>2. /\ Tail(replies) \in Seq(S) /\ Len(Tail(replies)) = Len(replies) - 1 /\ Len(replies) \in Nat
      /\ Head(replies) \in S
  BY <1>1, HeadTailProperties
<1>3. Len(replies) # 0
  BY <1>1, EmptySeq
<1>. QED BY <1>1, <1>2, <1>3, EmptySeq DEF S

LEMMA TurnsInit == Init => TurnsInv
<1>. SUFFICES ASSUME Init PROVE TurnsInv
  OBVIOUS
<1>1. replies = << >> /\ Len(replies) = 0
  BY DEF Init, SaveInit
<1>. QED BY <1>1 DEF Init, SaveInit, TurnsInv, AnswersMatch, Waits

LEMMA HelperTurns ==
  ASSUME SaveTypeOK, TurnsInv, HelperStep
  PROVE  TurnsInv'
<1>. USE DEF helperFrame, modeVars, guestVars, watchVars, devVars, nicVars, chanVars, Ask, Becomes,
             Waits, TurnsInv, AnswersMatch
<1>1. CASE send_domain_memory_live
  BY <1>1 DEF send_domain_memory_live
<1>2. CASE suspend_and_send_dirty
  BY <1>2 DEF suspend_and_send_dirty
<1>3. CASE write_checkpoint_record
  BY <1>3 DEF write_checkpoint_record
<1>4. CASE helper_getreply
  <2>1. helper \in Waits /\ replies # << >> /\ ~asked /\ libxl = "idle"
    BY <1>4 DEF helper_getreply, suspend_domain
  <2>2. replies' = << >> /\ Len(replies') = 0
    BY <1>4, <2>1, TakeReply DEF helper_getreply, suspend_domain
  <2>3. \/ helper' = "exited" /\ UNCHANGED asked
        \/ helper' = "send" /\ UNCHANGED asked
        \/ helper' \in {"checkpoint", "suspend"} /\ asked'
    BY <1>4 DEF helper_getreply, suspend_domain
  <2>. QED BY <1>4, <2>1, <2>2, <2>3 DEF helper_getreply, suspend_domain
<1>. QED BY <1>1, <1>2, <1>3, <1>4 DEF HelperStep

LEMMA LibxlTurns ==
  ASSUME SaveTypeOK, TurnsInv, LibxlStep
  PROVE  TurnsInv'
<1>. USE DEF modeVars, guestVars, helperVars, watchVars, devVars, nicVars, Waits
<1>1. CASE libxl__remus_setup
  BY <1>1 DEF libxl__remus_setup, TurnsInv, AnswersMatch, SaveTypeOK
<1>2. CASE helper_exited
  <2>1. replies' = << >> /\ Len(replies') = 0
    BY <1>2 DEF helper_exited
  <2>. QED BY <1>2, <2>1 DEF helper_exited, libxl__checkpoint_devices_teardown, TurnsInv, AnswersMatch,
                             SaveTypeOK
<1>3. CASE main_remus
  BY <1>3 DEF main_remus, TurnsInv, AnswersMatch, SaveTypeOK
<1>4. ASSUME NEW d \in Devices, NEW ok \in BOOLEAN, DeviceSetUp(d, ok)
      PROVE  TurnsInv'
  <2>1. \/ helper' = helper /\ libxl' \in {"setup", "teardown", "done"}
        \/ helper' = "live" /\ libxl' = "idle"
    BY <1>4 DEF DeviceSetUp, libxl__domain_save, libxl__checkpoint_devices_teardown
  <2>2. libxl = "setup" /\ UNCHANGED <<asked, replies, watch, events>>
    BY <1>4 DEF DeviceSetUp
  <2>. QED BY <2>1, <2>2 DEF TurnsInv, AnswersMatch, SaveTypeOK
<1>5. ASSUME NEW d \in Devices, NEW ok \in BOOLEAN, DeviceTornDown(d, ok)
      PROVE  TurnsInv'
  BY <1>5 DEF DeviceTornDown, TurnsInv, AnswersMatch, SaveTypeOK
<1>6. CASE libxl__remus_domain_suspend_callback
  BY <1>6 DEF libxl__remus_domain_suspend_callback, Requested, TurnsInv, AnswersMatch, SaveTypeOK
<1>7. CASE libxl__remus_domain_save_checkpoint_callback
  BY <1>7 DEF libxl__remus_domain_save_checkpoint_callback, Requested, TurnsInv, AnswersMatch, SaveTypeOK
\* libxl has served the request the helper waits on and answers it.
<1>8. ASSUME NEW r \in {0, 1}, sendreply(r), libxl' = "idle", UNCHANGED <<helper, events>>, ~asked',
             \/ libxl \in {"suspend", "preresume", "stream", "end", "timer", "watch"}
             \/ asked,
             events = 0
      PROVE  TurnsInv'
  <2>1. replies = << >> /\ helper \in Waits
    BY <1>8 DEF TurnsInv, AnswersMatch
  <2>2. Len(replies') = 1
    BY <1>8, <2>1, ReplyEffect
  <2>. QED BY <1>8, <2>1, <2>2 DEF TurnsInv, AnswersMatch, SaveTypeOK
<1>9. CASE suspend_common_wait_guest_timeout
  BY <1>8, <1>9 DEF suspend_common_wait_guest_timeout, TurnsInv, AnswersMatch, SaveTypeOK
<1>10. ASSUME NEW bad \in SUBSET (Nics \cap matched), NEW dmOk \in BOOLEAN,
              domain_suspend_common_guest_suspended(dmOk, bad)
       PROVE  TurnsInv'
  <2>1. \E r \in {0, 1} : sendreply(r)
    BY <1>10 DEF domain_suspend_common_guest_suspended
  <2>2. libxl = "suspend" /\ libxl' = "idle" /\ UNCHANGED <<helper, asked, watch, events>>
    BY <1>10 DEF domain_suspend_common_guest_suspended
  <2>. QED BY <1>8, <2>1, <2>2 DEF TurnsInv, AnswersMatch, SaveTypeOK
<1>11. CASE libxl__remus_domain_resume_callback
  <2>1. helper = "postcopy" /\ asked /\ ~asked' /\ UNCHANGED <<helper, watch, events>>
    BY <1>11 DEF libxl__remus_domain_resume_callback, Requested
  <2>2. libxl = "idle" /\ replies = << >> /\ events = 0
    BY <2>1 DEF TurnsInv, AnswersMatch, SaveTypeOK
  <2>3. CASE \E ok \in BOOLEAN : libxl__domain_resume(ok)
    <3>1. libxl' = "idle" /\ \E r \in {0, 1} : sendreply(r)
      BY <2>3 DEF libxl__domain_resume
    <3>. QED BY <1>8, <2>1, <2>2, <3>1
  <2>4. CASE libxl' = "preresume" /\ UNCHANGED replies
    BY <2>1, <2>2, <2>4 DEF TurnsInv, AnswersMatch, SaveTypeOK
  <2>. QED BY <1>11, <2>3, <2>4 DEF libxl__remus_domain_resume_callback
<1>12. ASSUME NEW d \in Devices, NEW ok \in BOOLEAN, DevicePreresumed(d, ok)
       PROVE  TurnsInv'
  <2>1. libxl = "preresume" /\ UNCHANGED <<helper, asked, watch, events>>
    BY <1>12 DEF DevicePreresumed
  <2>2. helper = "postcopy" /\ ~asked /\ events = 0
    BY <2>1 DEF TurnsInv, AnswersMatch, SaveTypeOK
  <2>3. \/ UNCHANGED <<replies, libxl>>
        \/ libxl' = "idle" /\ \E r \in {0, 1} : sendreply(r)
    BY <1>12 DEF DevicePreresumed, libxl__domain_resume
  <2>4. CASE UNCHANGED <<replies, libxl>>
    BY <2>1, <2>4 DEF TurnsInv, AnswersMatch
  <2>. QED BY <1>8, <2>1, <2>2, <2>3, <2>4
<1>13. CASE write_emulator_context_record
  <2>1. libxl = "stream" /\ UNCHANGED <<helper, asked, watch, events>>
    BY <1>13 DEF write_emulator_context_record
  <2>2. helper = "checkpoint" /\ ~asked /\ events = 0
    BY <2>1 DEF TurnsInv, AnswersMatch, SaveTypeOK
  <2>3. CASE libxl' = "end" /\ UNCHANGED replies
    BY <2>1, <2>2, <2>3 DEF TurnsInv, AnswersMatch, SaveTypeOK
  <2>4. CASE libxl' = "idle" /\ sendreply(0)
    BY <1>8, <2>1, <2>2, <2>4
  <2>. QED BY <1>13, <2>3, <2>4 DEF write_emulator_context_record
<1>14. ASSUME NEW bad \in SUBSET (Nics \cap matched), remus_checkpoint_stream_written(bad)
       PROVE  TurnsInv'
  <2>1. libxl = "end" /\ UNCHANGED <<helper, asked>>
    BY <1>14 DEF remus_checkpoint_stream_written
  <2>2. helper = "checkpoint" /\ ~asked /\ events = 0
    BY <2>1 DEF TurnsInv, AnswersMatch, SaveTypeOK
  <2>3. CASE AwaitNext
    <3>1. \/ libxl' = "watch" /\ events' \in {0, 1} /\ UNCHANGED replies
          \/ libxl' = "timer" /\ events' = 0 /\ UNCHANGED replies
          \/ libxl' = "idle" /\ sendreply(0) /\ UNCHANGED watchVars
      BY <2>2, <2>3 DEF AwaitNext, AwaitEvent, AwaitTimer
    <3>2. CASE libxl' = "idle" /\ sendreply(0) /\ UNCHANGED watchVars
      BY <1>8, <2>1, <2>2, <3>2
    <3>3. CASE libxl' \in {"watch", "timer"}
      BY <2>1, <2>2, <3>1, <3>3 DEF TurnsInv, AnswersMatch
    <3>. QED BY <3>1, <3>2, <3>3
  <2>4. CASE libxl' = "idle" /\ sendreply(0) /\ UNCHANGED watchVars
    BY <1>8, <2>1, <2>2, <2>4
  <2>. QED BY <1>14, <2>3, <2>4 DEF remus_checkpoint_stream_written
<1>15. CASE \E ok \in BOOLEAN : remus_next_checkpoint(ok)
  BY <1>8, <1>15 DEF remus_next_checkpoint, TurnsInv, AnswersMatch, SaveTypeOK
<1>16. CASE cpsremus_next_checkpoint
  <2>1. libxl = "watch" /\ helper = "checkpoint" /\ ~asked /\ events = 1 /\ replies = << >>
    BY <1>16 DEF cpsremus_next_checkpoint, TurnsInv, AnswersMatch, SaveTypeOK
  <2>2. sendreply(1) /\ libxl' = "idle" /\ UNCHANGED <<helper, asked>> /\ events' = 0
    BY <1>16, <2>1 DEF cpsremus_next_checkpoint
  <2>3. Len(replies') = 1
    BY <2>1, <2>2, ReplyEffect
  <2>. QED BY <2>1, <2>2, <2>3 DEF TurnsInv, AnswersMatch
<1>. QED BY <1>1, <1>2, <1>3, <1>4, <1>5, <1>6, <1>7, <1>9, <1>10, <1>11, <1>12, <1>13, <1>14, <1>15,
            <1>16 DEF LibxlStep

LEMMA GuestTurns ==
  ASSUME PatientGuest, SaveTypeOK, TurnsInv, GuestStep
  PROVE  TurnsInv'
<1>. USE DEF guestFrame, modeVars, guestVars, helperVars, watchVars, devVars, nicVars, chanVars,
             TurnsInv, AnswersMatch, SaveTypeOK
<1>1. CASE GuestRuns
  BY <1>1 DEF GuestRuns
<1>2. CASE GuestSuspends
  BY <1>2 DEF GuestSuspends
<1>3. CASE GuestWrites
  BY <1>3 DEF GuestWrites
<1>. QED BY <1>1, <1>2, <1>3 DEF GuestStep

(* Every step leaves one of the two with the turn. *)
LEMMA TurnsStep ==
  ASSUME PatientGuest, RemusTypeOK, TurnsInv, [Next]_vars
  PROVE  TurnsInv'
<1>1. CASE Helper
  BY <1>1, HelperTurns DEF Helper, RemusTypeOK
<1>2. CASE Libxl
  BY <1>2, LibxlTurns DEF Libxl, RemusTypeOK
<1>3. CASE Guest
  BY <1>3, GuestTurns DEF Guest, RemusTypeOK
<1>4. CASE UNCHANGED saveVars
  BY <1>4 DEF saveVars, helperVars, watchVars, TurnsInv, AnswersMatch
<1>. QED BY <1>1, <1>2, <1>3, <1>4 DEF Next, vars, Backup, run_helper, Receiver, OpenFifo,
            ReceiverFires, PrimaryCrashes, CutLink, BackupFaults

-----------------------------------------------------------------------------
(* The session. *)

LEMMA SessionInit == Init => SessionInv
BY DEF Init, SaveInit, DevicesInit, SessionInv

(* A step that leaves the devices and the phase of the session alone. *)
LEMMA SessionFrame ==
  ASSUME SessionInv, UNCHANGED <<matched, installed, completions>>,
         libxl \notin {"new", "setup", "teardown", "done", "ended"},
         libxl' \notin {"new", "setup", "teardown", "done", "ended"}
  PROVE  SessionInv'
BY DEF SessionInv

LEMMA LibxlSession ==
  ASSUME SaveTypeOK, TurnsInv, SessionInv, LibxlStep
  PROVE  SessionInv'
<1>. USE DEF modeVars, guestVars, helperVars, watchVars, devVars, nicVars, multidev_begin,
             multidev_one_callback
<1>1. CASE libxl__remus_setup
  BY <1>1 DEF libxl__remus_setup, devices_setup, SessionInv, SaveTypeOK, DevicesTypeOK
<1>2. ASSUME NEW ds, libxl__checkpoint_devices_teardown(ds), installed' \subseteq ds, matched' = ds,
             completions' \in {0, 1}
      PROVE  SessionInv'
  BY <1>2 DEF libxl__checkpoint_devices_teardown, SessionInv
<1>3. CASE helper_exited
  <2>1. completions = 0
    BY <1>3 DEF helper_exited, TurnsInv, SessionInv, SaveTypeOK
  <2>. QED BY <1>2, <1>3, <2>1 DEF helper_exited, SessionInv
<1>4. CASE main_remus
  BY <1>4 DEF main_remus, SessionInv
<1>5. ASSUME NEW d \in Devices, NEW ok \in BOOLEAN, DeviceSetUp(d, ok)
      PROVE  SessionInv'
  <2>1. libxl = "setup" /\ completions = 0 /\ installed \subseteq matched /\ Nics \subseteq matched
    BY <1>5 DEF DeviceSetUp, SessionInv, SaveTypeOK
  <2>2. installed' \subseteq matched' /\ Nics \subseteq matched'
    BY <1>5, <2>1 DEF DeviceSetUp, SetUp
  <2>3. CASE libxl' = libxl /\ UNCHANGED completions
    BY <2>1, <2>2, <2>3 DEF SessionInv
  <2>4. CASE libxl' = "idle" /\ UNCHANGED completions
    BY <2>1, <2>2, <2>4 DEF SessionInv
  <2>5. CASE /\ libxl__checkpoint_devices_teardown(matched')
             /\ completions' \in {completions, completions + 1}
    BY <1>2, <2>1, <2>2, <2>5
  <2>. QED BY <1>5, <2>3, <2>4, <2>5 DEF DeviceSetUp, libxl__domain_save
<1>6. ASSUME NEW d \in Devices, NEW ok \in BOOLEAN, DeviceTornDown(d, ok)
      PROVE  SessionInv'
  <2>1. libxl = "teardown" /\ UNCHANGED <<matched, completions>>
    BY <1>6 DEF DeviceTornDown
  <2>2. installed' \subseteq matched
    BY <1>6 DEF DeviceTornDown, TearDown, SessionInv
  <2>3. ~failed' => installed' \subseteq busy \ {d}
    BY <1>6, <2>1 DEF DeviceTornDown, TearDown, SessionInv
  <2>4. CASE busy = {d}
    <3>1. libxl' = "done" /\ (~failed' => installed' = {})
      BY <1>6, <2>3, <2>4 DEF DeviceTornDown
    <3>. QED BY <2>1, <2>2, <3>1 DEF SessionInv
  <2>5. CASE busy # {d}
    <3>1. libxl' = "teardown" /\ busy' = busy \ {d}
      BY <1>6, <2>1, <2>5 DEF DeviceTornDown
    <3>. QED BY <2>1, <2>2, <2>3, <3>1 DEF SessionInv
  <2>. QED BY <2>4, <2>5
<1>7. CASE libxl__remus_domain_suspend_callback
  BY <1>7, SessionFrame DEF libxl__remus_domain_suspend_callback, Requested, TurnsInv, AnswersMatch
<1>8. CASE libxl__remus_domain_save_checkpoint_callback
  BY <1>8, SessionFrame DEF libxl__remus_domain_save_checkpoint_callback, Requested, TurnsInv, AnswersMatch
<1>9. CASE suspend_common_wait_guest_timeout
  BY <1>9, SessionFrame DEF suspend_common_wait_guest_timeout
<1>10. ASSUME NEW bad \in SUBSET (Nics \cap matched), NEW dmOk \in BOOLEAN,
              domain_suspend_common_guest_suspended(dmOk, bad)
       PROVE  SessionInv'
  BY <1>10, SessionFrame DEF domain_suspend_common_guest_suspended
<1>11. CASE libxl__remus_domain_resume_callback
  <2>1. libxl = "idle" /\ libxl' \in {"idle", "preresume"}
    BY <1>11 DEF libxl__remus_domain_resume_callback, libxl__domain_resume, Requested, TurnsInv, AnswersMatch
  <2>. QED BY <1>11, <2>1, SessionFrame DEF libxl__remus_domain_resume_callback
<1>12. ASSUME NEW d \in Devices, NEW ok \in BOOLEAN, DevicePreresumed(d, ok)
       PROVE  SessionInv'
  <2>1. libxl = "preresume" /\ libxl' \in {"idle", "preresume"}
    BY <1>12 DEF DevicePreresumed, libxl__domain_resume
  <2>. QED BY <1>12, <2>1, SessionFrame DEF DevicePreresumed
<1>13. CASE write_emulator_context_record
  BY <1>13, SessionFrame DEF write_emulator_context_record
<1>14. ASSUME NEW bad \in SUBSET (Nics \cap matched), remus_checkpoint_stream_written(bad)
       PROVE  SessionInv'
  <2>1. libxl = "end" /\ libxl' \in {"idle", "watch", "timer"}
    BY <1>14 DEF remus_checkpoint_stream_written, AwaitNext, AwaitEvent, AwaitTimer
  <2>. QED BY <1>14, <2>1, SessionFrame DEF remus_checkpoint_stream_written
<1>15. CASE \E ok \in BOOLEAN : remus_next_checkpoint(ok)
  BY <1>15, SessionFrame DEF remus_next_checkpoint
<1>16. CASE cpsremus_next_checkpoint
  <2>1. libxl = "watch" /\ helper = "checkpoint"
    BY <1>16 DEF cpsremus_next_checkpoint, TurnsInv, AnswersMatch
  <2>. QED BY <1>16, <2>1, SessionFrame DEF cpsremus_next_checkpoint
<1>. QED BY <1>1, <1>3, <1>4, <1>5, <1>6, <1>7, <1>8, <1>9, <1>10, <1>11, <1>12, <1>13, <1>14, <1>15,
            <1>16 DEF LibxlStep

LEMMA SessionStep ==
  ASSUME RemusTypeOK, TurnsInv, SessionInv, [Next]_vars
  PROVE  SessionInv'
<1>1. CASE Helper
  BY <1>1 DEF Helper, HelperStep, send_domain_memory_live, suspend_and_send_dirty,
              write_checkpoint_record, helper_getreply, suspend_domain, helperFrame, devVars, SessionInv
<1>2. CASE Libxl
  BY <1>2, LibxlSession DEF Libxl, RemusTypeOK
<1>3. CASE Guest
  BY <1>3 DEF Guest, GuestStep, GuestRuns, GuestSends, GuestSuspends, GuestWrites, guestFrame, devVars,
              SessionInv
<1>4. CASE UNCHANGED saveVars
  BY <1>4 DEF saveVars, devVars, SessionInv
<1>. QED BY <1>1, <1>2, <1>3, <1>4 DEF Next, vars, Backup, run_helper, Receiver, OpenFifo,
            ReceiverFires, PrimaryCrashes, CutLink, BackupFaults

-----------------------------------------------------------------------------
(* The turns and the session hold together, for a patient guest.           *)
THEOREM TurnsCorrect ==
  ASSUME PatientGuest
  PROVE  Spec => [](TurnsInv /\ SessionInv)
<1>1. Init => TurnsInv /\ SessionInv
  BY TurnsInit, SessionInit
<1>2. RemusTypeOK /\ TurnsInv /\ SessionInv /\ [Next]_vars => (TurnsInv /\ SessionInv)'
  BY TurnsStep, SessionStep
<1>. QED BY <1>1, <1>2, RemusTypeCorrect, PTL DEF Spec

(* No answer is ever taken for that of another request: an answer is in the *)
(* pipe only when the helper's request has been read and dealt with, there  *)
(* is never a second one, and libxl works for the request the helper waits  *)
(* on, for every set of devices and whatever fails, if the guest writes its *)
(* node only when a checkpoint is awaited (libxl_save_callout.c).           *)
THEOREM AnswersMatchCorrect ==
  ASSUME PatientGuest
  PROVE  Spec => []AnswersMatch
<1>1. TurnsInv => AnswersMatch
  BY DEF TurnsInv
<1>. QED BY <1>1, TurnsCorrect, PTL

(* Whatever fails, and when, a session whose teardown reports no error      *)
(* leaves no buffer in place and is reported complete at most once          *)
(* (libxl_checkpoint_device.c, libxl_remus.c).                              *)
THEOREM SessionEndsCleanCorrect ==
  ASSUME PatientGuest
  PROVE  Spec => []SessionEndsClean
<1>1. SessionInv => SessionEndsClean
  BY DEF SessionInv, SessionEndsClean
<1>. QED BY <1>1, TurnsCorrect, PTL
=============================================================================
