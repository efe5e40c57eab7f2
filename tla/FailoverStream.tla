--------------------------- MODULE FailoverStream --------------------------
(***************************************************************************)
(* What travels from the primary to the backup: the backup activates only  *)
(* a whole checkpoint, and the output let out is covered by one, wherever  *)
(* the stream breaks off, for every set of devices and every length of the *)
(* stream.                                                                 *)
(***************************************************************************)
EXTENDS FailoverTurns

(* What precedes a record of each type. *)
LEMMA FollowsInverse ==
  ASSUME NEW t \in RecordTypes \cup {"none"}
  PROVE  /\ Follows(t) = "LIBXC_CONTEXT" <=> t = "none"
         /\ Follows(t) = "PAGE_DATA" <=> t \in {"LIBXC_CONTEXT", "CHECKPOINT_END"}
         /\ Follows(t) = "CHECKPOINT" <=> t = "PAGE_DATA"
         /\ Follows(t) = "EMULATOR_CONTEXT" <=> t = "CHECKPOINT" /\ guestType = "HVM"
         /\ Follows(t) = "CHECKPOINT_END" <=>
              t = "EMULATOR_CONTEXT" \/ (t = "CHECKPOINT" /\ guestType # "HVM")
<1>1. t \in {"LIBXC_CONTEXT", "PAGE_DATA", "CHECKPOINT", "EMULATOR_CONTEXT", "CHECKPOINT_END", "none"}
  BY DEF RecordTypes
<1>2. CASE t = "none"
  BY <1>2 DEF Follows
<1>3. CASE t \in {"LIBXC_CONTEXT", "CHECKPOINT_END"}
  BY <1>3 DEF Follows
<1>4. CASE t = "PAGE_DATA"
  BY <1>4 DEF Follows
<1>5. CASE t = "CHECKPOINT" /\ guestType = "HVM"
  BY <1>5 DEF Follows
<1>6. CASE t = "CHECKPOINT" /\ guestType # "HVM"
  BY <1>6 DEF Follows
<1>7. CASE t = "EMULATOR_CONTEXT"
  BY <1>7 DEF Follows
<1>. QED BY <1>1, <1>2, <1>3, <1>4, <1>5, <1>6, <1>7

(* Where the backup is, by the record it has read last. *)
LEMMA LastReadIs ==
  ASSUME RestoreTypeOK
  PROVE  /\ LastRead \in RecordTypes \cup {"none"}
         /\ LastRead = "none" <=> backup = "starting"
         /\ LastRead = "EMULATOR_CONTEXT" <=> backup # "starting" /\ inCheckpoint /\ queued # 0
         /\ LastRead = "CHECKPOINT" <=> backup # "starting" /\ inCheckpoint /\ queued = 0
         /\ LastRead = "PAGE_DATA" <=> backup # "starting" /\ ~inCheckpoint /\ Held # 0
         /\ LastRead = "CHECKPOINT_END" <=> backup # "starting" /\ ~inCheckpoint /\ Held = 0 /\ buffering
         /\ LastRead = "LIBXC_CONTEXT" <=> backup # "starting" /\ ~inCheckpoint /\ Held = 0 /\ ~buffering
<1>. USE DEF LastRead, RecordTypes
<1>1. CASE backup = "starting"
  BY <1>1
<1>2. CASE backup # "starting" /\ inCheckpoint /\ queued # 0
  BY <1>2
<1>3. CASE backup # "starting" /\ inCheckpoint /\ queued = 0
  BY <1>3
<1>4. CASE backup # "starting" /\ ~inCheckpoint /\ Held # 0
  BY <1>4
<1>5. CASE backup # "starting" /\ ~inCheckpoint /\ Held = 0
  BY <1>5
<1>. QED BY <1>1, <1>2, <1>3, <1>4, <1>5 DEF RestoreTypeOK

(* The records of the stream, without the set they are from. *)
LEMMA StreamTyped ==
  ASSUME ChannelTypeOK
  PROVE  /\ Len(stream) \in Nat
         /\ \A i \in 1 .. Len(stream) : stream[i].type \in RecordTypes /\ stream[i].ver \in Nat
<1>. DEFINE R == [type : RecordTypes, ver : Nat]
<1>1. stream \in Seq(R)
  BY DEF ChannelTypeOK
<1>2. \A r \in R : r.type \in RecordTypes /\ r.ver \in Nat
  OBVIOUS
<1>. HIDE DEF R
<1>3. Len(stream) \in Nat /\ \A i \in 1 .. Len(stream) : stream[i] \in R
  BY <1>1
<1>. QED BY <1>2, <1>3

LEMMA BeforeTyped ==
  ASSUME ChannelTypeOK, RestoreTypeOK, NEW k \in 1 .. Len(stream) + 1
  PROVE  Before(k) \in RecordTypes \cup {"none"}
BY StreamTyped, LastReadIs DEF Before

(* A record that is written and not lost is the last one under way. *)
LEMMA WriteEffect ==
  ASSUME ChannelTypeOK, NEW t \in RecordTypes, NEW v \in Nat, Write(Rec(t, v)), link = "up"
  PROVE  /\ Len(stream') = Len(stream) + 1
         /\ \A i \in 1 .. Len(stream) : stream'[i] = stream[i]
         /\ stream'[Len(stream) + 1].type = t /\ stream'[Len(stream) + 1].ver = v
         /\ UNCHANGED <<link, lost>>
<1>. DEFINE R == [type : RecordTypes, ver : Nat]
            rec == Rec(t, v)
<1>1. stream \in Seq(R) /\ rec \in R /\ stream' = Append(stream, rec) /\ UNCHANGED <<link, lost>>
  BY RecTyped DEF ChannelTypeOK, Write
<1>2. rec.type = t /\ rec.ver = v
  BY DEF Rec
<1>. HIDE DEF R, rec
<1>. QED BY <1>1, <1>2, AppendProperties

(* A record that is read is the first one under way. *)
LEMMA ReadEffect ==
  ASSUME ChannelTypeOK, NEW t, Reads(t)
  PROVE  /\ 1 <= Len(stream) /\ Head(stream) = stream[1] /\ stream[1].type = t
         /\ Len(stream') = Len(stream) - 1
         /\ \A i \in 1 .. Len(stream') : stream'[i] = stream[i + 1]
         /\ UNCHANGED <<link, lost>>
<1>. DEFINE R == [type : RecordTypes, ver : Nat]
<1>1. stream \in Seq(R) /\ stream # << >> /\ stream' = Tail(stream) /\ UNCHANGED <<link, lost>>
  BY DEF ChannelTypeOK, Reads
<1>. HIDE DEF R
<1>2. Len(stream') = Len(stream) - 1 /\ \A i \in 1 .. Len(stream') : stream'[i] = stream[i + 1]
  BY <1>1, HeadTailProperties
<1>3. 1 <= Len(stream) /\ Head(stream) = stream[1]
  BY <1>1, EmptySeq
<1>. QED BY <1>1, <1>2, <1>3 DEF Reads

-----------------------------------------------------------------------------
(* StreamInv. *)

LEMMA StreamInit == Init => StreamInv
<1>. SUFFICES ASSUME Init PROVE StreamInv
  OBVIOUS
<1>1. Len(stream) = 0
  BY DEF Init, ChannelInit
<1>. QED BY <1>1 DEF Init, RestoreInit, StreamInv

(* A step that leaves the stream and the backup alone. *)
LEMMA StreamFrame ==
  ASSUME StreamInv, UNCHANGED <<stream, restoreVars, guestType>>, link # "up" => link' # "up"
  PROVE  StreamInv'
<1>1. Held' = Held /\ LastRead' = LastRead
  BY DEF restoreVars, Held, LastRead
<1>2. \A k : Before(k)' = Before(k) /\ PageAt(k)' = PageAt(k)
  BY <1>1 DEF Before, PageAt
<1>3. \A k : Follows(Before(k))' = Follows(Before(k))
  BY <1>2 DEF Follows
<1>. QED BY <1>1, <1>2, <1>3 DEF StreamInv, restoreVars

(* The next record of the order is written. *)
LEMMA StreamAppend ==
  ASSUME ChannelTypeOK, RestoreTypeOK, StreamInv,
         NEW t \in RecordTypes, NEW v \in Nat, Write(Rec(t, v)), UNCHANGED <<restoreVars, guestType>>,
         link = "up" => /\ t = Follows(Before(Len(stream) + 1))
                        /\ t = "PAGE_DATA" => v # 0
                        /\ t = "EMULATOR_CONTEXT" => v = PageAt(Len(stream) - 1)
  PROVE  StreamInv'
<1>1. CASE link # "up"
  BY <1>1, StreamFrame DEF Write
<1>2. CASE link = "up"
  <2>. DEFINE n == Len(stream)
  <2>1. /\ n \in Nat /\ Len(stream') = n + 1 /\ \A i \in 1 .. n : stream'[i] = stream[i]
        /\ stream'[n + 1].type = t /\ stream'[n + 1].ver = v /\ link' = link
    BY <1>2, WriteEffect, StreamTyped
  <2>2. Held' = Held /\ LastRead' = LastRead /\ \A x : Follows(x)' = Follows(x)
    BY DEF restoreVars, Held, LastRead, Follows
  <2>. HIDE DEF n
  <2>3. \A i \in 1 .. n + 1 : Before(i)' = Before(i)
    BY <2>1, <2>2 DEF Before
  <2>4. \A i \in 1 .. n + 1 : PageAt(i - 2)' = PageAt(i - 2)
    BY <2>1, <2>2 DEF PageAt
  <2>5. ASSUME NEW i \in 1 .. n + 1
        PROVE  /\ stream'[i].type = Follows(Before(i))'
               /\ stream'[i].type = "PAGE_DATA" => stream'[i].ver # 0
               /\ stream'[i].type = "EMULATOR_CONTEXT" => stream'[i].ver = PageAt(i - 2)'
    <3>0. Follows(Before(i))' = Follows(Before(i))
      BY <2>3 DEF Follows, restoreVars
    <3>1. CASE i \in 1 .. n
      BY <2>1, <2>4, <3>0, <3>1 DEF StreamInv, n
    <3>2. CASE i = n + 1
      BY <1>2, <2>1, <2>4, <3>0, <3>2 DEF n
    <3>. QED BY <2>1, <3>1, <3>2
  <2>6. backup \in {"starting", "restoring"}
    BY <1>2 DEF StreamInv
  <2>. QED BY <1>2, <2>1, <2>2, <2>5, <2>6 DEF StreamInv, restoreVars
<1>. QED BY <1>1, <1>2

(* The end of the stream is lost. *)
LEMMA StreamLose ==
  ASSUME ChannelTypeOK, StreamInv, Lose, UNCHANGED <<restoreVars, guestType>>, link # "up" => link' # "up"
  PROVE  StreamInv'
<1>1. /\ Len(stream') \in Nat /\ Len(stream) \in Nat /\ Len(stream') <= Len(stream)
      /\ \A i \in 1 .. Len(stream') : stream'[i] = stream[i]
  BY LoseEffect, StreamTyped
<1>2. stream = << >> => stream' = << >>
  BY LoseEffect, EmptySeq
<1>3. Held' = Held /\ LastRead' = LastRead
  BY DEF restoreVars, Held, LastRead
<1>4. \A i \in 1 .. Len(stream') : Before(i)' = Before(i) /\ PageAt(i - 2)' = PageAt(i - 2)
  BY <1>1, <1>3 DEF Before, PageAt
<1>5. \A i \in 1 .. Len(stream') : Follows(Before(i))' = Follows(Before(i))
  BY <1>4 DEF Follows
<1>6. \A i \in 1 .. Len(stream') :
        /\ stream'[i].type = Follows(Before(i))'
        /\ stream'[i].type = "PAGE_DATA" => stream'[i].ver # 0
        /\ stream'[i].type = "EMULATOR_CONTEXT" => stream'[i].ver = PageAt(i - 2)'
  BY <1>1, <1>4, <1>5 DEF StreamInv
<1>. QED BY <1>2, <1>3, <1>6 DEF StreamInv, restoreVars

-----------------------------------------------------------------------------
(* The backup reads. *)

ReadStep ==
  \/ libxc_context \/ handle_page_data \/ libxl__stream_read_start_checkpoint
  \/ queue_emulator_context \/ handle_checkpoint

(* What the backup keeps of the record it reads, and that the record is one *)
(* it can be sent where it is.                                              *)
LEMMA ReadKeeps ==
  ASSUME ChannelTypeOK, RestoreTypeOK, StreamInv, ReadStep, UNCHANGED guestType
  PROVE  /\ LastRead' = stream[1].type
         /\ stream[1].type = "PAGE_DATA" => /\ Held = 0 /\ Held' = stream[1].ver /\ Held' # 0
                                            /\ mem' = IF buffering THEN mem ELSE stream[1].ver
         /\ stream[1].type \in {"CHECKPOINT", "EMULATOR_CONTEXT"} => Held' = Held /\ mem' = mem
         /\ stream[1].type = "CHECKPOINT_END" =>
              /\ Held' = 0 /\ mem' = Held /\ Held # 0 /\ buffering'
              /\ guestType = "HVM" => dm' = mem'
         /\ stream[1].type = "LIBXC_CONTEXT" => Held' = 0 /\ Held = 0 /\ mem' = mem
         /\ stream[1].type # "CHECKPOINT_END" => UNCHANGED <<buffering, dm>>
         /\ UNCHANGED <<link, lost>> /\ backup' = "restoring" /\ backup \in {"starting", "restoring"}
         /\ ~buffering' => buffered' = 0
         /\ IF inCheckpoint' THEN Held' # 0 /\ queued' \in {0, Held'} ELSE queued' = 0
         /\ queued' # 0 => guestType = "HVM"
<1>0. ASSUME NEW t, Reads(t)
      PROVE  /\ stream[1].type = t /\ Head(stream) = stream[1] /\ UNCHANGED <<link, lost>>
             /\ stream[1].type = Follows(LastRead) /\ LastRead \in RecordTypes \cup {"none"}
             /\ stream[1].type = "PAGE_DATA" => stream[1].ver # 0
             /\ stream[1].type = "EMULATOR_CONTEXT" => stream[1].ver = Held
  <2>1. /\ stream[1].type = t /\ Head(stream) = stream[1] /\ UNCHANGED <<link, lost>> /\ 1 <= Len(stream)
    BY <1>0, ReadEffect
  <2>2. Before(1) = LastRead /\ PageAt(1 - 2) = Held
    BY DEF Before, PageAt
  <2>. QED BY <2>1, <2>2, LastReadIs, StreamTyped DEF StreamInv
<1>1. CASE libxc_context
  <2>1. Reads("LIBXC_CONTEXT") /\ backup = "starting" /\ backup' = "restoring"
        /\ UNCHANGED <<buffering, buffered, inCheckpoint, queued, mem, dm>>
    BY <1>1 DEF libxc_context
  <2>2. ~buffering /\ ~inCheckpoint /\ Held = 0 /\ queued = 0 /\ buffered = 0
    BY <2>1 DEF StreamInv, Held
  <2>3. Held' = 0
    BY <2>1, <2>2 DEF Held
  <2>4. LastRead' = "LIBXC_CONTEXT"
    BY <2>1, <2>2, <2>3 DEF LastRead
  <2>. QED BY <1>0, <2>1, <2>2, <2>3, <2>4
<1>2. CASE handle_page_data
  <2>1. /\ Reads("PAGE_DATA") /\ backup = "restoring" /\ backup' = "restoring" /\ ~inCheckpoint
        /\ UNCHANGED <<buffering, inCheckpoint, queued, dm>>
    BY <1>2 DEF handle_page_data
  <2>2. LastRead \in {"LIBXC_CONTEXT", "CHECKPOINT_END"} /\ stream[1].type = "PAGE_DATA"
    BY <1>0, <2>1, FollowsInverse
  <2>3. Held = 0 /\ stream[1].ver # 0 /\ queued = 0
    BY <1>0, <2>1, <2>2, LastReadIs DEF StreamInv
  <2>4. IF buffering THEN buffered' = stream[1].ver /\ mem' = mem
                     ELSE mem' = stream[1].ver /\ buffered' = buffered
    BY <1>0, <1>2, <2>1 DEF handle_page_data
  <2>5. Held' = stream[1].ver
    BY <2>1, <2>4 DEF Held
  <2>6. LastRead' = "PAGE_DATA"
    BY <2>1, <2>3, <2>5 DEF LastRead
  <2>7. ~buffering => buffered = 0
    BY DEF StreamInv
  <2>. QED BY <1>0, <2>1, <2>2, <2>3, <2>4, <2>5, <2>6, <2>7
<1>3. CASE libxl__stream_read_start_checkpoint
  <2>1. /\ Reads("CHECKPOINT") /\ backup = "restoring" /\ backup' = "restoring" /\ ~inCheckpoint
        /\ inCheckpoint' = TRUE /\ UNCHANGED <<buffering, buffered, queued, mem, dm>>
    BY <1>3 DEF libxl__stream_read_start_checkpoint
  <2>2. LastRead = "PAGE_DATA" /\ stream[1].type = "CHECKPOINT"
    BY <1>0, <2>1, FollowsInverse
  <2>3. Held # 0 /\ queued = 0 /\ Held' = Held
    BY <2>1, <2>2, LastReadIs DEF StreamInv, Held
  <2>4. LastRead' = "CHECKPOINT"
    BY <2>1, <2>3 DEF LastRead
  <2>5. ~buffering => buffered = 0
    BY DEF StreamInv
  <2>. QED BY <1>0, <2>1, <2>2, <2>3, <2>4, <2>5
<1>4. CASE queue_emulator_context
  <2>1. /\ Reads("EMULATOR_CONTEXT") /\ backup = "restoring" /\ backup' = "restoring" /\ inCheckpoint
        /\ UNCHANGED <<buffering, buffered, inCheckpoint, mem, dm>> /\ queued' = Head(stream).ver
    BY <1>4 DEF queue_emulator_context
  <2>2. stream[1].type = "EMULATOR_CONTEXT" /\ guestType = "HVM" /\ queued' = Held
    BY <1>0, <2>1, FollowsInverse
  <2>3. Held # 0 /\ Held' = Held
    BY <2>1 DEF StreamInv, Held
  <2>4. LastRead' = "EMULATOR_CONTEXT"
    BY <2>1, <2>2, <2>3 DEF LastRead
  <2>5. ~buffering => buffered = 0
    BY DEF StreamInv
  <2>. QED BY <1>0, <2>1, <2>2, <2>3, <2>4, <2>5
<1>5. CASE handle_checkpoint
  <2>1. /\ Reads("CHECKPOINT_END") /\ backup = "restoring" /\ backup' = "restoring" /\ inCheckpoint
        /\ inCheckpoint' = FALSE /\ dm' = queued /\ queued' = 0 /\ buffered' = 0
    BY <1>5 DEF handle_checkpoint
  <2>2. stream[1].type = "CHECKPOINT_END" /\ (guestType = "HVM" => LastRead = "EMULATOR_CONTEXT")
    BY <1>0, <2>1, FollowsInverse
  <2>3. Held # 0 /\ (guestType = "HVM" => queued = Held)
    BY <2>1, <2>2, LastReadIs DEF StreamInv
  <2>4. buffering' /\ mem' = Held
    BY <1>5 DEF handle_checkpoint, Held
  <2>5. Held' = 0
    BY <2>1, <2>4 DEF Held
  <2>6. LastRead' = "CHECKPOINT_END"
    BY <2>1, <2>4, <2>5 DEF LastRead
  <2>. QED BY <1>0, <2>1, <2>2, <2>3, <2>4, <2>5, <2>6
<1>. QED BY <1>1, <1>2, <1>3, <1>4, <1>5 DEF ReadStep

(* The rest of the stream is seen from one record further. *)
LEMMA ReadShift ==
  ASSUME ChannelTypeOK, RestoreTypeOK, StreamInv, ReadStep, UNCHANGED guestType
  PROVE  /\ 1 <= Len(stream) /\ Len(stream) \in Nat /\ Len(stream') = Len(stream) - 1
         /\ \A i \in 1 .. Len(stream') : stream'[i] = stream[i + 1]
         /\ \A i \in 1 .. Len(stream') + 1 : Before(i)' = Before(i + 1)
         /\ \A i \in 1 .. Len(stream') : PageAt(i)' = PageAt(i + 1)
         /\ \A i \in Int : i <= 0 => PageAt(i)' = Held'
         /\ \A i \in Int : i <= 0 => PageAt(i) = Held
         /\ PageAt(1) = stream[1].ver
<1>1. /\ 1 <= Len(stream) /\ Len(stream) \in Nat /\ Len(stream') = Len(stream) - 1
      /\ \A i \in 1 .. Len(stream') : stream'[i] = stream[i + 1]
  BY ReadEffect, StreamTyped DEF ReadStep, libxc_context, handle_page_data,
     libxl__stream_read_start_checkpoint, queue_emulator_context, handle_checkpoint
<1>2. \A i \in 1 .. Len(stream') + 1 : Before(i)' = Before(i + 1)
  BY <1>1, ReadKeeps DEF Before
<1>. QED BY <1>1, <1>2 DEF PageAt

LEMMA StreamRead ==
  ASSUME ChannelTypeOK, RestoreTypeOK, StreamInv, ReadStep, UNCHANGED guestType
  PROVE  StreamInv'
<1>1. ASSUME NEW i \in 1 .. Len(stream')
      PROVE  /\ stream'[i].type = Follows(Before(i))'
             /\ stream'[i].type = "PAGE_DATA" => stream'[i].ver # 0
             /\ stream'[i].type = "EMULATOR_CONTEXT" => stream'[i].ver = PageAt(i - 2)'
  <2>1. i + 1 \in 1 .. Len(stream) /\ stream'[i] = stream[i + 1] /\ Before(i)' = Before(i + 1)
    BY ReadShift
  <2>2. Follows(Before(i))' = Follows(Before(i + 1))
    BY <2>1 DEF Follows
  <2>3. ASSUME stream[i + 1].type = "EMULATOR_CONTEXT"
        PROVE  PageAt(i - 2)' = PageAt(i + 1 - 2)
    <3>1. Before(i + 1) = "CHECKPOINT" /\ Before(i + 1) = stream[i].type
      <4>1. stream[i + 1].type = Follows(Before(i + 1))
        BY <2>1 DEF StreamInv
      <4>2. Before(i + 1) \in RecordTypes \cup {"none"}
        BY <2>1, BeforeTyped
      <4>3. Before(i + 1) = stream[i].type
        BY DEF Before
      <4>. QED BY <2>3, <4>1, <4>2, <4>3, FollowsInverse
    <3>2. CASE i = 1
      BY <3>1, <3>2, ReadKeeps, ReadShift
    <3>3. CASE i = 2
      <4>1. stream[2].type = Follows(Before(2)) /\ Before(2) = stream[1].type
        BY <2>1, <3>3, ReadShift DEF StreamInv, Before
      <4>2. stream[1].type = "PAGE_DATA"
        BY <2>1, <3>1, <3>3, <4>1, BeforeTyped, FollowsInverse
      <4>. QED BY <3>3, <4>2, ReadKeeps, ReadShift
    <3>4. CASE i > 2
      BY <3>4, ReadShift
    <3>. QED BY <3>2, <3>3, <3>4
  <2>4. /\ stream[i + 1].type = Follows(Before(i + 1))
        /\ stream[i + 1].type = "PAGE_DATA" => stream[i + 1].ver # 0
        /\ stream[i + 1].type = "EMULATOR_CONTEXT" => stream[i + 1].ver = PageAt(i + 1 - 2)
    BY <2>1 DEF StreamInv
  <2>. QED BY <2>1, <2>2, <2>3, <2>4
<1>2. stream[1].type \in RecordTypes
  BY ReadShift, StreamTyped
<1>3. buffering' => mem' # 0 /\ (guestType = "HVM" => dm' = mem')
  BY <1>2, ReadKeeps DEF StreamInv, RecordTypes
<1>. QED BY <1>1, <1>3, ReadKeeps DEF StreamInv

(* The restore ends. *)
LEMMA StreamEnds ==
  ASSUME RestoreTypeOK, StreamInv, UNCHANGED guestType, stream' = << >>, link' # "up",
         NEW outcome \in {"running", "failed", "error", "aborted"}, Ends(outcome),
         outcome = "running" => buffering
  PROVE  StreamInv'
<1>1. Len(stream') = 0
  OBVIOUS
<1>2. CASE outcome \in {"failed", "error"}
  <2>1. /\ ~buffering' /\ mem' = 0 /\ dm' = 0 /\ backup' = outcome /\ buffered' = 0 /\ queued' = 0
        /\ inCheckpoint' = FALSE
    BY <1>2 DEF Ends
  <2>. QED BY <1>1, <1>2, <2>1 DEF StreamInv
<1>3. CASE outcome \in {"running", "aborted"}
  <2>1. /\ UNCHANGED <<buffering, mem, dm>> /\ backup' = outcome /\ buffered' = 0 /\ queued' = 0
        /\ inCheckpoint' = FALSE
    BY <1>3 DEF Ends
  <2>. QED BY <1>1, <1>3, <2>1 DEF StreamInv
<1>. QED BY <1>2, <1>3

(* A step of the backup host keeps the stream in order. *)
LEMMA BackupStream ==
  ASSUME ChannelTypeOK, RestoreTypeOK, StreamInv, RestoreStep \/ libxc_context \/ BackupError,
         UNCHANGED guestType
  PROVE  StreamInv'
<1>1. CASE ReadStep
  BY <1>1, StreamRead
<1>2. CASE BrokenChannel
  BY <1>2, StreamEnds DEF BrokenChannel, chanVars
<1>3. ASSUME NEW eof \in BOOLEAN, NEW half \in BOOLEAN, BrokenInCheckpoint(eof, half)
      PROVE  StreamInv'
  <2>1. link' # "up" /\ stream = << >> /\ stream' = << >> /\ inCheckpoint /\ Len(stream') = 0
    BY <1>3 DEF BrokenInCheckpoint, chanVars
  <2>2. CASE eof
    <3>1. backup' = "spinning" /\ UNCHANGED <<buffering, buffered, inCheckpoint, queued, mem, dm>>
      BY <1>3, <2>2 DEF BrokenInCheckpoint
    <3>2. Held' = Held
      BY <3>1 DEF Held
    <3>. QED BY <2>1, <3>1, <3>2 DEF StreamInv
  <2>3. CASE ~eof
    <3>1. Ends("failed") \/ (buffering /\ Ends("running")) \/ Ends("aborted")
      BY <1>3, <2>3 DEF BrokenInCheckpoint, RestoreTypeOK
    <3>. QED BY <2>1, <3>1, StreamEnds
  <2>. QED BY <2>2, <2>3
<1>4. CASE BackupError
  BY <1>4, StreamEnds DEF BackupError
<1>. QED BY <1>1, <1>2, <1>3, <1>4 DEF RestoreStep, ReadStep

-----------------------------------------------------------------------------
(* WriterInv and StreamInv, for the primary host. *)

(* A step that leaves the stream alone. *)
LEMMA ViewFrame ==
  ASSUME UNCHANGED <<stream, restoreVars>>
  PROVE  /\ LastWritten' = LastWritten
         /\ PageAt(Len(stream))' = PageAt(Len(stream)) /\ PageAt(Len(stream) - 1)' = PageAt(Len(stream) - 1)
<1>1. Held' = Held /\ LastRead' = LastRead
  BY DEF restoreVars, Held, LastRead
<1>. QED BY <1>1 DEF LastWritten, Before, PageAt

(* A record written to a stream that is up is the last one, and the memory  *)
(* of the checkpoint under way is one record further from the end.          *)
LEMMA ViewAppend ==
  ASSUME ChannelTypeOK, NEW t \in RecordTypes, NEW v \in Nat, Write(Rec(t, v)), link = "up",
         UNCHANGED restoreVars
  PROVE  /\ LastWritten' = t /\ PageAt(Len(stream))' = v
         /\ \A k \in Int : k <= Len(stream) => PageAt(k)' = PageAt(k)
         /\ PageAt(Len(stream) - 1)' = PageAt(Len(stream))
         /\ link' = "up"
<1>1. /\ Len(stream) \in Nat /\ Len(stream') = Len(stream) + 1
      /\ \A i \in 1 .. Len(stream) : stream'[i] = stream[i]
      /\ stream'[Len(stream) + 1].type = t /\ stream'[Len(stream) + 1].ver = v /\ link' = "up"
  BY WriteEffect, StreamTyped
<1>2. Held' = Held
  BY DEF restoreVars, Held
<1>. QED BY <1>1, <1>2 DEF LastWritten, Before, PageAt

LEMMA HelperStream ==
  ASSUME RemusTypeOK, TurnsInv, StreamInv, WriterInv, primary = "up", HelperStep,
         UNCHANGED <<restoreVars, failVars>>
  PROVE  StreamInv' /\ WriterInv'
<1>. USE DEF helperFrame, modeVars, guestVars, failVars, Waits
<1>0. SaveTypeOK /\ ChannelTypeOK /\ RestoreTypeOK /\ version \in Nat \ {0}
  BY DEF RemusTypeOK, SaveTypeOK
<1>1. CASE send_domain_memory_live
  <2>1. /\ helper = "live" /\ replies = << >> /\ UNCHANGED <<replies, chanVars, helperFrame>>
        /\ helper' \in {"suspend", "exited"} /\ libxl = "idle"
    BY <1>1 DEF send_domain_memory_live, TurnsInv, AnswersMatch, Ask, Becomes
  <2>2. StreamInv'
    BY <2>1, StreamFrame DEF chanVars
  <2>. QED BY <2>1, <2>2, ViewFrame DEF chanVars, WriterInv, Granted, Resuming
<1>2. CASE suspend_and_send_dirty
  <2>1. /\ helper = "send" /\ replies = << >> /\ UNCHANGED <<replies, helperFrame>> /\ libxl = "idle"
    BY <1>2 DEF suspend_and_send_dirty, TurnsInv, AnswersMatch
  <2>2. CASE Write(Rec("PAGE_DATA", version)) /\ helper' = "record"
    <3>1. link = "up" => Follows(LastWritten) = "PAGE_DATA"
      BY <2>1, FollowsInverse DEF WriterInv, RecordTypes
    <3>2. StreamInv'
      BY <1>0, <2>1, <2>2, <3>1, StreamAppend DEF RecordTypes, LastWritten
    <3>3. CASE link = "up"
      <4>1. LastWritten' = "PAGE_DATA" /\ PageAt(Len(stream))' = version
        BY <1>0, <2>2, <3>3, ViewAppend DEF RecordTypes
      <4>2. guestType = "HVM" => dmSave = version
        BY <2>1 DEF WriterInv
      <4>. QED BY <2>1, <2>2, <3>2, <4>1, <4>2 DEF WriterInv, Granted, Resuming
    <3>4. CASE link # "up"
      BY <2>1, <2>2, <3>2, <3>4 DEF Write, WriterInv, Granted, Resuming
    <3>. QED BY <3>3, <3>4
  <2>3. CASE WriteFails /\ helper' = "exited"
    <3>1. StreamInv'
      BY <2>1, <2>3, StreamFrame DEF WriteFails, chanVars
    <3>. QED BY <2>1, <2>3, <3>1 DEF WriteFails, chanVars, WriterInv, Granted, Resuming
  <2>. QED BY <1>2, <2>2, <2>3 DEF suspend_and_send_dirty, Becomes
<1>3. CASE write_checkpoint_record
  <2>1. /\ helper = "record" /\ replies = << >> /\ UNCHANGED <<replies, helperFrame>> /\ libxl = "idle"
    BY <1>3 DEF write_checkpoint_record, TurnsInv, AnswersMatch
  <2>2. CASE Write(Rec("CHECKPOINT", 0)) /\ helper' = "postcopy"
    <3>1. link = "up" => Follows(LastWritten) = "CHECKPOINT"
      BY <2>1, FollowsInverse DEF WriterInv, RecordTypes
    <3>2. StreamInv'
      BY <1>0, <2>1, <2>2, <3>1, StreamAppend DEF RecordTypes, LastWritten
    <3>3. CASE link = "up"
      <4>1. LastWritten' = "CHECKPOINT" /\ PageAt(Len(stream) - 1)' = PageAt(Len(stream))
        BY <1>0, <2>2, <3>3, ViewAppend DEF RecordTypes
      <4>2. guestType = "HVM" => dmSave = PageAt(Len(stream))
        BY <2>1, <3>3 DEF WriterInv
      <4>. QED BY <2>1, <2>2, <3>2, <4>1, <4>2 DEF WriterInv, Granted, Resuming
    <3>4. CASE link # "up"
      BY <2>1, <2>2, <3>2, <3>4 DEF Write, WriterInv, Granted, Resuming
    <3>. QED BY <3>3, <3>4
  <2>3. CASE WriteFails /\ helper' = "exited"
    <3>1. StreamInv'
      BY <2>1, <2>3, StreamFrame DEF WriteFails, chanVars
    <3>. QED BY <2>1, <2>3, <3>1 DEF WriteFails, chanVars, WriterInv, Granted, Resuming
  <2>. QED BY <1>3, <2>2, <2>3 DEF write_checkpoint_record, Becomes, Ask
<1>4. CASE helper_getreply
  <2>1. /\ helper \in Waits /\ replies # << >> /\ ~asked /\ libxl = "idle" /\ replies' = << >>
        /\ UNCHANGED <<chanVars, helperFrame>>
    BY <1>0, <1>4, TakeReply DEF helper_getreply, suspend_domain, TurnsInv, AnswersMatch
  <2>2. StreamInv'
    BY <2>1, StreamFrame DEF chanVars
  <2>3. Head(replies) \in {0, 1}
    <3>1. Len(replies) <= 1
      BY DEF TurnsInv, AnswersMatch
    <3>. QED BY <1>0, <2>1, <3>1, TakeReply
  <2>4. \/ helper' = "exited"
        \/ Granted("suspend") /\ helper' = "send"
        \/ Granted("postcopy") /\ helper' = "checkpoint"
        \/ Granted("checkpoint") /\ helper' = "suspend"
    <3>1. CASE Head(replies) = 0
      BY <1>4, <3>1 DEF helper_getreply, suspend_domain, Becomes
    <3>2. CASE Head(replies) = 1 /\ helper = "suspend"
      BY <1>4, <2>1, <3>2 DEF helper_getreply, suspend_domain, Becomes, Granted
    <3>3. CASE Head(replies) = 1 /\ helper = "postcopy"
      BY <1>4, <2>1, <3>3 DEF helper_getreply, suspend_domain, Ask, Granted
    <3>4. CASE Head(replies) = 1 /\ helper = "checkpoint"
      BY <1>4, <2>1, <3>4 DEF helper_getreply, suspend_domain, Ask, Granted
    <3>. QED BY <2>1, <2>3, <3>1, <3>2, <3>3, <3>4
  <2>. QED BY <2>1, <2>2, <2>4, ViewFrame DEF chanVars, WriterInv, Granted, Resuming
<1>. QED BY <1>1, <1>2, <1>3, <1>4 DEF HelperStep

LEMMA LibxlStream ==
  ASSUME RemusTypeOK, TurnsInv, StreamInv, WriterInv, primary = "up", LibxlStep,
         UNCHANGED <<restoreVars, failVars>>
  PROVE  StreamInv' /\ WriterInv'
<1>. USE DEF modeVars, guestVars, helperVars, failVars, Waits
<1>0. SaveTypeOK /\ ChannelTypeOK /\ RestoreTypeOK /\ dmSave \in Nat
  BY DEF RemusTypeOK, SaveTypeOK
\* Before the helper is started and after it is reaped nothing is written.
<1>1. ASSUME UNCHANGED <<guestType, stream>>, link # "up" => link' # "up",
             helper' \in {"none", "reaped"}, libxl' \in {"setup", "teardown", "done", "ended"},
             libxl' = "setup" => libxl \in {"new", "setup"} /\ link' = link
      PROVE  StreamInv' /\ WriterInv'
  <2>1. StreamInv'
    BY <1>1, StreamFrame
  <2>. QED BY <1>1, <2>1, ViewFrame DEF WriterInv, Granted, Resuming
<1>2. CASE libxl__remus_setup
  <2>1. helper = "none"
    BY <1>0, <1>2 DEF libxl__remus_setup, TurnsInv, SaveTypeOK
  <2>. QED BY <1>1, <1>2, <2>1 DEF libxl__remus_setup, chanVars
<1>3. CASE helper_exited
  BY <1>1, <1>3 DEF helper_exited, libxl__checkpoint_devices_teardown, chanVars
<1>4. CASE main_remus
  <2>1. helper \in {"none", "reaped"}
    BY <1>0, <1>4 DEF main_remus, TurnsInv, SaveTypeOK
  <2>. QED BY <1>1, <1>4, <2>1 DEF main_remus
<1>5. ASSUME NEW d \in Devices, NEW ok \in BOOLEAN, DeviceTornDown(d, ok)
      PROVE  StreamInv' /\ WriterInv'
  <2>1. helper \in {"none", "reaped"}
    BY <1>0, <1>5 DEF DeviceTornDown, TurnsInv, SaveTypeOK
  <2>. QED BY <1>1, <1>5, <2>1 DEF DeviceTornDown, chanVars
<1>6. ASSUME NEW d \in Devices, NEW ok \in BOOLEAN, DeviceSetUp(d, ok)
      PROVE  StreamInv' /\ WriterInv'
  <2>1. libxl = "setup" /\ helper = "none" /\ replies = << >> /\ UNCHANGED <<guestType, asked, replies>>
    BY <1>0, <1>6 DEF DeviceSetUp, TurnsInv, AnswersMatch, SaveTypeOK
  <2>2. CASE UNCHANGED <<helper, chanVars>> /\ libxl' \in {"setup", "teardown", "done"}
    BY <1>1, <2>1, <2>2 DEF chanVars
  <2>3. CASE Write(Rec("LIBXC_CONTEXT", 0)) /\ helper' = "live" /\ libxl' = "idle"
    <3>1. link = "up" => Follows(LastWritten) = "LIBXC_CONTEXT"
      BY <2>1, FollowsInverse DEF WriterInv, RecordTypes
    <3>2. StreamInv'
      BY <1>0, <2>1, <2>3, <3>1, StreamAppend DEF RecordTypes, LastWritten
    <3>3. CASE link = "up"
      <4>1. LastWritten' = "LIBXC_CONTEXT"
        BY <1>0, <2>3, <3>3, ViewAppend DEF RecordTypes
      <4>. QED BY <2>1, <2>3, <3>2, <4>1 DEF WriterInv, Granted, Resuming
    <3>4. CASE link # "up"
      BY <2>1, <2>3, <3>2, <3>4 DEF Write, WriterInv, Granted, Resuming
    <3>. QED BY <3>3, <3>4
  <2>. QED BY <1>6, <2>2, <2>3 DEF DeviceSetUp, libxl__domain_save, libxl__checkpoint_devices_teardown,
                                   WriteFails
\* libxl works for the helper and writes nothing.
<1>7. ASSUME UNCHANGED <<chanVars, guestType, version, helper>>, helper \in Waits,
             \/ UNCHANGED replies /\ replies = << >>
             \/ replies' # << >> /\ Head(replies') = 0
             \/ helper = "suspend" /\ guest' = "suspended" /\ (guestType = "HVM" => dmSave' = version)
             \/ helper = "postcopy"
             \/ helper = "checkpoint" /\ libxl \in {"timer", "watch"},
             libxl' \in {"end", "stream"} => helper = "checkpoint" /\ asked,
             libxl' = "stream" => guestType = "HVM", libxl' = "end" => guestType # "HVM",
             libxl' \notin {"new", "setup", "timer", "watch"}, ~asked',
             helper # "suspend" => UNCHANGED dmSave
      PROVE  StreamInv' /\ WriterInv'
  <2>1. StreamInv'
    BY <1>7, StreamFrame DEF chanVars
  <2>. QED BY <1>7, <2>1, ViewFrame DEF chanVars, WriterInv, Granted, Resuming
<1>8. CASE libxl__remus_domain_suspend_callback
  BY <1>7, <1>8 DEF libxl__remus_domain_suspend_callback, Requested, TurnsInv, AnswersMatch
<1>9. CASE suspend_common_wait_guest_timeout
  <2>1. helper = "suspend" /\ replies = << >> /\ ~asked
    BY <1>9 DEF suspend_common_wait_guest_timeout, TurnsInv, AnswersMatch
  <2>2. replies' # << >> /\ Head(replies') = 0
    BY <1>0, <1>9, <2>1, ReplyEffect DEF suspend_common_wait_guest_timeout
  <2>. QED BY <1>7, <1>9, <2>1, <2>2 DEF suspend_common_wait_guest_timeout
<1>10. ASSUME NEW bad \in SUBSET (Nics \cap matched), NEW dmOk \in BOOLEAN,
              domain_suspend_common_guest_suspended(dmOk, bad)
       PROVE  StreamInv' /\ WriterInv'
  <2>1. helper = "suspend" /\ replies = << >> /\ ~asked
    BY <1>10 DEF domain_suspend_common_guest_suspended, TurnsInv, AnswersMatch
  <2>2. \/ sendreply(0)
        \/ guest' = "suspended" /\ (guestType = "HVM" => dmSave' = version)
    BY <1>10 DEF domain_suspend_common_guest_suspended
  <2>3. sendreply(0) => replies' # << >> /\ Head(replies') = 0
    BY <1>0, <2>1, ReplyEffect
  <2>. QED BY <1>7, <1>10, <2>1, <2>2, <2>3 DEF domain_suspend_common_guest_suspended
<1>11. CASE libxl__remus_domain_resume_callback
  <2>1. helper = "postcopy" /\ ~asked' /\ UNCHANGED <<helper, guestType, version, dmSave, chanVars>>
    BY <1>11 DEF libxl__remus_domain_resume_callback, Requested
  <2>2. libxl' \in {"idle", "preresume"}
    BY <1>11 DEF libxl__remus_domain_resume_callback, libxl__domain_resume
  <2>. QED BY <1>7, <2>1, <2>2
<1>12. ASSUME NEW d \in Devices, NEW ok \in BOOLEAN, DevicePreresumed(d, ok)
       PROVE  StreamInv' /\ WriterInv'
  <2>1. /\ helper = "postcopy" /\ ~asked /\ libxl = "preresume"
        /\ UNCHANGED <<helper, asked, guestType, version, dmSave, chanVars>>
    BY <1>12 DEF DevicePreresumed, TurnsInv, AnswersMatch
  <2>2. libxl' \in {"idle", "preresume"}
    BY <1>12, <2>1 DEF DevicePreresumed, libxl__domain_resume
  <2>. QED BY <1>7, <2>1, <2>2
<1>13. CASE libxl__remus_domain_save_checkpoint_callback
  BY <1>7, <1>13 DEF libxl__remus_domain_save_checkpoint_callback, Requested, TurnsInv, AnswersMatch
<1>14. CASE \E ok \in BOOLEAN : remus_next_checkpoint(ok)
  BY <1>7, <1>14 DEF remus_next_checkpoint, TurnsInv, AnswersMatch
<1>15. CASE cpsremus_next_checkpoint
  <2>1. libxl = "watch" /\ helper = "checkpoint" /\ ~asked
    BY <1>15 DEF cpsremus_next_checkpoint, TurnsInv, AnswersMatch
  <2>. QED BY <1>7, <1>15, <2>1 DEF cpsremus_next_checkpoint
<1>16. CASE write_emulator_context_record
  <2>1. /\ libxl = "stream" /\ helper = "checkpoint" /\ ~asked /\ replies = << >>
        /\ UNCHANGED <<helper, asked, guestType, version, guest, dmSave>>
    BY <1>16 DEF write_emulator_context_record, TurnsInv, AnswersMatch
  <2>2. CASE Write(Rec("EMULATOR_CONTEXT", dmSave)) /\ libxl' = "end" /\ UNCHANGED replies
    <3>0. CASE link # "up"
      <4>1. StreamInv'
        BY <2>1, <2>2, <3>0, StreamFrame DEF Write
      <4>. QED BY <2>1, <2>2, <3>0, <4>1 DEF Write, WriterInv, Granted, Resuming
    <3>1. CASE link = "up" /\ guestType = "HVM"
      <4>1. LastWritten = "CHECKPOINT" /\ dmSave = PageAt(Len(stream) - 1)
        BY <2>1, <3>1 DEF WriterInv, Resuming
      <4>2. Follows(LastWritten) = "EMULATOR_CONTEXT"
        BY <3>1, <4>1, FollowsInverse DEF RecordTypes
      <4>3. StreamInv'
        BY <1>0, <2>1, <2>2, <4>1, <4>2, StreamAppend DEF RecordTypes, LastWritten
      <4>4. LastWritten' = "EMULATOR_CONTEXT"
        BY <1>0, <2>2, <3>1, ViewAppend DEF RecordTypes
      <4>. QED BY <2>1, <2>2, <3>1, <4>3, <4>4 DEF WriterInv, Granted, Resuming
    <3>. QED BY <2>1, <3>0, <3>1 DEF WriterInv
  <2>3. CASE UNCHANGED chanVars /\ sendreply(0) /\ libxl' = "idle"
    <3>1. replies' # << >> /\ Head(replies') = 0
      BY <1>0, <2>1, <2>3, ReplyEffect
    <3>. QED BY <1>7, <2>1, <2>3, <3>1
  <2>. QED BY <1>16, <2>2, <2>3 DEF write_emulator_context_record, WriteFails
<1>17. ASSUME NEW bad \in SUBSET (Nics \cap matched), remus_checkpoint_stream_written(bad)
       PROVE  StreamInv' /\ WriterInv'
  <2>1. /\ libxl = "end" /\ helper = "checkpoint" /\ ~asked /\ replies = << >>
        /\ UNCHANGED <<helper, asked, guestType, version, guest, dmSave>>
    BY <1>17 DEF remus_checkpoint_stream_written, TurnsInv, AnswersMatch
  <2>2. libxl' \in {"idle", "timer", "watch"}
    BY <1>17 DEF remus_checkpoint_stream_written, AwaitNext, AwaitEvent, AwaitTimer
  <2>3. CASE Write(Rec("CHECKPOINT_END", 0))
    <3>0. CASE link # "up"
      <4>1. StreamInv'
        BY <2>1, <2>3, <3>0, StreamFrame DEF Write
      <4>. QED BY <2>1, <2>2, <2>3, <3>0, <4>1 DEF Write, WriterInv, Granted
    <3>1. CASE link = "up"
      <4>1. LastWritten = IF guestType = "HVM" THEN "EMULATOR_CONTEXT" ELSE "CHECKPOINT"
        BY <2>1, <3>1 DEF WriterInv
      <4>2. Follows(LastWritten) = "CHECKPOINT_END"
        BY <4>1, FollowsInverse DEF RecordTypes
      <4>3. StreamInv'
        BY <1>0, <2>1, <2>3, <4>2, StreamAppend DEF RecordTypes, LastWritten
      <4>4. LastWritten' = "CHECKPOINT_END"
        BY <1>0, <2>3, <3>1, ViewAppend DEF RecordTypes
      <4>. QED BY <2>1, <2>2, <3>1, <4>3, <4>4 DEF WriterInv, Granted, Resuming
    <3>. QED BY <3>0, <3>1
  <2>4. CASE WriteFails
    <3>1. StreamInv'
      BY <2>1, <2>4, StreamFrame DEF WriteFails, chanVars
    <3>. QED BY <2>1, <2>2, <2>4, <3>1 DEF WriteFails, chanVars, WriterInv, Granted
  <2>. QED BY <1>17, <2>3, <2>4 DEF remus_checkpoint_stream_written
<1>. QED BY <1>2, <1>3, <1>4, <1>5, <1>6, <1>8, <1>9, <1>10, <1>11, <1>12, <1>13, <1>14, <1>15, <1>16,
            <1>17 DEF LibxlStep

LEMMA GuestStream ==
  ASSUME StreamInv, WriterInv, GuestStep, UNCHANGED <<restoreVars, failVars>>
  PROVE  StreamInv' /\ WriterInv'
<1>. USE DEF guestFrame, modeVars, guestVars, helperVars, chanVars, failVars
<1>2. UNCHANGED guestFrame /\ (guest = "suspended" => UNCHANGED guestVars)
  BY DEF GuestStep, GuestRuns, GuestSuspends, GuestWrites
<1>3. StreamInv'
  BY <1>2, StreamFrame
<1>. QED BY <1>2, <1>3, ViewFrame DEF WriterInv, Granted, Resuming

-----------------------------------------------------------------------------
(* WriterInv and StreamInv, for the other steps. *)

(* What was written last stays so while the backup reads. *)
LEMMA ViewRead ==
  ASSUME ChannelTypeOK, RestoreTypeOK, StreamInv, ReadStep, UNCHANGED guestType
  PROVE  /\ LastWritten' = LastWritten
         /\ LastWritten = "PAGE_DATA" => PageAt(Len(stream))' = PageAt(Len(stream))
         /\ LastWritten = "CHECKPOINT" => PageAt(Len(stream) - 1)' = PageAt(Len(stream) - 1)
         /\ LastWritten = "EMULATOR_CONTEXT" => PageAt(Len(stream) - 2)' = PageAt(Len(stream) - 2)
<1>0. PICK n : n = Len(stream)
  OBVIOUS
<1>1. /\ 1 <= n /\ n \in Nat /\ Len(stream') = n - 1
      /\ \A i \in 1 .. n : Before(i)' = Before(i + 1)
      /\ \A i \in 1 .. n - 1 : PageAt(i)' = PageAt(i + 1)
      /\ \A i \in Int : i <= 0 => PageAt(i)' = Held'
      /\ \A i \in Int : i <= 0 => PageAt(i) = Held
      /\ PageAt(1) = stream[1].ver
  BY <1>0, ReadShift
<1>2. LastWritten = Before(n + 1) /\ LastWritten = stream[n].type /\ LastWritten' = Before(n)'
  BY <1>0, <1>1 DEF LastWritten, Before
<1>3. \A i \in 1 .. n : i > 1 => /\ stream[i].type = Follows(stream[i - 1].type)
                                 /\ stream[i - 1].type \in RecordTypes
  BY <1>0, <1>1, StreamTyped DEF StreamInv, Before
<1>4. LastWritten' = LastWritten
  BY <1>1, <1>2
<1>5. /\ stream[1].type = "PAGE_DATA" => PageAt(0)' = PageAt(1)
      /\ stream[1].type \in {"CHECKPOINT", "EMULATOR_CONTEXT"} =>
           PageAt(-1)' = PageAt(0) /\ PageAt(-2)' = PageAt(-1)
  <2>1. /\ stream[1].type = "PAGE_DATA" => Held' = stream[1].ver
        /\ stream[1].type \in {"CHECKPOINT", "EMULATOR_CONTEXT"} => Held' = Held
    BY ReadKeeps
  <2>. QED BY <1>1, <2>1
<1>6. \A i \in 1 .. n : i > 1 =>
         /\ stream[i].type = "CHECKPOINT" => stream[i - 1].type = "PAGE_DATA"
         /\ stream[i].type = "EMULATOR_CONTEXT" => stream[i - 1].type = "CHECKPOINT"
  <2>. TAKE i \in 1 .. n
  <2>. HAVE i > 1
  <2>1. stream[i].type = Follows(stream[i - 1].type) /\ stream[i - 1].type \in RecordTypes
    BY <1>3
  <2>. QED BY <2>1, FollowsInverse
<1>7. ASSUME stream[n].type = "PAGE_DATA"
      PROVE  PageAt(n - 1)' = PageAt(n)
  <2>1. CASE n = 1
    BY <1>5, <1>7, <2>1
  <2>2. CASE n > 1
    BY <1>1, <2>2
  <2>. QED BY <1>1, <2>1, <2>2
<1>8. ASSUME stream[n].type = "CHECKPOINT"
      PROVE  PageAt(n - 2)' = PageAt(n - 1)
  <2>1. CASE n = 1
    BY <1>5, <1>8, <2>1
  <2>2. CASE n = 2
    <3>1. stream[1].type = "PAGE_DATA"
      BY <1>6, <1>8, <2>2
    <3>. QED BY <1>5, <2>2, <3>1
  <2>3. CASE n > 2
    BY <1>1, <2>3
  <2>. QED BY <1>1, <2>1, <2>2, <2>3
<1>9. ASSUME stream[n].type = "EMULATOR_CONTEXT"
      PROVE  PageAt(n - 3)' = PageAt(n - 2)
  <2>1. CASE n = 1
    BY <1>5, <1>9, <2>1
  <2>2. n > 1 => stream[n - 1].type = "CHECKPOINT"
    BY <1>1, <1>6, <1>9
  <2>3. CASE n = 2
    BY <1>5, <2>2, <2>3
  <2>4. CASE n = 3
    <3>1. stream[1].type = "PAGE_DATA"
      BY <1>6, <2>2, <2>4
    <3>. QED BY <1>5, <2>4, <3>1
  <2>5. CASE n > 3
    BY <1>1, <2>5
  <2>. QED BY <1>1, <2>1, <2>3, <2>4, <2>5
<1>10. /\ PageAt(Len(stream))' = PageAt(n - 1)' /\ PageAt(Len(stream) - 1)' = PageAt(n - 2)'
      /\ PageAt(Len(stream) - 2)' = PageAt(n - 3)'
  BY <1>1 DEF PageAt
<1>. QED BY <1>0, <1>2, <1>4, <1>7, <1>8, <1>9, <1>10

(* A step that leaves the primary alone but may break the link, lose        *)
(* records or end the restore.                                              *)
LEMMA WriterBroken ==
  ASSUME WriterInv, UNCHANGED saveVars, primary' # "up" \/ link' # "up"
  PROVE  WriterInv'
BY DEF WriterInv, Granted, saveVars, modeVars, guestVars, helperVars

LEMMA WriterRead ==
  ASSUME ChannelTypeOK, RestoreTypeOK, StreamInv, WriterInv, ReadStep, UNCHANGED <<saveVars, primary>>
  PROVE  WriterInv'
<1>1. UNCHANGED <<link, lost>>
  BY ReadKeeps DEF saveVars, modeVars
<1>. QED BY <1>1, ViewRead DEF WriterInv, Granted, Resuming, saveVars, modeVars, guestVars, helperVars

(* Every step keeps the stream in order and the primary's place in it. *)
LEMMA StreamStep ==
  ASSUME RemusTypeOK, TurnsInv, StreamInv, WriterInv, [Next]_vars
  PROVE  StreamInv' /\ WriterInv'
<1>0. ChannelTypeOK /\ RestoreTypeOK
  BY DEF RemusTypeOK
<1>1. CASE Helper
  BY <1>1, HelperStream DEF Helper
<1>2. CASE Libxl
  BY <1>2, LibxlStream DEF Libxl
<1>3. CASE Guest
  BY <1>3, GuestStream DEF Guest
<1>4. CASE Backup
  <2>1. StreamInv'
    BY <1>0, <1>4, BackupStream DEF Backup, saveVars, modeVars
  <2>2. CASE ReadStep
    BY <1>0, <1>4, <2>1, <2>2, WriterRead DEF Backup, failVars
  <2>3. CASE BrokenChannel \/ \E eof, half \in BOOLEAN : BrokenInCheckpoint(eof, half)
    BY <1>4, <2>1, <2>3, WriterBroken DEF Backup, BrokenChannel, BrokenInCheckpoint, chanVars
  <2>. QED BY <1>4, <2>2, <2>3 DEF Backup, RestoreStep, ReadStep
<1>5. CASE run_helper
  BY <1>0, <1>5, StreamRead, WriterRead DEF run_helper, ReadStep, saveVars, modeVars
<1>6. CASE OpenFifo
  <2>1. StreamInv'
    BY <1>6, StreamFrame DEF OpenFifo, chanVars, saveVars, modeVars
  <2>. QED BY <1>6, <2>1, ViewFrame
       DEF OpenFifo, chanVars, WriterInv, Granted, Resuming, saveVars, modeVars, guestVars, helperVars
<1>7. CASE ReceiverFires \/ PrimaryCrashes \/ CutLink
  <2>1. /\ Lose /\ UNCHANGED <<saveVars, restoreVars>> /\ (link # "up" => link' # "up")
        /\ primary' # "up" \/ link' # "up"
    BY <1>7 DEF ReceiverFires, PrimaryCrashes, CutLink
  <2>2. StreamInv'
    BY <1>0, <2>1, StreamLose DEF saveVars, modeVars
  <2>. QED BY <2>1, <2>2, WriterBroken
<1>8. CASE BackupFaults
  <2>1. StreamInv'
    BY <1>0, <1>8, BackupStream DEF BackupFaults, saveVars, modeVars
  <2>. QED BY <1>8, <2>1, WriterBroken DEF BackupFaults, BackupError
<1>9. CASE UNCHANGED vars
  <2>1. StreamInv'
    BY <1>9, StreamFrame DEF vars, chanVars, saveVars, modeVars
  <2>. QED BY <1>9, <2>1, ViewFrame
       DEF vars, failVars, chanVars, WriterInv, Granted, Resuming, saveVars, modeVars, guestVars, helperVars
<1>. QED BY <1>1, <1>2, <1>3, <1>4, <1>5, <1>6, <1>7, <1>8, <1>9 DEF Next, Receiver

LEMMA WriterInit == Init => WriterInv
<1>. SUFFICES ASSUME Init PROVE WriterInv
  OBVIOUS
<1>1. Len(stream) = 0 /\ LastRead = "none"
  BY DEF Init, ChannelInit, RestoreInit, LastRead
<1>. QED BY <1>1 DEF Init, SaveInit, WriterInv, Granted, Resuming, LastWritten, Before

(* The records under way continue what the backup has read and are what the *)
(* primary has written, for a patient guest.                                *)
THEOREM StreamCorrect ==
  ASSUME PatientGuest
  PROVE  Spec => [](StreamInv /\ WriterInv)
<1>1. Init => StreamInv /\ WriterInv
  BY StreamInit, WriterInit
<1>2. RemusTypeOK /\ TurnsInv /\ StreamInv /\ WriterInv /\ [Next]_vars => (StreamInv /\ WriterInv)'
  BY StreamStep
<1>. QED BY <1>1, <1>2, RemusTypeCorrect, TurnsCorrect, PTL DEF Spec

(* A guest activated at the backup is one that existed at the primary: its  *)
(* memory and its device model are of the same checkpoint, wherever the     *)
(* stream broke off, however long it is and whatever failed, for a guest    *)
(* that writes its node only when a checkpoint is awaited (xc_sr_restore.c, *)
(* libxl_stream_read.c).                                                    *)
THEOREM BackupConsistentCorrect ==
  ASSUME PatientGuest
  PROVE  Spec => []BackupConsistent
<1>1. StreamInv => BackupConsistent
  BY DEF StreamInv, BackupConsistent
<1>. QED BY <1>1, StreamCorrect, PTL
=============================================================================
