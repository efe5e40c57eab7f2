----------------------------- MODULE RemusSave ------------------------------
(***************************************************************************)
(* The primary host of CPS-Remus: the guest, the save helper (the loop of  *)
(* tools/libxc/xc_sr_save.c, a process of its own) and libxl's event loop  *)
(* (libxl_remus.c, libxl_save_callout.c, libxl_stream_write.c) inside      *)
(* xl remus.  The helper asks libxl over a pipe to suspend the guest, to   *)
(* resume it and to finish the checkpoint, and blocks until an answer      *)
(* arrives; both write to the one migration stream in turn.                *)
(*                                                                         *)
(* The guest's state is a version number, from 1, that grows while it      *)
(* runs.  In event-driven mode a watch on a xenstore node the guest writes *)
(* gives the answer that starts the next checkpoint, in periodic mode a    *)
(* timer.                                                                  *)
(***************************************************************************)
EXTENDS CheckpointDevices, Channel

CONSTANTS
  Types,         \* kinds of guest tried, of "PV" and "HVM"
  Modes,         \* values of event_driven tried
  PatientGuest,  \* the guest writes its node only when a checkpoint is awaited
  MaxVersion, MaxEvents

ASSUME SaveAssumption ==
  /\ Types \subseteq {"PV", "HVM"} /\ Modes \subseteq BOOLEAN
  /\ PatientGuest \in BOOLEAN
  /\ MaxVersion \in Nat \ {0} /\ MaxEvents \in Nat \ {0}

VARIABLES
  guestType, eventDriven,   \* of the protected domain, fixed
  guest,        \* "running", "asked" to suspend, "suspended", or "stuck":
                \* suspended, and the last attempt to resume it has failed
  version,      \* its state
  dmSave,       \* the version of the device model's state in its file
  helper,       \* where the save helper is; in Waits it awaits an answer
  asked,        \* its request is in the pipe, unread by libxl
  replies,      \* answers in the other pipe, unread by the helper
  libxl,        \* what the event loop is waiting for
  completions,  \* times the save has been reported complete
  watch,        \* cpsremus_watch is registered
  events        \* its events not yet delivered

modeVars == <<guestType, eventDriven>>
guestVars == <<guest, version>>
helperVars == <<helper, asked, replies>>
watchVars == <<watch, events>>
saveVars == <<modeVars, guestVars, dmSave, helperVars, libxl, completions, watchVars, devVars>>

Waits == {"suspend", "postcopy", "checkpoint"}

SaveTypeOK ==
  /\ guestType \in Types /\ eventDriven \in Modes
  /\ guest \in {"running", "asked", "suspended", "stuck"}
  /\ version \in 1 .. MaxVersion /\ dmSave \in 0 .. MaxVersion
  /\ helper \in Waits \cup {"none", "live", "send", "record", "exited", "reaped"}
  /\ asked \in BOOLEAN /\ replies \in Seq({0, 1})
  /\ libxl \in {"new", "setup", "idle", "suspend", "preresume", "stream", "end",
                "timer", "watch", "teardown", "done", "ended"}
  /\ completions \in Nat /\ watch \in BOOLEAN /\ events \in 0 .. MaxEvents
  /\ DevicesTypeOK

SaveInit ==
  /\ guestType \in Types /\ eventDriven \in Modes
  /\ guest = "running" /\ version = 1 /\ dmSave = 0
  /\ helper = "none" /\ asked = FALSE /\ replies = << >>
  /\ libxl = "new" /\ completions = 0 /\ watch = FALSE /\ events = 0
  /\ DevicesInit

-----------------------------------------------------------------------------
(* The save helper. *)

Ask(request) == helper' = request /\ asked' = TRUE
Becomes(state) == helper' = state /\ UNCHANGED asked

helperFrame == <<modeVars, guestVars, dmSave, libxl, completions, watchVars, devVars>>

(* The live rounds: memory goes over while the guest runs.  What they bring *)
(* is no consistent state and is overwritten by the first checkpoint.       *)
send_domain_memory_live ==
  /\ helper = "live"
  /\ \/ Ask("suspend")
     \/ link # "up" /\ Becomes("exited")
  /\ UNCHANGED <<replies, chanVars, helperFrame>>

suspend_and_send_dirty ==
  /\ helper = "send"
  /\ \/ Write(Rec("PAGE_DATA", version)) /\ Becomes("record")
     \/ WriteFails /\ Becomes("exited")
  /\ UNCHANGED <<replies, helperFrame>>

write_checkpoint_record ==
  /\ helper = "record"
  /\ \/ Write(Rec("CHECKPOINT", 0)) /\ Ask("postcopy")
     \/ WriteFails /\ Becomes("exited")
  /\ UNCHANGED <<replies, helperFrame>>

(* A good answer to the first request: the helper confirms that the guest   *)
(* is suspended.                                                            *)
suspend_domain == Becomes(IF guest = "suspended" THEN "send" ELSE "exited")

helper_getreply ==
  /\ helper \in Waits /\ replies # << >>
  /\ replies' = Tail(replies)
  /\ IF Head(replies) = 0
     THEN Becomes("exited")
     ELSE CASE helper = "suspend"    -> suspend_domain
            [] helper = "postcopy"   -> Ask("checkpoint")
            [] helper = "checkpoint" -> Ask("suspend")
  /\ UNCHANGED <<chanVars, helperFrame>>

HelperStep ==
  send_domain_memory_live \/ suspend_and_send_dirty \/ write_checkpoint_record \/ helper_getreply

-----------------------------------------------------------------------------
(* libxl: set-up, start of the save, its end and teardown. *)

(* An answer for a helper that is gone is written in vain. *)
sendreply(r) == replies' = IF helper = "exited" THEN replies ELSE Append(replies, r)

libxl__checkpoint_devices_teardown(ds) ==
  multidev_begin(ds) /\ libxl' = IF ds = {} THEN "done" ELSE "teardown"

libxl__remus_setup ==
  /\ libxl = "new"
  /\ \/ libxl' = "setup" /\ devices_setup /\ UNCHANGED <<installed, nicVars>>
     \/ DevicesFail /\ libxl' = "done" /\ UNCHANGED devVars
  /\ UNCHANGED <<modeVars, guestVars, dmSave, helperVars, completions, watchVars, chanVars>>

(* The stream's headers, then the helper. *)
libxl__domain_save ==
  \/ /\ Write(Rec("LIBXC_CONTEXT", 0)) /\ helper' = "live" /\ libxl' = "idle"
     /\ busy' = {} /\ failed' = FALSE /\ UNCHANGED completions
  \/ /\ WriteFails /\ libxl__checkpoint_devices_teardown(matched')
     /\ completions' = completions + 1 /\ UNCHANGED helper

(* A device is set up, or not; after the last of them remus_setup_done(). *)
DeviceSetUp(d, ok) ==
  /\ libxl = "setup" /\ d \in busy /\ May(ok)
  /\ SetUp(d, ok)
  /\ \/ /\ busy # {d} /\ multidev_one_callback(d, ok)
        /\ UNCHANGED <<libxl, helper, completions, chanVars>>
     \/ busy = {d} /\ ok /\ ~failed /\ libxl__domain_save
     \/ /\ busy = {d} /\ (failed \/ ~ok) /\ libxl__checkpoint_devices_teardown(matched')
        /\ UNCHANGED <<helper, completions, chanVars>>
  /\ UNCHANGED <<modeVars, guestVars, dmSave, asked, replies, watchVars, nicVars>>

(* The helper is reaped: the save is complete, the devices are torn down. *)
helper_exited ==
  /\ helper = "exited" /\ helper' = "reaped" /\ asked' = FALSE /\ replies' = << >>
  /\ completions' = completions + 1
  /\ libxl__checkpoint_devices_teardown(matched)
  /\ UNCHANGED <<modeVars, guestVars, dmSave, watchVars, matched, installed, nicVars, chanVars>>

DeviceTornDown(d, ok) ==
  /\ libxl = "teardown" /\ d \in busy /\ May(ok) /\ (d \in Disks => ok)
  /\ TearDown(d, ok) /\ multidev_one_callback(d, ok)
  /\ libxl' = IF busy = {d} THEN "done" ELSE libxl
  /\ UNCHANGED <<modeVars, guestVars, dmSave, helperVars, completions, watchVars, matched,
                 closedAt, released, chanVars>>

(* Slip: the guest is not resumed at the end of the session. *)
Main_NoResume ==
  /\ libxl = "done" /\ libxl' = "ended"
  /\ link' = IF link = "up" THEN "closed" ELSE link
  /\ UNCHANGED <<modeVars, guestVars, dmSave, helperVars, completions, watchVars, devVars,
                 stream, lost>>

(* libxl_domain_remus_start() has returned: main_remus() resumes the guest, *)
(* which has no effect on one that is not suspended, and closes the stream. *)
(* Its result is not looked at and nobody tries again.  The branch for      *)
(* ERROR_GUEST_TIMEDOUT is never taken: the renaming of the domain before   *)
(* it overwrites rc.                                                        *)
main_remus ==
  /\ libxl = "done" /\ libxl' = "ended"
  /\ IF guest = "suspended" THEN \E ok \in BOOLEAN :
          May(ok) /\ guest' = IF ok THEN "running" ELSE "stuck"
     ELSE UNCHANGED guest
  /\ link' = IF link = "up" THEN "closed" ELSE link
  /\ UNCHANGED <<modeVars, version, dmSave, helperVars, completions, watchVars, devVars,
                 stream, lost>>

-----------------------------------------------------------------------------
(* libxl: the three callbacks of the helper. *)

Requested(request) ==
  helper = request /\ asked /\ asked' = FALSE /\ UNCHANGED <<helper, modeVars, version>>

libxl__remus_domain_suspend_callback ==
  /\ Requested("suspend") /\ libxl' = "suspend"
  /\ guest' = IF guest = "running" THEN "asked" ELSE guest
  /\ UNCHANGED <<dmSave, replies, completions, watchVars, devVars, chanVars>>

(* The guest is seen suspended: the device model's state is written to its  *)
(* file, the epochs of the network buffers are closed.                      *)
domain_suspend_common_guest_suspended(dmOk, bad) ==
  /\ libxl = "suspend" /\ guest = "suspended" /\ libxl' = "idle"
  /\ May(dmOk /\ bad = {}) /\ (guestType = "PV" => dmOk)
  /\ IF dmOk
     THEN /\ dmSave' = IF guestType = "HVM" THEN version ELSE dmSave
          /\ devices_postsuspend(bad, version)
          /\ sendreply(IF bad = {} THEN 1 ELSE 0)
     ELSE sendreply(0) /\ UNCHANGED <<dmSave, nicVars>>
  /\ UNCHANGED <<modeVars, guestVars, helper, asked, completions, watchVars, busy, failed,
                 matched, installed, chanVars>>

(* Slip: the time-out gives up without an answer. *)
Timeout_Silent ==
  /\ libxl = "suspend" /\ libxl' = "idle"
  /\ guest' \in {guest, "running"} /\ (guest = "suspended" => guest' = guest)
  /\ UNCHANGED <<modeVars, version, dmSave, helperVars, completions, watchVars, devVars,
                 chanVars>>

(* The guest took too long.  A request made through xenstore is withdrawn   *)
(* if the guest has not acknowledged it; otherwise it may still suspend.    *)
suspend_common_wait_guest_timeout ==
  /\ libxl = "suspend" /\ libxl' = "idle"
  /\ guest' \in {guest, "running"} /\ (guest = "suspended" => guest' = guest)
  /\ sendreply(0)
  /\ UNCHANGED <<modeVars, version, dmSave, helper, asked, completions, watchVars, devVars,
                 chanVars>>

(* A failure of the device model or of the hypervisor leaves the guest      *)
(* suspended; when xenstore, which comes last, fails it is running already. *)
libxl__domain_resume(ok) ==
  /\ May(ok) /\ guest' \in IF ok THEN {"running"} ELSE {guest, "running"}
  /\ sendreply(IF ok THEN 1 ELSE 0) /\ libxl' = "idle"

libxl__remus_domain_resume_callback ==
  /\ Requested("postcopy")
  /\ IF PreresumeDevices = {}
     THEN (\E ok \in BOOLEAN : libxl__domain_resume(ok)) /\ UNCHANGED <<busy, failed>>
     ELSE libxl' = "preresume" /\ multidev_begin(PreresumeDevices) /\ UNCHANGED <<guest, replies>>
  /\ UNCHANGED <<dmSave, completions, watchVars, matched, installed, nicVars, chanVars>>

(* A disk is done waiting; after the last one remus_devices_preresume_cb(). *)
DevicePreresumed(d, ok) ==
  /\ libxl = "preresume" /\ d \in busy /\ May(ok)
  /\ multidev_one_callback(d, ok)
  /\ \/ busy # {d} /\ UNCHANGED <<guest, replies, libxl>>
     \/ busy = {d} /\ ok /\ ~failed /\ \E resumed \in BOOLEAN : libxl__domain_resume(resumed)
     \/ busy = {d} /\ (failed \/ ~ok) /\ sendreply(0) /\ libxl' = "idle" /\ UNCHANGED guest
  /\ UNCHANGED <<modeVars, version, dmSave, helper, asked, completions, watchVars, matched,
                 installed, nicVars, chanVars>>

libxl__remus_domain_save_checkpoint_callback ==
  /\ Requested("checkpoint")
  /\ libxl' = IF guestType = "HVM" THEN "stream" ELSE "end"
  /\ UNCHANGED <<guest, dmSave, replies, completions, watchVars, devVars, chanVars>>

(* The device model's xenstore data and its state, two records, as one.     *)
(* Reading either may fail.                                                 *)
write_emulator_context_record ==
  /\ libxl = "stream"
  /\ \/ Write(Rec("EMULATOR_CONTEXT", dmSave)) /\ libxl' = "end" /\ UNCHANGED replies
     \/ WriteFails /\ sendreply(0) /\ libxl' = "idle"
     \/ DevicesFail /\ sendreply(0) /\ libxl' = "idle" /\ UNCHANGED chanVars
  /\ UNCHANGED <<modeVars, guestVars, dmSave, helper, asked, completions, watchVars, devVars>>

(* The watch, registered at the first checkpoint, which makes it fire once. *)
(* A failure to register it goes unnoticed.                                 *)
AwaitEvent ==
  /\ libxl' = "watch" /\ UNCHANGED replies
  /\ \/ watch /\ UNCHANGED watchVars
     \/ ~watch /\ watch' = TRUE /\ events' = 1
     \/ ~watch /\ DevicesFail /\ UNCHANGED watchVars

(* The timer; a failure to register it is answered with 0. *)
AwaitTimer ==
  /\ \/ libxl' = "timer" /\ UNCHANGED replies
     \/ DevicesFail /\ sendreply(0) /\ libxl' = "idle"
  /\ UNCHANGED watchVars

AwaitNext == IF eventDriven THEN AwaitEvent ELSE AwaitTimer

(* Slip: the timer is armed and the helper answered at once. *)
End_Twice(bad) ==
  /\ libxl = "end" /\ May(bad = {})
  /\ \/ /\ Write(Rec("CHECKPOINT_END", 0)) /\ devices_commit(bad, version)
        /\ IF eventDriven THEN AwaitEvent
                          ELSE libxl' = "timer" /\ sendreply(1) /\ UNCHANGED watchVars
     \/ WriteFails /\ sendreply(0) /\ libxl' = "idle" /\ UNCHANGED <<nicVars, watchVars>>
  /\ UNCHANGED <<modeVars, guestVars, dmSave, helper, asked, completions, busy, failed,
                 matched, installed>>

(* The checkpoint is written: the output it covers is let out.  bad are the *)
(* devices whose commit fails.                                              *)
remus_checkpoint_stream_written(bad) ==
  /\ libxl = "end" /\ May(bad = {})
  /\ \/ /\ Write(Rec("CHECKPOINT_END", 0)) /\ devices_commit(bad, version)
        /\ IF bad = {} THEN AwaitNext
                       ELSE sendreply(0) /\ libxl' = "idle" /\ UNCHANGED watchVars
     \/ WriteFails /\ sendreply(0) /\ libxl' = "idle" /\ UNCHANGED <<nicVars, watchVars>>
  /\ UNCHANGED <<modeVars, guestVars, dmSave, helper, asked, completions, busy, failed,
                 matched, installed>>

(* The timer fires, or ends with an error. *)
remus_next_checkpoint(ok) ==
  /\ libxl = "timer" /\ May(ok) /\ sendreply(IF ok THEN 1 ELSE 0) /\ libxl' = "idle"
  /\ UNCHANGED <<modeVars, guestVars, dmSave, helper, asked, completions, watchVars, devVars,
                 chanVars>>

(* Whatever libxl is doing, the watch answers the helper; once that is      *)
(* reaped the write fails and the save is reported complete again.          *)
cpsremus_next_checkpoint ==
  /\ watch /\ events > 0 /\ libxl \notin {"done", "ended"}
  /\ events' = events - 1
  /\ IF helper = "reaped"
     THEN /\ completions' = completions + 1
          /\ libxl__checkpoint_devices_teardown(matched) /\ UNCHANGED replies
     ELSE /\ sendreply(1) /\ libxl' = IF libxl = "watch" THEN "idle" ELSE libxl
          /\ UNCHANGED <<completions, busy, failed>>
  /\ UNCHANGED <<modeVars, guestVars, dmSave, helper, asked, watch, matched, installed,
                 nicVars, chanVars>>

LibxlStep ==
  \/ libxl__remus_setup \/ helper_exited \/ main_remus
  \/ \E d \in Devices, ok \in BOOLEAN :
       DeviceSetUp(d, ok) \/ DevicePreresumed(d, ok) \/ DeviceTornDown(d, ok)
  \/ libxl__remus_domain_suspend_callback \/ suspend_common_wait_guest_timeout
  \/ libxl__remus_domain_resume_callback
  \/ libxl__remus_domain_save_checkpoint_callback \/ write_emulator_context_record
  \/ \E bad \in SUBSET (Nics \cap matched) :
       \/ remus_checkpoint_stream_written(bad)
       \/ \E dmOk \in BOOLEAN : domain_suspend_common_guest_suspended(dmOk, bad)
  \/ (\E ok \in BOOLEAN : remus_next_checkpoint(ok)) \/ cpsremus_next_checkpoint

-----------------------------------------------------------------------------
(* The guest: external to the program. *)

guestFrame == <<modeVars, dmSave, helperVars, libxl, completions, chanVars>>

GuestRuns ==
  /\ guest = "running" /\ version < MaxVersion
  /\ version' = version + 1 /\ GuestSends(version')
  /\ UNCHANGED <<guest, watchVars, guestFrame>>

GuestSuspends ==
  /\ guest = "asked" /\ guest' = "suspended"
  /\ UNCHANGED <<version, watchVars, devVars, guestFrame>>

(* The guest writes the node the watch is on. *)
GuestWrites ==
  /\ watch /\ guest \notin {"suspended", "stuck"} /\ events < MaxEvents
  /\ PatientGuest => libxl = "watch" /\ events = 0
  /\ events' = events + 1
  /\ UNCHANGED <<guestVars, watch, devVars, guestFrame>>

GuestStep == GuestRuns \/ GuestSuspends \/ GuestWrites
=============================================================================
