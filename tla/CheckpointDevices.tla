------------------------- MODULE CheckpointDevices --------------------------
(***************************************************************************)
(* The checkpoint devices of Remus, tools/libxl/libxl_checkpoint_device.c: *)
(* network buffers (libxl_netbuffer.c) and DRBD disks                      *)
(* (libxl_remus_disk_drbd.c).  An operation on all devices starts them     *)
(* together, waits for the ones that are asynchronous, and fails when one  *)
(* of them fails.                                                          *)
(*                                                                         *)
(* The plug qdisc that buffers a guest's packets is the kernel's: it lets  *)
(* everything through until the first "buffer", which closes an epoch; a   *)
(* "release" lets the packets of the closed epoch out.  A packet is known  *)
(* by the version of the guest that sent it.                               *)
(***************************************************************************)
EXTENDS Integers

CONSTANTS
  Nics, Disks,   \* the guest's network interfaces and disks
  DevicesFail    \* operations of devices, and libxl's other steps, may fail

ASSUME DevicesAssumption ==
  Nics \cap Disks = {} /\ Nics \cup Disks # {} /\ DevicesFail \in BOOLEAN

VARIABLES
  busy,       \* devices the operation under way waits for
  failed,     \* a device has failed in it
  matched,    \* dev->matched
  installed,  \* devices whose buffer or control file is in place
  plugged,    \* network interfaces whose packets are held back
  closedAt,   \* the guest's version when the last epoch was closed
  released    \* the newest version of the guest whose packets are out

nicVars == <<plugged, closedAt, released>>
devVars == <<busy, failed, matched, installed, nicVars>>

Devices == Nics \cup Disks

DevicesTypeOK ==
  /\ busy \subseteq Devices /\ failed \in BOOLEAN
  /\ matched \subseteq Devices /\ installed \subseteq Devices
  /\ plugged \subseteq Nics
  /\ closedAt \in [Nics -> Nat] /\ released \in [Nics -> Nat]

DevicesInit ==
  /\ busy = {} /\ failed = FALSE /\ matched = {} /\ installed = {} /\ plugged = {}
  /\ closedAt = [n \in Nics |-> 0] /\ released = [n \in Nics |-> 1]

(* Starting an operation on the devices in ds. *)
multidev_begin(ds) == busy' = ds /\ failed' = FALSE

(* Device d is done, others are not. *)
multidev_one_callback(d, ok) == busy' = busy \ {d} /\ failed' = (failed \/ ~ok)

May(ok) == ok \/ DevicesFail

(* nic_setup() marks the device before its script runs. *)
devices_setup == multidev_begin(Devices) /\ matched' = Nics

(* Slip: a network interface is marked only when its script succeeds. *)
SetUp_MarkLate(d, ok) ==
  /\ matched' = IF ok THEN matched \cup {d} ELSE matched \ {d}
  /\ IF ok THEN installed' = installed \cup {d}
           ELSE installed' \in {installed, installed \cup ({d} \cap Nics)}

(* The end of a device's set-up.  A script that fails may have installed    *)
(* the buffer; a disk that fails has matched when only its open() failed.   *)
SetUp(d, ok) ==
  /\ IF ok THEN matched' = matched \cup {d} ELSE matched' \in {matched, matched \cup {d}}
  /\ IF ok THEN installed' = installed \cup {d}
           ELSE installed' \in {installed, installed \cup ({d} \cap Nics)}

(* Slip: every matched device is taken for a network buffer. *)
Postsuspend_All(bad, version) ==
  /\ plugged' = plugged \cup (matched \ bad)
  /\ closedAt' = [n \in Nics |-> IF n \in matched \ bad THEN version ELSE closedAt[n]]
  /\ UNCHANGED released

(* Every matched interface but those of bad closes its epoch; the DRBD      *)
(* disks send a barrier.                                                    *)
devices_postsuspend(bad, version) ==
  LET good == (Nics \cap matched) \ bad
  IN  /\ plugged' = plugged \cup good
      /\ closedAt' = [n \in Nics |-> IF n \in good THEN version ELSE closedAt[n]]
      /\ UNCHANGED released

(* Slip: everything buffered is let out, the open epoch included. *)
Commit_All(bad, version) ==
  /\ released' = [n \in Nics |-> IF n \in matched \ bad THEN version ELSE released[n]]
  /\ UNCHANGED <<plugged, closedAt>>

devices_commit(bad, version) ==
  /\ released' = [n \in Nics |-> IF n \in matched \ bad THEN closedAt[n] ELSE released[n]]
  /\ UNCHANGED <<plugged, closedAt>>

(* The disks wait for the acknowledgement of their barrier. *)
PreresumeDevices == Disks \cap matched

(* A teardown script that fails leaves the buffer in place. *)
TearDown(d, ok) ==
  IF ok THEN installed' = installed \ {d} /\ plugged' = plugged \ {d}
        ELSE UNCHANGED <<installed, plugged>>

(* The guest reaches a version; its packets pass where nothing is plugged. *)
GuestSends(version) ==
  /\ released' = [n \in Nics |-> IF n \in plugged THEN released[n] ELSE version]
  /\ UNCHANGED <<busy, failed, matched, installed, plugged, closedAt>>
=============================================================================
