------------------------------ MODULE Channel -------------------------------
(***************************************************************************)
(* The migration stream between two hosts: pipes and an ssh connection.  A *)
(* record that has been written may still be under way; when the writing   *)
(* host stops, the connection breaks or the reader's ssh is killed, any    *)
(* part of what is under way is lost, from the end.                        *)
(***************************************************************************)
EXTENDS Integers, Sequences

CONSTANT MaxStream   \* records the pipes and buffers hold

ASSUME ChannelAssumption == MaxStream \in Nat \ {0}

VARIABLES
  stream,  \* records under way
  link,    \* "up", "cut" (nothing arrives, no error yet) or "closed"
  lost     \* some record that was written will never arrive

chanVars == <<stream, link, lost>>

RecordTypes == {"LIBXC_CONTEXT", "PAGE_DATA", "CHECKPOINT", "EMULATOR_CONTEXT",
                "CHECKPOINT_END"}

(* A record; ver is the version of the guest its data is of, or 0. *)
Rec(t, v) == [type |-> t, ver |-> v]

ChannelTypeOK ==
  /\ stream \in Seq([type : RecordTypes, ver : Nat]) /\ Len(stream) <= MaxStream
  /\ link \in {"up", "cut", "closed"}
  /\ lost \in BOOLEAN

ChannelInit == stream = << >> /\ link = "up" /\ lost = FALSE

(* A write that succeeds, although nothing may arrive. *)
Write(rec) ==
  /\ \/ link = "up" /\ Len(stream) < MaxStream /\ stream' = Append(stream, rec)
        /\ UNCHANGED lost
     \/ link = "cut" /\ lost' = TRUE /\ UNCHANGED stream
  /\ UNCHANGED link

WriteFails == link # "up" /\ UNCHANGED chanVars

Lose ==
  \E k \in 0 .. Len(stream) :
    stream' = SubSeq(stream, 1, k) /\ lost' = (lost \/ k < Len(stream))
=============================================================================
