------------------------------ MODULE Dispatch ------------------------------
(***************************************************************************)
(* What the scheduler promises about the contexts of vCPUs, without        *)
(* queues, priorities, flags or locks: a pCPU takes a vCPU that nobody     *)
(* holds and that may run on it, and later drops it; the pCPUs a vCPU may  *)
(* run on change only while nobody holds it.                               *)
(***************************************************************************)
CONSTANTS Cpus, Vcpus

VARIABLES
  held,      \* the vCPUs whose register context a pCPU holds
  affinity   \* the pCPUs a vCPU may run on

dispatchVars == <<held, affinity>>

Free(v) == \A c \in Cpus : v \notin held[c]

DispatchInit ==
  /\ held = [c \in Cpus |-> {}]
  /\ affinity = [v \in Vcpus |-> Cpus]

(* While a pCPU switches it still holds the vCPU it leaves: at most two.   *)
Take(c, v) ==
  /\ Free(v) /\ c \in affinity[v]
  /\ \A u, w \in held[c] : u = w
  /\ held' = [held EXCEPT ![c] = @ \cup {v}]
  /\ UNCHANGED affinity

Drop(c, v) ==
  /\ v \in held[c]
  /\ held' = [held EXCEPT ![c] = @ \ {v}]
  /\ UNCHANGED affinity

Repin(v, mask) ==
  /\ Free(v)
  /\ affinity' = [affinity EXCEPT ![v] = mask]
  /\ UNCHANGED held

DispatchNext ==
  \E v \in Vcpus : \/ \E c \in Cpus : Take(c, v) \/ Drop(c, v)
                   \/ \E mask \in SUBSET Cpus : Repin(v, mask)

DispatchSpec == DispatchInit /\ [][DispatchNext]_dispatchVars
=============================================================================
