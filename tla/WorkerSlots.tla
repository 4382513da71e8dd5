----------------------------- MODULE WorkerSlots -----------------------------
(* The pool of dynamic background workers (max_worker_processes) that build,  *)
(* maintenance and due-job workers share, and the calls users make on the job *)
(* functions.  load_dynamic() registers a worker at once: neither the commit  *)
(* nor the abort of the caller's transaction takes the registration back.     *)
EXTENDS Naturals

CONSTANTS
    MaxWorkers,   \* max_worker_processes, less what the server itself uses
    MaxCalls      \* bound: calls of job functions in one behaviour

ASSUME BoundsAssumption == MaxWorkers \in Nat /\ MaxCalls \in Nat

VARIABLES
    slots,        \* free worker slots
    calls         \* calls made so far

slotVars == <<slots, calls>>

SlotsInit == slots = MaxWorkers /\ calls = 0

SlotsTypeOK == slots \in 0..MaxWorkers /\ calls \in 0..MaxCalls

Called == calls < MaxCalls /\ calls' = calls + 1

\* BackgroundWorkerBuilder::load_dynamic() finds a slot, or fails.
load_dynamic == slots > 0 /\ slots' = slots - 1

\* Faulty: an exited worker is to be restarted and keeps its slot.
WorkerRestarts == slots' = slots

\* A worker's main function returned, or its process died (restart_time None).
WorkerExits == slots' = slots + 1
==============================================================================
