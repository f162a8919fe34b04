------------------------ MODULE AttestationLifecycle -----------------------
(***************************************************************************)
(* What the registry promises to those who only read it (the insurance     *)
(* contract's cross-contract get_attestation, the SDK, the dashboards):    *)
(* a published record is never rewritten and never disappears, only its    *)
(* status advances, and only along                                         *)
(*     Active -> Finalized    or    Active -> Challenged -> a verdict.     *)
(* AttestationRegistry implements this; Insurance is built on it.          *)
(***************************************************************************)
EXTENDS Naturals

CONSTANTS
    Attestors,       \* who may publish
    ModelIds,        \* the model ids a record may name
    Commitments,     \* what a record may commit to
    MaxAttestations  \* bound: how many records are published

VARIABLE records     \* id -> what a reader sees of the attestation

Published == DOMAIN records

Record ==
    [attestor: Attestors, model_id: ModelIds, commitment: Commitments,
     status: {"Active", "Challenged", "Slashed", "Finalized"}]

(* The next id is the number of records so far.                            *)
Publish(attestor, model_id, commitment) ==
    \E id \in 0 .. MaxAttestations - 1 :
        /\ Published = 0 .. id - 1
        /\ records' =
             [i \in 0 .. id |->
                 IF i < id THEN records[i]
                 ELSE [attestor |-> attestor, model_id |-> model_id,
                       commitment |-> commitment, status |-> "Active"]]

Advance(id, from, to) ==
    /\ id \in Published
    /\ records[id].status = from
    /\ records' = [records EXCEPT ![id].status = to]

Dispute(id) == Advance(id, "Active", "Challenged")
Rule(id, verdict) == Advance(id, "Challenged", verdict)
Lapse(id) == Advance(id, "Active", "Finalized")

LifecycleInit == records = [id \in {} |-> 0]

LifecycleNext ==
    \/ \E a \in Attestors, m \in ModelIds, c \in Commitments : Publish(a, m, c)
    \/ \E id \in Published :
          \/ Dispute(id)
          \/ \E verdict \in {"Slashed", "Finalized"} : Rule(id, verdict)
          \/ Lapse(id)

LifecycleSpec == LifecycleInit /\ [][LifecycleNext]_records
=============================================================================
