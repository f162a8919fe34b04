----------------------------- MODULE RestBackend ----------------------------
(***************************************************************************)
(* packages/sdk/src/rest-backend.ts and errors.ts: how a read of the live  *)
(* SDK ends, attempt by attempt.  An HTTP answer is its status and what    *)
(* its body says; status 0 is no answer at all, a network error or the     *)
(* abort after timeoutMs.  The delays between attempts are left out.       *)
(***************************************************************************)
EXTENDS Naturals

CONSTANT Retries    \* config.retries

ASSUME RetriesAssumption == Retries \in Nat

STATUS_BY_CODE ==
    [ATTESTATION_NOT_FOUND |-> 404, POLICY_NOT_FOUND |-> 404,
     INSUFFICIENT_STAKE |-> 422, TAMPERED_PAYLOAD |-> 422,
     TRIGGER_NOT_COVERED |-> 422, DISPUTE_WINDOW_CLOSED |-> 409,
     ALREADY_CHALLENGED |-> 409, ATTESTATION_NOT_ACTIVE |-> 409,
     POLICY_EXPIRED |-> 409, VAULT_INSOLVENT |-> 409, UNAUTHORIZED |-> 403,
     PAYLOAD_UNAVAILABLE |-> 502, PAYMENT_REQUIRED |-> 402,
     INTERNAL_ERROR |-> 500]

ErrorCodes == DOMAIN STATUS_BY_CODE

CODE_BY_STATUS(status) ==
    CASE status = 402 -> "PAYMENT_REQUIRED"
      [] status = 403 -> "UNAUTHORIZED"
      [] status = 404 -> "ATTESTATION_NOT_FOUND"
      [] status = 409 -> "ATTESTATION_NOT_ACTIVE"
      [] status = 422 -> "TAMPERED_PAYLOAD"
      [] status = 502 -> "PAYLOAD_UNAVAILABLE"
      [] OTHER -> "INTERNAL_ERROR"

(* The code in a problem body is preferred to the status.                  *)
errorFromProblem(status, body) ==
    IF body \in ErrorCodes THEN body ELSE CODE_BY_STATUS(status)

RETRYABLE_STATUSES == {429, 502, 503, 504}

(* Mutation: the last error of the loop is taken for a missing record.     *)
getLosingErrors(attempt, status, body) ==
    IF status = 200 /\ body = "json" THEN "value"
    ELSE IF status \in {0, 200} \cup RETRYABLE_STATUSES /\ attempt < Retries
    THEN "retry"
    ELSE "ATTESTATION_NOT_FOUND"

(* Mutation: the bound on the attempts is off by one.                      *)
getOnceMore(attempt, status, body) ==
    IF status = 200 /\ body = "json" THEN "value"
    ELSE IF status \in {0, 200} \cup RETRYABLE_STATUSES /\ attempt <= Retries
    THEN "retry"
    ELSE errorFromProblem(status, body)

(* One turn of the loop in get: the value, another attempt, or the error   *)
(* thrown.  A 200 whose body does not parse counts as a network error.     *)
get(attempt, status, body) ==
    IF status = 200 /\ body = "json" THEN "value"
    ELSE CASE status \in {0, 200} \cup RETRYABLE_STATUSES
              /\ attempt < Retries -> "retry"
           [] status \in {0, 200} /\ attempt = Retries -> "INTERNAL_ERROR"
           [] OTHER -> errorFromProblem(status, body)
=============================================================================
