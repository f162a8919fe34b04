----------------------------- MODULE X402Server -----------------------------
(***************************************************************************)
(* apps/x402-server: two routes behind a payment gate.  A request names an *)
(* id and may carry a payment header; once the payment is accepted it is   *)
(* spent, whatever comes of the request.                                   *)
(***************************************************************************)
EXTENDS AgentTasks

CONSTANTS
    AskedIds,   \* the ids clients ask for
    Malformed   \* what is no id

(* With neither a facilitator nor the opt-in to the mock, a production     *)
(* process accepts no payment.                                             *)
MockOptedIn(env) == env.x402Mock \/ (~env.facilitator /\ ~env.production)

createPaymentVerifier(env) ==
    CASE MockOptedIn(env) -> "mock"
      [] ~MockOptedIn(env) /\ env.facilitator -> "facilitator"
      [] OTHER -> "deny"

(* What the verifier may say of a header: the facilitator may accept it,   *)
(* reject it, fail or be out of reach.                                     *)
Acceptable(header) ==
    CASE createPaymentVerifier(here) = "mock" -> {header = "header"}
      [] createPaymentVerifier(here) = "facilitator" ->
            {FALSE, header = "header"}
      [] OTHER -> {FALSE}

AskX402(s) ==
    /\ "x402" \in here.services
    /\ At(s, "free")
    /\ \E job \in {"read", "verify"}, id \in AskedIds \cup {Malformed},
          header \in {"header", "no header"} :
             Begin(s, Task("x402", job, "payment", id, Absent, header))
    /\ UNCHANGED <<records, storeVars, deployed>>

(* The gate and, behind it, the check of the id, before any read.          *)
requirePayment(s) ==
    /\ At(s, "payment")
    /\ \E accepted \in Acceptable(tasks[s].extra) :
          CASE ~accepted -> Answer(s, "PAYMENT_REQUIRED")
            [] accepted /\ tasks[s].id = Malformed -> Answer(s, "BAD_REQUEST")
            [] OTHER -> GoOn(s, "attestation")
    /\ UNCHANGED <<records, storeVars, deployed>>

handleError(outcome) ==
    CASE outcome = "missing" -> "PAYLOAD_UNAVAILABLE"
      [] outcome \in ErrorCodes \ {"ATTESTATION_NOT_FOUND"} -> "INTERNAL_ERROR"
      [] OTHER -> outcome

RespondX402(s) ==
    /\ At(s, "returned")
    /\ tasks[s].by = "x402"
    /\ Answer(s, handleError(tasks[s].answer))
    /\ UNCHANGED <<records, storeVars, deployed>>

X402Step(s) == requirePayment(s) \/ RespondX402(s)
=============================================================================
