----------------------------- MODULE AgentTasks -----------------------------
(***************************************************************************)
(* What the services do with attestations: attest (attestor.ts), verify    *)
(* (verifier.ts), a plain read, and challenge, each a chain of awaits over *)
(* the SDK client and the payload store.  A task is one such chain; the    *)
(* chains of different tasks interleave at every await.  The chain leaves  *)
(* its outcome in the task, at stage "returned", for the server that began *)
(* it.  The registry is seen through the lifecycle it implements.          *)
(***************************************************************************)
EXTENDS AttestationLifecycle, PayloadStore, RestBackend

CONSTANTS
    Slots,          \* bound: as many tasks at a time
    RestReplies,    \* the answers of the REST API, as RestBackend reads them
    Environments    \* name -> what a process finds set, what runs in it, and
                    \* bounds: the payloads, what may come to lie in their
                    \* place, and room for how many records

(* A process is started with payloads that can be recorded.                *)
ASSUME EnvironmentsAssumption ==
    \A name \in DOMAIN Environments :
        LET env == Environments[name]
        IN  /\ {env.token, env.s3, env.facilitator, env.x402Mock,
                env.production, env.ollama} \subseteq BOOLEAN
            /\ env.payloads \subseteq Payloads \cap Commitments
            /\ env.spoilt \subseteq DOMAIN Content \cup {Absent, Garbled}

ASSUME SlotsAssumption == Slots # {}

(* A problem document has the status of its code.                          *)
ASSUME RepliesAssumption ==
    \A reply \in RestReplies :
        /\ reply.status \in Nat
        /\ reply.body \in ErrorCodes => STATUS_BY_CODE[reply.body] = reply.status

VARIABLES
    tasks,      \* slot -> the task there
    deployed    \* the name of the environment the process was started in

Jobs == {"get", "read", "verify", "attest", "challenge", "score", "buy",
         "claim", "none"}
Stages == {"free", "payment", "deciding", "sleeping", "attestation", "payload",
           "reputation", "put", "submit", "challenge", "policy", "returned",
           "answered"}
Outcomes == ErrorCodes \cup
    {"none", "attestation", "payload", "missing", "PASS", "FAIL", "attested",
     "challenged", "score", "policy", "paid", "nothing", "BAD_REQUEST"}

Task(by, job, stage, id, payload, extra) ==
    [by |-> by, job |-> job, stage |-> stage, id |-> id, payload |-> payload,
     extra |-> extra, policy |-> 0, attempt |-> 0, answer |-> "none"]

Free == Task("nobody", "none", "free", 0, Absent, "none")

At(s, stage) == tasks[s].stage = stage

Begin(s, task) == tasks' = [tasks EXCEPT ![s] = task]

GoOn(s, stage) ==
    tasks' = [tasks EXCEPT ![s].stage = stage, ![s].attempt = 0]

Return(s, outcome) ==
    tasks' = [tasks EXCEPT ![s].stage = "returned", ![s].attempt = 0,
                           ![s].answer = outcome]

(* The server has answered; of the task only its payment is remembered.    *)
Answer(s, outcome) ==
    Begin(s, [Task(tasks[s].by, "none", "answered", 0, Absent, tasks[s].extra)
                 EXCEPT !.answer = outcome])

here == Environments[deployed]

(* createClient and createStore choose by what the environment names.      *)
Live == here.token
Bucket == here.s3

(* Bound: how many records there are in this environment.                  *)
Room == Cardinality(Published) < here.room

(* One attempt of the client's get; it knows what the API's answer tells.  *)
Attempt(s, replies, Found) ==
    \E reply \in replies :
        LET turn == get(tasks[s].attempt, reply.status, reply.body)
        IN  CASE turn = "value" -> Found
              [] turn = "retry" ->
                    tasks' = [tasks EXCEPT ![s].attempt = @ + 1]
              [] OTHER -> Return(s, turn)

(* The API finds what is on the chain and nothing else.                    *)
Truthful(id) ==
    {reply \in RestReplies :
        /\ reply.status = 200 => id \in Published
        /\ reply.status = 404 => id \notin Published}

ReadAttestation(s) ==
    LET id == tasks[s].id
        Found == IF tasks[s].job = "get" THEN Return(s, "attestation")
                 ELSE GoOn(s, "payload")
    IN  /\ At(s, "attestation")
        /\ CASE Live -> Attempt(s, Truthful(id), Found)
             [] ~Live /\ id \in Published -> Found
             [] OTHER -> Return(s, "ATTESTATION_NOT_FOUND")
        /\ UNCHANGED <<records, storeVars, deployed>>

(* The payload store is read at the attestation's URI.  verify settles its *)
(* verdict here and keeps it over the next await.                          *)
ReadPayload(s) ==
    LET committed == records[tasks[s].id].commitment
        key == contentKey(committed)
        verdict == IF valid(objects[key], committed) THEN "PASS" ELSE "FAIL"
    IN  /\ At(s, "payload")
        /\ \/ /\ Bucket \/ getJsonThrows(key)
              /\ Return(s, IF tasks[s].job = "read" THEN "missing"
                           ELSE "INTERNAL_ERROR")
           \/ /\ ~getJsonThrows(key)
              /\ CASE tasks[s].job = "read" -> Return(s, "payload")
                   [] tasks[s].job = "verify" /\ ~Hashable(objects[key]) ->
                         Return(s, "INTERNAL_ERROR")
                   [] OTHER -> tasks' = [tasks EXCEPT ![s].stage = "reputation",
                                                      ![s].answer = verdict]
        /\ UNCHANGED <<records, storeVars, deployed>>

(* The API may know nothing of the attestor, and its 404 reads as one      *)
(* about the attestation.                                                  *)
ReadReputation(s) ==
    /\ At(s, "reputation")
    /\ IF Live THEN Attempt(s, RestReplies, Return(s, tasks[s].answer))
       ELSE Return(s, tasks[s].answer)
    /\ UNCHANGED <<records, storeVars, deployed>>

(* attest stores the payload first; the bucket may fail, and what callers  *)
(* of a tool hand in need not be canonical.                                *)
PutPayload(s) ==
    /\ At(s, "put")
    /\ \/ /\ Put(tasks[s].payload)
          /\ GoOn(s, "submit")
       \/ /\ Bucket \/ tasks[s].by = "mcp"
          /\ Return(s, "INTERNAL_ERROR")
          /\ UNCHANGED storeVars
    /\ UNCHANGED <<records, deployed>>

(* The live client answers a submission with a placeholder and the id 0,   *)
(* and nothing reaches the chain.                                          *)
SubmitPlaceholder(s) ==
    /\ Live
    /\ Return(s, "attested")
    /\ UNCHANGED records

(* A tool's caller, or what a runtime or the command line finds set, may   *)
(* name a stake below the minimum, or one that is no number.               *)
StakeIsGiven(s) ==
    tasks[s].by \in {"mcp", "runtime"} \/ "cli" \in here.services

SubmitMock(s) ==
    /\ ~Live
    /\ \/ /\ Room
          /\ \E a \in Attestors, m \in ModelIds :
                Publish(a, m, tasks[s].payload)
          /\ Return(s, "attested")
       \/ /\ StakeIsGiven(s)
          /\ \E code \in {"INSUFFICIENT_STAKE", "INTERNAL_ERROR"} : Return(s, code)
          /\ UNCHANGED records

Submit(s) ==
    /\ At(s, "submit")
    /\ SubmitPlaceholder(s) \/ SubmitMock(s)
    /\ UNCHANGED <<storeVars, deployed>>

(* A placeholder as well.                                                  *)
ChallengePlaceholder(s) ==
    /\ Live
    /\ Return(s, "challenged")
    /\ UNCHANGED records

ChallengeMock(s) ==
    LET id == tasks[s].id
        Refused(code) == Return(s, code) /\ UNCHANGED records
    IN  /\ ~Live
        /\ CASE id \notin Published -> Refused("ATTESTATION_NOT_FOUND")
             [] id \in Published /\ records[id].status = "Challenged" ->
                   Refused("ALREADY_CHALLENGED")
             [] id \in Published
                /\ records[id].status \notin {"Active", "Challenged"} ->
                   Refused("ATTESTATION_NOT_ACTIVE")
             [] OTHER -> Dispute(id) /\ Return(s, "challenged")

Challenge(s) ==
    /\ At(s, "challenge")
    /\ ChallengePlaceholder(s) \/ ChallengeMock(s)
    /\ UNCHANGED <<storeVars, deployed>>

TaskStep(s) ==
    \/ ReadAttestation(s)
    \/ ReadPayload(s)
    \/ ReadReputation(s)
    \/ PutPayload(s)
    \/ Submit(s)
    \/ Challenge(s)

TaskTypeOK ==
    /\ StoreTypeOK
    /\ \E n \in 0 .. MaxAttestations : records \in [0 .. n - 1 -> Record]
    /\ \A s \in Slots :
          /\ tasks[s].by \in {"nobody", "x402", "mcp", "runtime", "script"}
          /\ tasks[s].job \in Jobs
          /\ tasks[s].stage \in Stages
          /\ tasks[s].attempt \in 0 .. Retries
          /\ tasks[s].answer \in Outcomes
=============================================================================
