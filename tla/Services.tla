------------------------------ MODULE Services ------------------------------
(***************************************************************************)
(* The services of one process over its client and its payload store: the  *)
(* x402 server, the MCP tools, the runtime's loops.  With a CSPR.cloud     *)
(* token the records are the chain's, where others publish; with a bucket  *)
(* the payloads are shared with others as well.  A script is a process of  *)
(* its own.  So are, for the check, the parts that touch neither records   *)
(* nor payloads: claim decisions, commitments, the deployment of contracts. *)
(***************************************************************************)
EXTENDS X402Server, McpServer, AgentRuntime, Scripts, ClaimOracle, DeployScript

CONSTANT Deployments    \* the environments processes are started in, by name

ASSUME DeploymentsAssumption ==
    /\ Deployments \subseteq DOMAIN Environments
    /\ {MaxAttestations, MaxDeploys} \subseteq Nat

apartVars == <<claim, compared, deployVars>>
servicesVars ==
    <<records, storeVars, tasks, deployed, running, script, policies,
      apartVars>>

ServicesTypeOK ==
    /\ TaskTypeOK
    /\ deployed \in DOMAIN Environments
    /\ running \in BOOLEAN
    /\ claim # <<>> => claim[1] \in Evidence
    /\ compared # <<>> => compared \in Calls \X Calls
    /\ policies \in Seq({"Active", "Expired"})
    /\ script.end \in {"running", "done", "failed", "crashed"}
    /\ script.at \in 1 .. Len(Program) + 1
    /\ deploy.run \in 0 .. MaxDeploys

ServicesInit ==
    /\ LifecycleInit
    /\ objects = [key \in Keys |-> Absent]
    /\ spoiled = {}
    /\ tasks = [s \in Slots |-> Free]
    /\ deployed \in Deployments
    /\ running = FALSE
    /\ script = ScriptIdle
    /\ policies = <<>>
    /\ claim = <<>>
    /\ compared = <<>>
    /\ DeployInit

(* On the chain others publish, whether or not the payload can be had; in  *)
(* memory whoever holds the client resolves what was challenged.           *)
OthersWrite ==
    /\ \/ /\ Live
          /\ Room
          /\ \E a \in Attestors, m \in ModelIds, c \in here.payloads :
                Publish(a, m, c)
       \/ /\ ~Live
          /\ Program = <<>>
          /\ \E id \in Published, verdict \in {"Slashed", "Finalized"} :
                Rule(id, verdict)
    /\ UNCHANGED <<storeVars, tasks, deployed, running, script, policies,
                   apartVars>>

OthersSpoil ==
    /\ Bucket \/ Program = <<>>
    /\ \E payload \in here.payloads, object \in here.spoilt :
          LET key == contentKey(payload)
          IN  /\ object # objects[key]
              /\ IF Bucket THEN WriteToBucket(key, object)
                 ELSE corrupt(key, object)
    /\ UNCHANGED <<records, tasks, deployed, running, script, policies,
                   apartVars>>

(* The client has its answer.                                              *)
Dismiss(s) ==
    /\ At(s, "answered")
    /\ Begin(s, Free)
    /\ UNCHANGED <<records, storeVars, deployed, running, script, policies,
                   apartVars>>

(* What the process does for the task in a slot.                           *)
SlotStep(s) ==
    /\ \/ /\ TaskStep(s) \/ X402Step(s)
          /\ UNCHANGED <<running, script, policies>>
       \/ (PolicyStep(s) \/ guard(s)) /\ UNCHANGED <<running, script>>
       \/ RuntimeStep(s) /\ UNCHANGED <<script, policies>>
       \/ ScriptStep(s) /\ UNCHANGED <<running, policies>>
    /\ UNCHANGED apartVars

BeginTask(s) ==
    /\ \/ AskX402(s) /\ UNCHANGED <<running, policies>>
       \/ CallTool(s) /\ UNCHANGED running
       \/ runLoop(s) /\ UNCHANGED policies
    /\ UNCHANGED <<script, apartVars>>

Apart ==
    /\ \/ /\ "claims" \in here.services
          /\ EvaluateClaim
          /\ UNCHANGED <<compared, deployVars>>
       \/ /\ "commitments" \in here.services
          /\ CompareCalls
          /\ UNCHANGED <<claim, deployVars>>
       \/ /\ "deploy" \in here.services
          /\ DeployNext
          /\ UNCHANGED <<claim, compared>>
    /\ UNCHANGED <<records, storeVars, tasks, deployed, running, script, policies>>

ServicesNext ==
    \/ \E s \in Slots : SlotStep(s) \/ BeginTask(s) \/ Dismiss(s)
    \/ stop /\ UNCHANGED <<script, policies, apartVars>>
    \/ OthersWrite
    \/ OthersSpoil
    \/ Apart

(* The next await of the task is on somebody who is given no time limit:   *)
(* the facilitator, the bucket, the language model.                        *)
Outside(s) ==
    \/ /\ At(s, "payment")
       /\ createPaymentVerifier(here) = "facilitator"
       /\ tasks[s].extra = "header"
    \/ At(s, "payload") /\ Bucket
    \/ At(s, "put") /\ Bucket
    \/ At(s, "deciding") /\ Ollama

(* Every other await ends: the client aborts its reads, memory answers.    *)
ServicesSpec ==
    /\ ServicesInit
    /\ [][ServicesNext]_servicesVars
    /\ \A s \in Slots : WF_servicesVars(~Outside(s) /\ SlotStep(s))
-----------------------------------------------------------------------------
(* verify says PASS only of an object with the attested output, as a JSON  *)
(* value and but for members named __proto__, that is, where it is a whole *)
(* wrapper, the attested one; it says FAIL only of one that differs, at a  *)
(* key others have written to; and in a process whose registry and store   *)
(* are its own, the payload of a published attestation can always be had   *)
(* unless somebody spoiled it, however the tasks interleave.               *)
VerdictsHonest ==
    [][\A s \in Slots :
          (At(s, "payload") /\ tasks'[s].answer # "none") =>
             LET committed == records[tasks[s].id].commitment
                 key == contentKey(committed)
                 says == tasks'[s].answer
                 Same == SameValue(Content[objects[key]].output,
                                   Content[committed].output)
                 rest == Content[objects[key]].rest
             IN  /\ says = "PASS" =>
                       Same /\ rest \in {"none", Content[committed].rest}
                 /\ says = "FAIL" =>
                       /\ key \in spoiled
                       /\ Same => rest \notin {"none", Content[committed].rest}
                 /\ (says \in {"missing", "INTERNAL_ERROR"} /\ ~Live /\ ~Bucket)
                       => key \in spoiled
      ]_servicesVars

(* A client is told that an attestation or a policy does not exist only    *)
(* while it does not, whatever goes wrong on the way: but for one that has *)
(* an attestation verified on the chain, where an API that does not know   *)
(* the attestor is reported as an attestation that is not there.  Behind   *)
(* the payment gate a client is told anything at all only for a payment    *)
(* header, never in a production process that can check none.              *)
AnswersTrue ==
    [][\A s \in Slots :
          LET was == tasks[s]
              says == tasks'[s]
              Told(code) == says.answer = code /\ was.answer # code
          IN  /\ Told("ATTESTATION_NOT_FOUND") =>
                    \/ was.id \notin Published
                    \/ Live /\ was.stage = "reputation"
              /\ Told("POLICY_NOT_FOUND") => was.policy \notin DOMAIN policies
              /\ (says.by = "x402" /\ says.stage = "answered"
                    /\ says.answer # "PAYMENT_REQUIRED") =>
                    /\ says.extra = "header"
                    /\ here.production =>
                          here.facilitator \/ here.x402Mock
      ]_servicesVars

(* The scripts tell what they leave behind: SeedTellsState of the seeding  *)
(* and the agent's cycle, DeployTellsState of the deployment.              *)
ScriptsTellState == SeedTellsState /\ DeployTellsState

(* No task hangs on the process itself: each is answered, or a cycle of a  *)
(* loop that may run, or waits for somebody outside.  So retries end, stop *)
(* ends every loop that is not started again, and a script comes to its    *)
(* end.                                                                    *)
ServicesProgress ==
    /\ \A s \in Slots :
          []<>(\/ tasks[s].stage \in {"free", "answered"}
               \/ tasks[s].by = "runtime" /\ running
               \/ Outside(s))
    /\ []<>(~Running \/ \E s \in Slots : Outside(s))
=============================================================================
