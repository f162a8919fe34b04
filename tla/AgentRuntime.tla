---------------------------- MODULE AgentRuntime ----------------------------
(***************************************************************************)
(* packages/agent/src/runtime.ts: runLoop, which decides and executes one  *)
(* action per cycle, and stop.  The runtime has one running flag, whatever *)
(* the number of its loops.  A task holds the context of its cycle: "idle" *)
(* (nothing to do), "address", "attestation", or "failed" (an attestation  *)
(* whose last verification failed).                                        *)
(***************************************************************************)
EXTENDS AgentTasks

CONSTANT LoopIds    \* the attestation ids in contexts and the model's calls

VARIABLE running    \* AgentRuntime.running

Contexts == {"idle", "address", "attestation", "failed"}

NoneDecides(context) ==
    CASE context = "failed" -> "challenge"
      [] context = "attestation" -> "verify"
      [] context = "address" -> "attest"
      [] OTHER -> "noop"

Ollama == here.ollama

OLLAMA_TOOLS ==
    {"score_and_attest", "verify_attestation", "challenge_attestation"}

(* The first tool call of an answer, with or without its argument.         *)
decisionFromToolCall(name, arg) ==
    CASE name = "score_and_attest" -> [action |-> "attest", arg |-> arg]
      [] name = "verify_attestation" -> [action |-> "verify", arg |-> arg]
      [] name = "challenge_attestation" -> [action |-> "challenge", arg |-> arg]
      [] OTHER -> [action |-> "noop", arg |-> FALSE]

(* What the model may make of a context: no answer or no call leaves it to *)
(* the deterministic policy, a call may be of a tool it was not offered,   *)
(* and an answer that does not parse throws.                               *)
Decisions(context) ==
    {[action |-> NoneDecides(context), arg |-> FALSE]} \cup
    IF Ollama
    THEN {decisionFromToolCall(name, arg) :
            name \in OLLAMA_TOOLS \cup {"unknown"}, arg \in BOOLEAN}
         \cup {[action |-> "throw", arg |-> FALSE]}
    ELSE {}

(* The argument of the decision, or of the context, or nothing to do.      *)
Applies(decision, context) ==
    CASE decision.action = "attest" -> decision.arg \/ context = "address"
      [] decision.action \in {"verify", "challenge"} ->
            decision.arg \/ context \in {"attestation", "failed"}
      [] OTHER -> FALSE

(* The id of the context is used unless the call names its own.            *)
execute(s, decision) ==
    LET context == tasks[s].extra
        Does(job, stage, id, payload) ==
            Begin(s, Task("runtime", job, stage, id, payload, "none"))
        Ids == IF decision.arg THEN LoopIds ELSE {tasks[s].id}
    IN  CASE decision.action = "throw" -> Return(s, "INTERNAL_ERROR")
          [] ~Applies(decision, context) /\ decision.action # "throw" ->
                Return(s, "nothing")
          [] Applies(decision, context) /\ decision.action = "attest" ->
                \E p \in here.payloads : Does("attest", "put", 0, p)
          [] Applies(decision, context) /\ decision.action = "verify" ->
                \E id \in Ids : Does("verify", "attestation", id, Absent)
          [] OTHER -> \E id \in Ids : Does("challenge", "challenge", id, Absent)

runOnce(s) ==
    /\ At(s, "deciding")
    /\ \E decision \in Decisions(tasks[s].extra) : execute(s, decision)
    /\ UNCHANGED <<records, storeVars, deployed, running>>

StartCycle(s) ==
    \E context \in Contexts, id \in LoopIds :
        Begin(s, Task("runtime", "none", "deciding", id, Absent, context))

(* A loop that ends clears the flag for all.                               *)
EndLoop(s) ==
    /\ Begin(s, Free)
    /\ running' = FALSE

runLoop(s) ==
    /\ "runtime" \in here.services
    /\ At(s, "free")
    /\ StartCycle(s)
    /\ running' = TRUE
    /\ UNCHANGED <<records, storeVars, deployed>>

(* Mutation: the loop is while (true), and only its sleep asks the flag.   *)
EndCycleForever(s) ==
    /\ At(s, "returned")
    /\ tasks[s].by = "runtime"
    /\ IF tasks[s].answer \in ErrorCodes THEN Begin(s, Free)
       ELSE IF running
            THEN Begin(s, Task("runtime", "none", "sleeping", 0, Absent, "none"))
            ELSE StartCycle(s)
    /\ UNCHANGED <<running, records, storeVars, deployed>>

(* A result is followed by a sleep unless the loop was stopped or this was *)
(* its last cycle (maxCycles, where given); an error ends the loop at once *)
(* and leaves the flag.                                                    *)
EndCycle(s) ==
    /\ At(s, "returned")
    /\ tasks[s].by = "runtime"
    /\ \/ /\ tasks[s].answer \in ErrorCodes
          /\ Begin(s, Free)
          /\ UNCHANGED running
       \/ /\ tasks[s].answer \notin ErrorCodes
          /\ running
          /\ Begin(s, Task("runtime", "none", "sleeping", 0, Absent, "none"))
          /\ UNCHANGED running
       \/ /\ tasks[s].answer \notin ErrorCodes
          /\ EndLoop(s)
    /\ UNCHANGED <<records, storeVars, deployed>>

Awake(s) ==
    /\ At(s, "sleeping")
    /\ \/ running /\ StartCycle(s) /\ UNCHANGED running
       \/ ~running /\ EndLoop(s)
    /\ UNCHANGED <<records, storeVars, deployed>>

stop ==
    /\ running
    /\ running' = FALSE
    /\ UNCHANGED <<records, storeVars, tasks, deployed>>

RuntimeStep(s) == runOnce(s) \/ EndCycle(s) \/ Awake(s)
=============================================================================
