------------------------------ MODULE Scripts -------------------------------
(***************************************************************************)
(* scripts/seed-demo.ts and packages/agent/src/cli.ts: processes that run  *)
(* one task after the other, each step with what earlier ones returned.    *)
(* An error that is not caught ends the process.                           *)
(***************************************************************************)
EXTENDS AgentTasks

CONSTANTS
    Attested,   \* the payloads seed-demo.ts attests, in its order
    Claim,      \* the payload of its claim decision
    Tampered    \* what corrupt puts in the place of an object

(* A script is a process of its own; what corrupt writes has an output     *)
(* that none of the attested payloads has.                                 *)
ASSUME ScriptsAssumption ==
    /\ Attested \in Seq(Payloads \cap Commitments)
    /\ Len(Attested) >= 2
    /\ Claim \in Payloads \cap Commitments
    /\ Tampered \in DOMAIN Content
    /\ Hashable(Tampered)
    /\ \A payload \in Payloads : outputHash[Tampered] # outputHash[payload]
    /\ \A name \in DOMAIN Environments, kind \in {"seed", "cli"} :
          kind \in Environments[name].services =>
             Environments[name].services = {kind}

VARIABLE script     \* [at: next step, ids: of the attestations made,
                    \*  told: the verdicts printed, end: how it stands]

ScriptIdle == [at |-> 1, ids |-> <<>>, told |-> <<>>, end |-> "running"]

Does(what, nth, payload) == [what |-> what, nth |-> nth, payload |-> payload]

(* main of seed-demo.ts, its prints left out.  The policy and the claim on *)
(* it touch no attestation.                                                *)
SeedProgram ==
    [i \in DOMAIN Attested |-> Does("attest", 0, Attested[i])]
    \o <<Does("verify", 1, Absent), Does("attest", 0, Claim),
         Does("insure", 0, Absent), Does("get", 2, Absent),
         Does("corrupt", 2, Absent), Does("challenge", 2, Absent),
         Does("resolve", 2, Absent)>>

(* runCli, with the backend "none": a cycle that attests and one that      *)
(* verifies what it attested.                                              *)
CliProgram == <<Does("attest", 0, Attested[1]), Does("verify", 1, Absent)>>

Program ==
    IF "seed" \in here.services THEN SeedProgram
    ELSE IF "cli" \in here.services THEN CliProgram
    ELSE <<>>

Step == Program[script.at]

Running == script.end = "running" /\ script.at <= Len(Program)

(* The id the step is about: live submissions all returned 0.              *)
Id == script.ids[Step.nth]

End(how) == script' = [script EXCEPT !.end = how]

NextStep(s, ids, told) ==
    /\ script' = [script EXCEPT !.at = @ + 1, !.ids = @ \o ids,
                                !.told = @ \o told,
                                !.end = IF script.at = Len(Program) THEN "done"
                                        ELSE "running"]
    /\ Begin(s, Free)

Asks(s, job, stage, id, payload) ==
    Begin(s, Task("script", job, stage, id, payload, "none"))

(* Mutation: the call is forgotten.                                        *)
CorruptNothing(s) ==
    /\ Asks(s, "verify", "attestation", Id, Absent)
    /\ UNCHANGED <<storeVars, script>>

(* corrupt is called and not awaited.  In memory it has taken effect when  *)
(* it returns; its rejection, where there is a bucket or no object, is     *)
(* handled by nobody and ends the process before verify has read anything  *)
(* over the network.                                                       *)
CorruptAndVerify(s) ==
    LET key == contentKey(records[Id].commitment)
    IN  IF Bucket \/ objects[key] = Absent
        THEN End("crashed") /\ UNCHANGED <<storeVars, tasks>>
        ELSE /\ corrupt(key, Tampered)
             /\ Asks(s, "verify", "attestation", Id, Absent)
             /\ UNCHANGED script

(* resolve(id, true), a placeholder in live mode.                          *)
ResolveFraudulent(s) ==
    IF Live THEN UNCHANGED records /\ NextStep(s, <<>>, <<>>)
    ELSE /\ Rule(Id, "Slashed")
         /\ NextStep(s, <<>>, <<>>)

(* A script awaits each of its calls, so one slot serves it.               *)
ScriptCalls(s) ==
    /\ Running
    /\ s = CHOOSE t \in Slots : TRUE
    /\ At(s, "free")
    /\ \/ /\ CASE Step.what = "attest" -> Asks(s, "attest", "put", 0, Step.payload)
               [] Step.what = "verify" -> Asks(s, "verify", "attestation", Id, Absent)
               [] Step.what = "get" -> Asks(s, "get", "attestation", Id, Absent)
               [] Step.what = "challenge" ->
                     Asks(s, "challenge", "challenge", Id, Absent)
               [] OTHER -> FALSE
          /\ UNCHANGED <<records, storeVars, script>>
       \/ Step.what = "corrupt" /\ CorruptAndVerify(s) /\ UNCHANGED records
       \/ Step.what = "insure" /\ NextStep(s, <<>>, <<>>)
          /\ UNCHANGED <<records, storeVars>>
       \/ Step.what = "resolve" /\ ResolveFraudulent(s) /\ UNCHANGED storeVars
    /\ UNCHANGED deployed

NewId == IF Live THEN 0 ELSE Cardinality(Published) - 1

(* Only the verification after corrupt stands in a try.                    *)
ScriptGoesOn(s) ==
    LET answer == tasks[s].answer
    IN  /\ At(s, "returned")
        /\ tasks[s].by = "script"
        /\ CASE answer \in ErrorCodes /\ Step.what = "corrupt" ->
                   NextStep(s, <<>>, <<"error">>)
             [] answer \in ErrorCodes /\ Step.what # "corrupt" ->
                   End("failed") /\ Begin(s, Free)
             [] answer = "attested" -> NextStep(s, <<NewId>>, <<>>)
             [] answer \in {"PASS", "FAIL"} -> NextStep(s, <<>>, <<answer>>)
             [] OTHER -> NextStep(s, <<>>, <<>>)
        /\ UNCHANGED <<records, storeVars, deployed>>

ScriptStep(s) == ScriptCalls(s) \/ ScriptGoesOn(s)
-----------------------------------------------------------------------------
(* A process with its own registry and store: the seeding tells PASS, then *)
(* FAIL of the attestation it tampered with and no other, and leaves that  *)
(* one slashed and the others active; the agent's cycle tells PASS.  One   *)
(* that breaks off before the end leaves nothing challenged or slashed:    *)
(* either may over a bucket, in memory only the agent's cycle, whose stake *)
(* was refused, and then nothing is on record.                             *)
SeedTellsState ==
    LET slashed == {id \in Published : records[id].status # "Active"}
        seeding == "seed" \in here.services
    IN  (Program # <<>> /\ ~Live) =>
           /\ (script.end = "done" /\ seeding) =>
                 /\ script.told = <<"PASS", "FAIL">>
                 /\ slashed = {script.ids[2]}
                 /\ records[script.ids[2]].status = "Slashed"
                 /\ Cardinality(Published) = Len(Attested) + 1
                 /\ spoiled = {contentKey(records[script.ids[2]].commitment)}
           /\ (script.end = "done" /\ ~seeding /\ ~Bucket) => script.told = <<"PASS">>
           /\ script.end \in {"failed", "crashed"} =>
                 /\ slashed = {}
                 /\ Bucket \/ (~seeding /\ Published = {})
=============================================================================
