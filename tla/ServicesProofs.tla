--------------------------- MODULE ServicesProofs --------------------------
(***************************************************************************)
(* What a process of the services guarantees whatever its environment, its *)
(* payloads, the answers of the API and the number of tasks at a time:     *)
(* each step of a task is followed through the awaits, and what the other  *)
(* tasks rest on is shown to be left alone by it.                          *)
(***************************************************************************)
EXTENDS Services, LedgerProofs, SequenceTheorems

-----------------------------------------------------------------------------
(* Tasks.                                                                  *)

Servers == {"nobody", "x402", "mcp", "runtime", "script"}

(* What a task becomes at an await, and what it is begun as.               *)
Now(t, stage, attempt, answer) ==
    [by |-> t.by, job |-> t.job, stage |-> stage, id |-> t.id,
     payload |-> t.payload, extra |-> t.extra, policy |-> t.policy,
     attempt |-> attempt, answer |-> answer]

Begun(by, job, stage, id, payload, extra, policy, answer) ==
    [by |-> by, job |-> job, stage |-> stage, id |-> id, payload |-> payload,
     extra |-> extra, policy |-> policy, attempt |-> 0, answer |-> answer]

IsTask(t) ==
    /\ t = Now(t, t.stage, t.attempt, t.answer)
    /\ t.by \in Servers
    /\ t.job \in Jobs
    /\ t.stage \in Stages
    /\ t.attempt \in 0 .. Retries
    /\ t.answer \in Outcomes

Became(s, t) == tasks' = [tasks EXCEPT ![s] = t]

(* Going on keeps what the task is about,                                  *)
LEMMA GoOnNow ==
    ASSUME DOMAIN tasks = Slots, NEW s \in Slots, NEW stage,
           IsTask(tasks[s]), GoOn(s, stage)
    PROVE  Became(s, Now(tasks[s], stage, 0, tasks[s].answer))
<1> DEFINE t == tasks[s]
           one == [t EXCEPT !.stage = stage]
<1>1. t = Now(t, t.stage, t.attempt, t.answer)
  BY DEF IsTask
<1>2. tasks' = [tasks EXCEPT ![s] = [one EXCEPT !.attempt = 0]]
  BY DEF GoOn
<1> HIDE DEF t
<1>3. one = Now(t, stage, t.attempt, t.answer)
  BY <1>1 DEF Now
<1> HIDE DEF one
<1>4. [one EXCEPT !.attempt = 0] = Now(t, stage, 0, t.answer)
  BY <1>3 DEF Now
<1>5. QED
  BY <1>2, <1>4 DEF Became, t

(* returning adds the outcome,                                             *)
LEMMA ReturnNow ==
    ASSUME DOMAIN tasks = Slots, NEW s \in Slots, NEW outcome,
           IsTask(tasks[s]), Return(s, outcome)
    PROVE  Became(s, Now(tasks[s], "returned", 0, outcome))
<1> DEFINE t == tasks[s]
           one == [t EXCEPT !.stage = "returned"]
           two == [one EXCEPT !.attempt = 0]
<1>1. t = Now(t, t.stage, t.attempt, t.answer)
  BY DEF IsTask
<1>2. tasks' = [tasks EXCEPT ![s] = [two EXCEPT !.answer = outcome]]
  BY DEF Return
<1> HIDE DEF t
<1>3. one = Now(t, "returned", t.attempt, t.answer)
  BY <1>1 DEF Now
<1> HIDE DEF one
<1>4. two = Now(t, "returned", 0, t.answer)
  BY <1>3 DEF Now
<1> HIDE DEF two
<1>5. [two EXCEPT !.answer = outcome] = Now(t, "returned", 0, outcome)
  BY <1>4 DEF Now
<1>6. QED
  BY <1>2, <1>5 DEF Became, t

(* another attempt counts,                                                 *)
LEMMA RetryNow ==
    ASSUME DOMAIN tasks = Slots, NEW s \in Slots, IsTask(tasks[s]),
           tasks' = [tasks EXCEPT ![s].attempt = @ + 1]
    PROVE  Became(s, Now(tasks[s], tasks[s].stage, tasks[s].attempt + 1,
                         tasks[s].answer))
<1> DEFINE t == tasks[s]
           next == t.attempt + 1
<1>1. t = Now(t, t.stage, t.attempt, t.answer)
  BY DEF IsTask
<1>2. tasks' = [tasks EXCEPT ![s] = [t EXCEPT !.attempt = next]]
  OBVIOUS
<1> HIDE DEF t, next
<1>3. [t EXCEPT !.attempt = next] = Now(t, t.stage, next, t.answer)
  BY <1>1 DEF Now
<1>4. QED
  BY <1>2, <1>3 DEF Became, t, next

(* and a verdict is kept over the next await.                              *)
LEMMA VerdictNow ==
    ASSUME DOMAIN tasks = Slots, NEW s \in Slots, NEW verdict,
           IsTask(tasks[s]),
           tasks' = [tasks EXCEPT ![s].stage = "reputation",
                                  ![s].answer = verdict]
    PROVE  Became(s, Now(tasks[s], "reputation", tasks[s].attempt, verdict))
<1> DEFINE t == tasks[s]
           one == [t EXCEPT !.stage = "reputation"]
<1>1. t = Now(t, t.stage, t.attempt, t.answer)
  BY DEF IsTask
<1>2. tasks' = [tasks EXCEPT ![s] = [one EXCEPT !.answer = verdict]]
  OBVIOUS
<1> HIDE DEF t
<1>3. one = Now(t, "reputation", t.attempt, t.answer)
  BY <1>1 DEF Now
<1> HIDE DEF one
<1>4. [one EXCEPT !.answer = verdict] = Now(t, "reputation", t.attempt, verdict)
  BY <1>3 DEF Now
<1>5. QED
  BY <1>2, <1>4 DEF Became, t

(* A task is begun with nothing attempted or answered,                     *)
LEMMA TaskBegun ==
    ASSUME NEW by, NEW job, NEW stage, NEW id, NEW payload, NEW extra
    PROVE  Task(by, job, stage, id, payload, extra)
             = Begun(by, job, stage, id, payload, extra, 0, "none")
BY DEF Task, Begun

(* but for the score, which is there at once,                              *)
LEMMA AnsweredBegun ==
    ASSUME NEW by, NEW job, NEW stage, NEW id, NEW payload, NEW extra,
           NEW answer
    PROVE  [Task(by, job, stage, id, payload, extra) EXCEPT !.answer = answer]
             = Begun(by, job, stage, id, payload, extra, 0, answer)
<1> DEFINE t == Task(by, job, stage, id, payload, extra)
<1>1. t = Begun(by, job, stage, id, payload, extra, 0, "none")
  BY TaskBegun
<1> HIDE DEF t
<1>2. [t EXCEPT !.answer = answer]
        = Begun(by, job, stage, id, payload, extra, 0, answer)
  BY <1>1 DEF Begun
<1>3. QED
  BY <1>2 DEF t

(* and a claim, which names a policy.                                      *)
LEMMA ClaimBegun ==
    ASSUME NEW by, NEW job, NEW stage, NEW id, NEW payload, NEW extra,
           NEW policy
    PROVE  [Task(by, job, stage, id, payload, extra) EXCEPT !.policy = policy]
             = Begun(by, job, stage, id, payload, extra, policy, "none")
<1> DEFINE t == Task(by, job, stage, id, payload, extra)
<1>1. t = Begun(by, job, stage, id, payload, extra, 0, "none")
  BY TaskBegun
<1> HIDE DEF t
<1>2. [t EXCEPT !.policy = policy]
        = Begun(by, job, stage, id, payload, extra, policy, "none")
  BY <1>1 DEF Begun
<1>3. QED
  BY <1>2 DEF t

(* An answer leaves of the task who was asked and the payment.             *)
LEMMA AnswerNow ==
    ASSUME NEW s, NEW outcome, Answer(s, outcome)
    PROVE  Became(s, Begun(tasks[s].by, "none", "answered", 0, Absent,
                           tasks[s].extra, 0, outcome))
<1> DEFINE new == [Task(tasks[s].by, "none", "answered", 0, Absent, tasks[s].extra)
                      EXCEPT !.answer = outcome]
<1>1. new = Begun(tasks[s].by, "none", "answered", 0, Absent, tasks[s].extra, 0,
                  outcome)
  BY AnsweredBegun
<1>2. tasks' = [tasks EXCEPT ![s] = new]
  BY DEF Answer, Begin
<1> HIDE DEF new
<1>3. QED
  BY <1>1, <1>2 DEF Became

-----------------------------------------------------------------------------
(* What is on record and in the store.                                     *)

OnRecord ==
    [attestor: Attestors, model_id: ModelIds,
     commitment: Payloads \cap Commitments,
     status: {"Active", "Challenged", "Slashed", "Finalized"}]

RecordsOK == \E n \in 0 .. MaxAttestations : records \in [0 .. n - 1 -> OnRecord]

(* A key others have left alone holds nothing or a payload of its own.     *)
KeysHold ==
    \A key \in Keys \ spoiled :
        \/ objects[key] = Absent
        \/ objects[key] \in Payloads /\ contentKey(objects[key]) = key

(* A key others have left alone still has what was put there.              *)
Had(key) == objects[key] # Absent \/ key \in spoiled

(* In memory, what is on record was stored before.                         *)
RecordsHad ==
    ~Live => \A id \in Published : Had(contentKey(records[id].commitment))

DataInv ==
    /\ deployed \in DOMAIN Environments
    /\ RecordsOK
    /\ StoreTypeOK
    /\ KeysHold
    /\ RecordsHad

(* What the steps leave to the tasks in the other slots.                   *)
Kept ==
    /\ deployed' = deployed
    /\ Published \subseteq Published'
    /\ \A key \in Keys : Had(key) => Had(key)'

PoliciesOK == policies \in Seq({"Active", "Expired"})

(* The environment a process was started in.                               *)
LEMMA EnvironmentIs ==
    ASSUME deployed \in DOMAIN Environments
    PROVE  /\ here.payloads \subseteq Payloads \cap Commitments
           /\ here.spoilt \subseteq DOMAIN Content \cup {Absent, Garbled}
           /\ {Live, Bucket, here.facilitator, here.x402Mock, here.production}
                 \subseteq BOOLEAN
BY EnvironmentsAssumption DEF here, Live, Bucket

(* The key of a payload is that of one with the same bytes.                *)
LEMMA KeyOfPayload ==
    ASSUME NEW payload \in Payloads
    PROVE  /\ contentKey(payload) \in Payloads \cap Keys
           /\ outputHash[contentKey(payload)] = outputHash[payload]
           /\ Content[contentKey(payload)].rest = Content[payload].rest
<1>1. \E p \in Payloads : /\ outputHash[p] = outputHash[payload]
                          /\ Content[p].rest = Content[payload].rest
  OBVIOUS
<1>2. contentKey(payload) \in Keys
  BY DEF Keys
<1>3. QED
  BY <1>1, <1>2 DEF contentKey

(* A payload that was stored is one of the things a key may hold.          *)
LEMMA AbsentIsNoPayload ==
    ASSUME NEW payload \in Payloads
    PROVE  payload \in DOMAIN Content /\ payload \notin {Absent, Garbled}
BY StoreAssumption

(* The payload of a record has a key.                                      *)
LEMMA KeyKnown ==
    ASSUME RecordsOK, NEW id \in Published
    PROVE  /\ records[id].commitment \in Payloads
           /\ contentKey(records[id].commitment) \in Payloads \cap Keys
<1>1. records[id] \in OnRecord
  BY DEF RecordsOK, Published
<1>2. records[id].commitment \in Payloads
  BY <1>1 DEF OnRecord
<1>3. QED
  BY <1>2, KeyOfPayload

(* A payload that is put is there.                                         *)
LEMMA PutKeeps ==
    ASSUME DataInv, NEW payload \in Payloads, Put(payload),
           UNCHANGED <<records, deployed>>
    PROVE  /\ DataInv' /\ Kept
           /\ \E key : key = contentKey(payload) /\ Had(key)'
<1>1. PICK k : k = contentKey(payload)
  OBVIOUS
<1>2. k \in Keys
  BY <1>1, KeyOfPayload
<1>3. objects' = [objects EXCEPT ![k] = payload] /\ spoiled' = spoiled
  BY <1>1 DEF Put, putBytes
<1>4. payload \in DOMAIN Content /\ payload # Absent
  BY AbsentIsNoPayload
<1>5. StoreTypeOK'
  BY <1>2, <1>3, <1>4 DEF DataInv, StoreTypeOK
<1>6. ASSUME NEW key \in Keys
      PROVE  objects'[key] = IF key = k THEN payload ELSE objects[key]
  BY <1>2, <1>3, <1>6 DEF DataInv, StoreTypeOK
<1>7. ASSUME NEW key \in Keys, Had(key)
      PROVE  Had(key)'
  BY <1>3, <1>4, <1>6, <1>7 DEF Had
<1>8. Had(k)'
  BY <1>2, <1>4, <1>6 DEF Had
<1>9. KeysHold'
  BY <1>1, <1>3, <1>6 DEF DataInv, KeysHold
<1>10. Kept
  BY <1>7 DEF Kept, Published
<1>11. RecordsHad'
  BY <1>7, KeyKnown DEF DataInv, RecordsHad, Live, here, Published
<1>12. RecordsOK'
  BY DEF DataInv, RecordsOK
<1>13. QED
  BY <1>1, <1>5, <1>8, <1>9, <1>10, <1>11, <1>12 DEF DataInv

(* A record published goes on record with what is stored,                  *)
LEMMA PublishKeeps ==
    ASSUME DataInv, NEW a \in Attestors, NEW m \in ModelIds,
           NEW c \in Payloads \cap Commitments,
           ~Live => Had(contentKey(c)),
           Publish(a, m, c), UNCHANGED <<storeVars, deployed>>
    PROVE  DataInv' /\ Kept
<1> DEFINE new == [attestor |-> a, model_id |-> m, commitment |-> c,
                   status |-> "Active"]
<1>1. MaxAttestations \in Nat
  BY DeploymentsAssumption
<1>2. PICK id \in 0 .. MaxAttestations - 1 :
        /\ Published = 0 .. id - 1
        /\ records' = [i \in 0 .. id |-> IF i < id THEN records[i] ELSE new]
  BY DEF Publish
<1>3. new \in OnRecord /\ new.commitment = c
  BY DEF OnRecord
<1> HIDE DEF new
<1>4. Published' = 0 .. id
  BY <1>2 DEF Published
<1>5. Published = 0 .. id - 1 /\ id \in Nat
  BY <1>1, <1>2
<1>6. \A i \in Published : records'[i] = records[i]
  BY <1>2, <1>5
<1>7. records'[id] = new
  BY <1>2, <1>5
<1>8. \A i \in Published : records[i] \in OnRecord
  BY DEF DataInv, RecordsOK, Published
<1>9. RecordsOK'
  <2>1. \A i \in 0 .. id : records'[i] \in OnRecord
    BY <1>3, <1>5, <1>6, <1>7, <1>8
  <2>2. records' \in [0 .. id -> OnRecord]
    BY <1>2, <2>1
  <2>3. id + 1 \in 0 .. MaxAttestations /\ (id + 1) - 1 = id
    BY <1>1, <1>2, <1>5
  <2>4. QED
    BY <2>2, <2>3 DEF RecordsOK
<1>10. \A key : Had(key)' <=> Had(key)
  BY DEF Had, storeVars
<1>11. RecordsHad'
  <2>1. SUFFICES ASSUME ~Live, NEW i \in 0 .. id
                 PROVE  Had(contentKey(records'[i].commitment))
    BY <1>4, <1>10 DEF RecordsHad, Live, here
  <2>2. CASE i = id
    BY <1>3, <1>7, <2>1, <2>2
  <2>3. CASE i # id
    BY <1>5, <1>6, <2>1, <2>3 DEF DataInv, RecordsHad
  <2>4. QED
    BY <2>2, <2>3
<1>12. Kept
  BY <1>4, <1>5, <1>10 DEF Kept
<1>13. (deployed \in DOMAIN Environments)' /\ StoreTypeOK' /\ KeysHold'
  BY DEF DataInv, StoreTypeOK, KeysHold, storeVars
<1>14. QED
  BY <1>9, <1>11, <1>12, <1>13 DEF DataInv

(* and a ruling on it changes its status alone.                            *)
LEMMA AdvanceKeeps ==
    ASSUME DataInv, NEW id, NEW from,
           NEW to \in {"Challenged", "Slashed", "Finalized"},
           Advance(id, from, to), UNCHANGED <<storeVars, deployed>>
    PROVE  DataInv' /\ Kept
<1>1. /\ id \in Published
      /\ records' = [records EXCEPT ![id] = [records[id] EXCEPT !.status = to]]
  BY DEF Advance
<1>2. PICK n \in 0 .. MaxAttestations : records \in [0 .. n - 1 -> OnRecord]
  BY DEF DataInv, RecordsOK
<1>3. Published = 0 .. n - 1 /\ records[id] \in OnRecord
  BY <1>1, <1>2 DEF Published
<1> DEFINE new == [records[id] EXCEPT !.status = to]
<1>4. new \in OnRecord /\ new.commitment = records[id].commitment
  <2>1. PICK r : r = records[id]
    OBVIOUS
  <2>2. [r EXCEPT !.status = to] \in OnRecord
    BY <1>3, <2>1 DEF OnRecord
  <2>3. [r EXCEPT !.status = to].commitment = r.commitment
    BY <1>3, <2>1 DEF OnRecord
  <2>4. QED
    BY <2>1, <2>2, <2>3
<1>5. records' = [records EXCEPT ![id] = new]
  BY <1>1
<1> HIDE DEF new
<1>6. records' \in [0 .. n - 1 -> OnRecord]
  BY <1>2, <1>3, <1>4, <1>5
<1>7. RecordsOK'
  BY <1>6 DEF RecordsOK
<1>8. Published' = Published
  BY <1>3, <1>6 DEF Published
<1>9. \A i \in Published : records'[i].commitment = records[i].commitment
  BY <1>2, <1>3, <1>4, <1>5
<1>10. \A key : Had(key)' <=> Had(key)
  BY DEF Had, storeVars
<1>11. RecordsHad'
  <2>1. SUFFICES ASSUME ~Live, NEW i \in Published
                 PROVE  Had(contentKey(records'[i].commitment))
    BY <1>8, <1>10 DEF RecordsHad, Live, here
  <2>2. QED
    BY <1>9, <2>1 DEF DataInv, RecordsHad
<1>12. Kept
  BY <1>8, <1>10 DEF Kept
<1>13. (deployed \in DOMAIN Environments)' /\ StoreTypeOK' /\ KeysHold'
  BY DEF DataInv, StoreTypeOK, KeysHold, storeVars
<1>14. QED
  BY <1>7, <1>11, <1>12, <1>13 DEF DataInv

(* Somebody who writes to a key spoils it.                                 *)
LEMMA SpoilKeeps ==
    ASSUME DataInv, NEW key \in Keys,
           NEW object \in DOMAIN Content \cup {Absent, Garbled},
           putBytes(key, object), spoiled' = spoiled \cup {key},
           UNCHANGED <<records, deployed>>
    PROVE  DataInv' /\ Kept
<1>1. objects' = [objects EXCEPT ![key] = object]
  BY DEF putBytes
<1>2. ASSUME NEW k \in Keys
      PROVE  objects'[k] = IF k = key THEN object ELSE objects[k]
  BY <1>1 DEF DataInv, StoreTypeOK
<1>3. StoreTypeOK'
  BY <1>1 DEF DataInv, StoreTypeOK
<1>4. KeysHold'
  BY <1>2 DEF DataInv, KeysHold
<1>5. ASSUME NEW k \in Keys, Had(k)
      PROVE  Had(k)'
  BY <1>2, <1>5 DEF Had
<1>6. Kept
  BY <1>5 DEF Kept, Published
<1>7. RecordsHad'
  BY <1>5, KeyKnown DEF DataInv, RecordsHad, Live, here, Published
<1>8. RecordsOK' /\ (deployed \in DOMAIN Environments)'
  BY DEF DataInv, RecordsOK
<1>9. QED
  BY <1>3, <1>4, <1>6, <1>7, <1>8 DEF DataInv

(* A step of nobody's leaves the stored data as it was.                    *)
LEMMA DataUnchanged ==
    ASSUME DataInv, UNCHANGED <<records, storeVars, deployed>>
    PROVE  DataInv' /\ Kept
BY DEF DataInv, RecordsOK, StoreTypeOK, KeysHold, RecordsHad, Had, Live, here,
       Published, Kept, storeVars

-----------------------------------------------------------------------------
(* What a task in a slot is about, and what it rests on.                   *)

(* What is left of a payment gate once it was passed.                      *)
Gate == here.production => here.facilitator \/ here.x402Mock

Results(job) ==
    CASE job = "get" -> {"attestation"}
      [] job = "read" -> {"payload", "missing"}
      [] job = "verify" -> {"PASS", "FAIL"}
      [] job = "attest" -> {"attested"}
      [] job = "challenge" -> {"challenged"}
      [] OTHER -> {"score", "policy", "paid", "nothing"}

Answered == {"reputation", "returned", "answered"}

Proper(t) ==
    /\ t.stage = "free" <=> t.by = "nobody"
    /\ t.answer # "none" <=> t.stage \in Answered
    /\ t.stage = "payment" =>
          t.by = "x402" /\ t.job \in {"read", "verify"} /\ t.policy = 0
    /\ t.stage \in {"deciding", "sleeping"} => t.by = "runtime" /\ t.job = "none"
    /\ t.stage = "attestation" =>
          t.job \in {"get", "read", "verify"} /\ t.policy = 0
    /\ t.stage = "payload" => t.job \in {"read", "verify"} /\ t.policy = 0
    /\ t.stage = "reputation" =>
          t.job = "verify" /\ t.policy = 0 /\ t.answer \in {"PASS", "FAIL"}
    /\ t.stage \in {"put", "submit"} =>
          t.job = "attest" /\ t.payload \in Payloads \cap Commitments
    /\ t.stage = "challenge" => t.job = "challenge"
    /\ t.stage = "policy" => t.by = "mcp" /\ t.job \in {"buy", "claim"}
    /\ t.stage = "returned" => t.answer \in ErrorCodes \cup Results(t.job)

(* What it rests on: the environment, what is on record, what is stored.   *)
Backed(t) ==
    /\ t.by = "x402" =>
          \/ t.stage = "payment"
          \/ t.extra = "header" /\ Gate
          \/ t.stage = "answered" /\ t.answer = "PAYMENT_REQUIRED"
    /\ t.stage = "payload" => t.id \in Published
    /\ t.stage = "returned" /\ t.answer = "attestation" => t.id \in Published
    /\ t.stage = "submit" => Had(contentKey(t.payload))

Ready(t) == IsTask(t) /\ Proper(t) /\ Backed(t)

(* An await that ends with not having found something tells the truth, but *)
(* for an attestor the API does not know.                                  *)
Honest(was, t) ==
    /\ t.answer = "ATTESTATION_NOT_FOUND" /\ was.answer # t.answer =>
          \/ was.id \notin Published
          \/ Live /\ was.stage = "reputation"
    /\ t.answer = "POLICY_NOT_FOUND" /\ was.answer # t.answer =>
          was.policy \notin DOMAIN policies

TasksReady == DOMAIN tasks = Slots /\ \A s \in Slots : Ready(tasks[s])

(* What becomes of the task in one slot.                                   *)
Moves(s) ==
    \E t : Became(s, t) /\ Ready(t)' /\ Honest(tasks[s], t)

(* The other tasks can go on.                                              *)
LEMMA ReadyKept ==
    ASSUME NEW t, Ready(t), Kept
    PROVE  Ready(t)'
<1>1. here' = here
  BY DEF Kept, here
<1>2. Gate' = Gate
  BY <1>1 DEF Gate
<1>3. IsTask(t)'
  BY DEF Ready, IsTask
<1>4. Proper(t)'
  BY DEF Ready, Proper
<1>5. t.stage = "submit" => contentKey(t.payload) \in Keys
  BY KeyOfPayload DEF Ready, Proper
<1>6. Backed(t)'
  BY <1>2, <1>5 DEF Ready, Backed, Kept
<1>7. QED
  BY <1>3, <1>4, <1>6 DEF Ready

(* One task moving on properly leaves every task proper.                   *)
LEMMA MoveReady ==
    ASSUME TasksReady, NEW s \in Slots, Moves(s), Kept
    PROVE  TasksReady'
<1>1. PICK t : Became(s, t) /\ Ready(t)'
  BY DEF Moves
<1>2. DOMAIN tasks' = Slots
  BY <1>1 DEF TasksReady, Became
<1>3. ASSUME NEW u \in Slots
      PROVE  Ready(tasks[u])'
  <2>1. CASE u = s
    BY <1>1, <2>1 DEF TasksReady, Became
  <2>2. CASE u # s
    <3>1. PICK v : v = tasks[u]
      OBVIOUS
    <3>2. tasks'[u] = v
      BY <1>1, <2>2, <3>1 DEF TasksReady, Became
    <3>3. Ready(v)'
      BY <3>1, ReadyKept DEF TasksReady
    <3>4. QED
      BY <3>2, <3>3
  <2>3. QED
    BY <2>1, <2>2
<1>4. QED
  BY <1>2, <1>3 DEF TasksReady

(* Tasks that rest stay proper.                                            *)
LEMMA RestReady ==
    ASSUME TasksReady, UNCHANGED tasks, Kept
    PROVE  TasksReady'
<1>1. ASSUME NEW u \in Slots
      PROVE  Ready(tasks[u])'
  <2>1. PICK v : v = tasks[u]
    OBVIOUS
  <2>2. Ready(v)'
    BY <2>1, ReadyKept DEF TasksReady
  <2>3. tasks'[u] = v
    BY <2>1
  <2>4. QED
    BY <2>2, <2>3
<1>2. QED
  BY <1>1 DEF TasksReady

-----------------------------------------------------------------------------
(* The steps of a task.                                                    *)

(* The codes an error carries (errors.ts), one by one.                     *)
LEMMA CodesAre ==
    ErrorCodes =
      {"ATTESTATION_NOT_FOUND", "POLICY_NOT_FOUND", "INSUFFICIENT_STAKE",
       "TAMPERED_PAYLOAD", "TRIGGER_NOT_COVERED", "DISPUTE_WINDOW_CLOSED",
       "ALREADY_CHALLENGED", "ATTESTATION_NOT_ACTIVE", "POLICY_EXPIRED",
       "VAULT_INSOLVENT", "UNAUTHORIZED", "PAYLOAD_UNAVAILABLE",
       "PAYMENT_REQUIRED", "INTERNAL_ERROR"}
BY DEF ErrorCodes, STATUS_BY_CODE

(* What a task may return says something, and no progress is taken for it. *)
LEMMA ResultsSay ==
    ASSUME NEW job, NEW outcome \in ErrorCodes \cup Results(job)
    PROVE  outcome \in Outcomes /\ outcome # "none"
BY CodesAre DEF Results, Outcomes

(* Of an attempt, a value is a success and what was not found is a 404.    *)
LEMMA TurnTells ==
    ASSUME NEW reply \in RestReplies, NEW attempt \in 0 .. Retries, NEW turn,
           turn = get(attempt, reply.status, reply.body)
    PROVE  \/ turn = "value" /\ reply.status = 200
           \/ turn = "retry" /\ attempt < Retries
           \/ /\ turn \in ErrorCodes
              /\ turn \in {"ATTESTATION_NOT_FOUND", "POLICY_NOT_FOUND"} =>
                    reply.status = 404
<1> DEFINE status == reply.status
           body == reply.body
<1>1. status \in Nat /\ Retries \in Nat
  BY RepliesAssumption, RetriesAssumption
<1>2. body \in ErrorCodes => STATUS_BY_CODE[body] = status
  BY RepliesAssumption
<1> HIDE DEF status, body
<1>3. CASE body \in ErrorCodes
  <2>1. body \in {"ATTESTATION_NOT_FOUND", "POLICY_NOT_FOUND"} => status = 404
    BY <1>2, <1>3 DEF STATUS_BY_CODE
  <2>2. errorFromProblem(status, body) = body
    BY <1>3 DEF errorFromProblem
  <2>3. body \notin {"json", "retry"} /\ "INTERNAL_ERROR" \in ErrorCodes
    BY <1>3, CodesAre
  <2>4. turn = get(attempt, status, body)
    BY DEF status, body
  <2>5. turn \in {"retry", "INTERNAL_ERROR", body} /\ (turn = "retry" => attempt < Retries)
    BY <2>2, <2>3, <2>4 DEF get
  <2>6. QED
    BY <1>3, <2>1, <2>3, <2>5 DEF status
<1>4. CASE body \notin ErrorCodes
  <2>1. errorFromProblem(status, body) = CODE_BY_STATUS(status)
    BY <1>4 DEF errorFromProblem
  <2>2. /\ CODE_BY_STATUS(status) \in ErrorCodes
        /\ CODE_BY_STATUS(status) # "POLICY_NOT_FOUND"
        /\ CODE_BY_STATUS(status) = "ATTESTATION_NOT_FOUND" => status = 404
        /\ "INTERNAL_ERROR" \in ErrorCodes
    BY <1>1, CodesAre DEF CODE_BY_STATUS
  <2>3. turn = get(attempt, status, body)
    BY DEF status, body
  <2>4. \/ turn = "value" /\ status = 200
        \/ turn = "retry" /\ attempt < Retries
        \/ turn \in {"INTERNAL_ERROR", CODE_BY_STATUS(status)}
    BY <2>1, <2>3 DEF get
  <2>5. QED
    BY <2>2, <2>4 DEF status
<1>5. QED
  BY <1>3, <1>4

(* A task that was begun and has not been answered may return.             *)
LEMMA Returns ==
    ASSUME TasksReady, Kept, NEW s \in Slots,
           tasks[s].stage \notin {"free", "payment", "answered"},
           NEW outcome \in ErrorCodes \cup Results(tasks[s].job),
           Return(s, outcome),
           Honest(tasks[s], [answer |-> outcome]),
           outcome = "attestation" => tasks[s].id \in Published
    PROVE  Moves(s)
<1>1. PICK was : was = tasks[s]
  OBVIOUS
<1>2. PICK t : t = Now(was, "returned", 0, outcome)
  OBVIOUS
<1>3. Ready(was)
  BY <1>1 DEF TasksReady
<1>4. Became(s, t)
  BY <1>1, <1>2, <1>3, ReturnNow DEF TasksReady, Ready
<1>5. outcome \in Outcomes /\ outcome # "none"
  BY ResultsSay
<1>6. IsTask(t)
  BY <1>2, <1>3, <1>5, RetriesAssumption DEF Ready, IsTask, Now, Stages
<1>7. Proper(t)
  BY <1>1, <1>2, <1>3, <1>5 DEF Ready, Proper, Now, Answered
<1>8. Backed(t)
  BY <1>1, <1>2, <1>3 DEF Ready, Backed, Now
<1>9. Ready(t)'
  BY <1>6, <1>7, <1>8, ReadyKept DEF Ready
<1>10. Honest(was, t)
  BY <1>1, <1>2 DEF Honest, Now
<1>11. QED
  BY <1>1, <1>4, <1>9, <1>10 DEF Moves

(* A task that goes on to read, or to have its payload submitted.          *)
LEMMA GoesOn ==
    ASSUME TasksReady, Kept, NEW s \in Slots, NEW stage, GoOn(s, stage),
           \/ /\ stage = "attestation"
              /\ tasks[s].stage = "payment"
              /\ tasks[s].extra = "header" /\ Gate
           \/ /\ stage = "payload"
              /\ tasks[s].stage = "attestation"
              /\ tasks[s].job # "get"
              /\ tasks[s].id \in Published
           \/ /\ stage = "submit"
              /\ tasks[s].stage = "put"
              /\ \E key : key = contentKey(tasks[s].payload) /\ Had(key)'
    PROVE  Moves(s)
<1>1. PICK was : was = tasks[s]
  OBVIOUS
<1>2. PICK t : t = Now(was, stage, 0, was.answer)
  OBVIOUS
<1>3. Ready(was)
  BY <1>1 DEF TasksReady
<1>4. Became(s, t)
  BY <1>1, <1>2, <1>3, GoOnNow DEF TasksReady, Ready
<1>5. IsTask(t)
  BY <1>2, <1>3, RetriesAssumption DEF Ready, IsTask, Now, Stages
<1>6. Proper(t)
  BY <1>1, <1>2, <1>3 DEF Ready, Proper, Now, Answered
<1>7. Gate' = Gate /\ Published \subseteq Published'
  BY DEF Kept, Gate, here
<1>8. t.stage = "submit" => Had(contentKey(t.payload))'
  <2>1. SUFFICES ASSUME t.stage = "submit"
                 PROVE  Had(contentKey(t.payload))'
    OBVIOUS
  <2>2. stage = "submit" /\ t.payload = was.payload
    BY <1>2, <2>1 DEF Now
  <2>3. PICK key : key = contentKey(was.payload) /\ Had(key)'
    BY <1>1, <2>2
  <2>4. QED
    BY <2>2, <2>3
<1>9. Backed(t)'
  BY <1>1, <1>2, <1>3, <1>7, <1>8 DEF Ready, Backed, Now
<1>10. IsTask(t)' /\ Proper(t)'
  BY <1>5, <1>6 DEF IsTask, Proper
<1>11. Honest(was, t)
  BY <1>1, <1>2, <1>3 DEF Honest, Now, Ready, Proper, Answered
<1>12. QED
  BY <1>1, <1>4, <1>9, <1>10, <1>11 DEF Moves, Ready

(* Polling once more is a proper move.                                     *)
LEMMA RetryMoves ==
    ASSUME TasksReady, Kept, NEW s \in Slots, tasks[s].attempt < Retries,
           tasks' = [tasks EXCEPT ![s].attempt = @ + 1]
    PROVE  Moves(s)
<1>1. PICK was : was = tasks[s]
  OBVIOUS
<1>2. PICK t : t = Now(was, was.stage, was.attempt + 1, was.answer)
  OBVIOUS
<1>3. Ready(was)
  BY <1>1 DEF TasksReady
<1>4. Became(s, t)
  BY <1>1, <1>2, <1>3, RetryNow DEF TasksReady, Ready
<1>5. IsTask(t)
  BY <1>1, <1>2, <1>3, RetriesAssumption DEF Ready, IsTask, Now
<1>6. Proper(t)
  BY <1>2, <1>3 DEF Ready, Proper, Now
<1>7. Backed(t)
  BY <1>2, <1>3 DEF Ready, Backed, Now
<1>8. Ready(t)'
  BY <1>5, <1>6, <1>7, ReadyKept DEF Ready
<1>9. Honest(was, t)
  BY <1>1, <1>2, <1>3 DEF Honest, Now
<1>10. QED
  BY <1>1, <1>4, <1>8, <1>9 DEF Moves

(* An attempt ends with what was found, in another one or with an error.   *)
LEMMA AttemptMoves ==
    ASSUME TasksReady, Kept, NEW s \in Slots,
           NEW replies \in SUBSET RestReplies, NEW ACTION Found,
           Attempt(s, replies, Found),
           tasks[s].stage \in {"attestation", "reputation"},
           tasks[s].stage = "reputation" => Live,
           tasks[s].stage = "attestation" =>
              \A reply \in replies :
                 reply.status = 404 => tasks[s].id \notin Published,
           policies \in Seq({"Active", "Expired"}),
           Found /\ (\E reply \in replies : reply.status = 200) => Moves(s)
    PROVE  Moves(s)
<1>1. Ready(tasks[s])
  BY DEF TasksReady
<1>2. PICK reply \in replies :
        LET turn == get(tasks[s].attempt, reply.status, reply.body)
        IN  CASE turn = "value" -> Found
              [] turn = "retry" ->
                    tasks' = [tasks EXCEPT ![s].attempt = @ + 1]
              [] OTHER -> Return(s, turn)
  BY DEF Attempt
<1> DEFINE turn == get(tasks[s].attempt, reply.status, reply.body)
<1>3. \/ turn = "value" /\ reply.status = 200
      \/ turn = "retry" /\ tasks[s].attempt < Retries
      \/ /\ turn \in ErrorCodes
         /\ turn \in {"ATTESTATION_NOT_FOUND", "POLICY_NOT_FOUND"} =>
               reply.status = 404
  BY <1>1, TurnTells DEF Ready, IsTask
<1>4. /\ turn = "value" => Found
      /\ turn = "retry" => tasks' = [tasks EXCEPT ![s].attempt = @ + 1]
      /\ turn \notin {"value", "retry"} => Return(s, turn)
  BY <1>2
<1> HIDE DEF turn
<1>5. CASE turn = "value" /\ reply.status = 200
  BY <1>4, <1>5
<1>6. CASE turn = "retry" /\ tasks[s].attempt < Retries
  BY <1>4, <1>6, RetryMoves
<1>7. CASE /\ turn \in ErrorCodes
           /\ turn \in {"ATTESTATION_NOT_FOUND", "POLICY_NOT_FOUND"} =>
                 reply.status = 404
  <2>1. Return(s, turn)
    BY <1>4, <1>7, CodesAre
  <2>2. turn = "POLICY_NOT_FOUND" => tasks[s].policy \notin DOMAIN policies
    <3>1. ASSUME turn = "POLICY_NOT_FOUND"
          PROVE  tasks[s].policy = 0
      BY <1>1, <1>7, <3>1 DEF Ready, Proper
    <3>2. 0 \notin DOMAIN policies
      OBVIOUS
    <3>3. QED
      BY <3>1, <3>2
  <2>3. Honest(tasks[s], [answer |-> turn])
    BY <1>7, <2>2 DEF Honest
  <2>4. QED
    BY <1>7, <2>1, <2>3, CodesAre, Returns
<1>8. QED
  BY <1>3, <1>5, <1>6, <1>7

(* A task begun, or answered and left.                                     *)
LEMMA Begins ==
    ASSUME TasksReady, Kept, NEW s \in Slots, NEW t, Begin(s, t), Ready(t),
           Honest(tasks[s], t)
    PROVE  Moves(s)
<1>1. Became(s, t)
  BY DEF Begin, Became
<1>2. Ready(t)'
  BY ReadyKept
<1>3. QED
  BY <1>1, <1>2 DEF Moves

(* An idle slot is proper, and owes nobody a verdict.                      *)
LEMMA FreeReady == ASSUME NEW was PROVE Ready(Free) /\ Honest(was, Free)
<1> DEFINE t == Begun("nobody", "none", "free", 0, Absent, "none", 0, "none")
<1>1. Free = t
  BY TaskBegun DEF Free
<1>2. IsTask(t)
  BY RetriesAssumption
     DEF Begun, IsTask, Now, Servers, Jobs, Stages, Outcomes
<1>3. Proper(t) /\ Backed(t)
  BY DEF Begun, Proper, Backed, Answered
<1>4. Honest(was, t)
  BY DEF Begun, Honest
<1>5. QED
  BY <1>1, <1>2, <1>3, <1>4 DEF Ready

(* The attestation is there, or it is not, or the API did not tell.        *)
LEMMA ReadAttestationMoves ==
    ASSUME TasksReady, DataInv, PoliciesOK, NEW s \in Slots,
           ReadAttestation(s)
    PROVE  Moves(s)
<1>1. Kept /\ Ready(tasks[s]) /\ tasks[s].stage = "attestation"
  BY DataUnchanged DEF ReadAttestation, At, TasksReady
<1>2. tasks[s].job \in {"get", "read", "verify"}
  BY <1>1 DEF Ready, Proper
<1> DEFINE Found == IF tasks[s].job = "get" THEN Return(s, "attestation")
                    ELSE GoOn(s, "payload")
<1>3. ASSUME Found, tasks[s].id \in Published
      PROVE  Moves(s)
  <2>1. CASE tasks[s].job = "get"
    <3>1. Return(s, "attestation") /\ "attestation" \in Results(tasks[s].job)
      BY <1>3, <2>1 DEF Results
    <3>2. Honest(tasks[s], [answer |-> "attestation"])
      BY DEF Honest
    <3>3. QED
      BY <1>1, <1>3, <3>1, <3>2, Returns
  <2>2. CASE tasks[s].job # "get"
    BY <1>1, <1>3, <2>2, GoesOn
  <2>3. QED
    BY <2>1, <2>2
<1>4. CASE Live
  <2>1. Attempt(s, Truthful(tasks[s].id), Found)
    BY <1>4 DEF ReadAttestation
  <2> HIDE DEF Found
  <2>2. Truthful(tasks[s].id) \subseteq RestReplies
    BY DEF Truthful
  <2>3. \A reply \in Truthful(tasks[s].id) :
           /\ reply.status = 404 => tasks[s].id \notin Published
           /\ reply.status = 200 => tasks[s].id \in Published
    BY DEF Truthful
  <2>4. QED
    BY <1>1, <1>3, <2>1, <2>2, <2>3, AttemptMoves DEF PoliciesOK
<1>5. CASE ~Live /\ tasks[s].id \in Published
  <2>1. Found
    BY <1>5 DEF ReadAttestation
  <2>2. QED
    BY <1>3, <1>5, <2>1
<1>6. CASE ~Live /\ tasks[s].id \notin Published
  <2>1. Return(s, "ATTESTATION_NOT_FOUND")
    BY <1>6 DEF ReadAttestation
  <2>2. Honest(tasks[s], [answer |-> "ATTESTATION_NOT_FOUND"])
    BY <1>6 DEF Honest
  <2>3. QED
    BY <1>1, <2>1, <2>2, CodesAre, Returns
<1>7. QED
  BY <1>4, <1>5, <1>6

(* The verdict is settled and kept over the next await.                    *)
LEMMA VerdictMoves ==
    ASSUME TasksReady, Kept, NEW s \in Slots, NEW verdict \in {"PASS", "FAIL"},
           tasks[s].stage = "payload", tasks[s].job = "verify",
           tasks' = [tasks EXCEPT ![s].stage = "reputation",
                                  ![s].answer = verdict]
    PROVE  Moves(s)
<1>1. PICK was : was = tasks[s]
  OBVIOUS
<1>2. PICK t : t = Now(was, "reputation", was.attempt, verdict)
  OBVIOUS
<1>3. Ready(was)
  BY <1>1 DEF TasksReady
<1>4. Became(s, t)
  BY <1>1, <1>2, <1>3, VerdictNow DEF TasksReady, Ready
<1>5. IsTask(t)
  BY <1>2, <1>3 DEF Ready, IsTask, Now, Stages, Outcomes
<1>6. Proper(t)
  BY <1>1, <1>2, <1>3 DEF Ready, Proper, Now, Answered
<1>7. Backed(t)
  BY <1>1, <1>2, <1>3 DEF Ready, Backed, Now
<1>8. Ready(t)'
  BY <1>5, <1>6, <1>7, ReadyKept DEF Ready
<1>9. Honest(was, t)
  BY <1>2 DEF Honest, Now
<1>10. QED
  BY <1>1, <1>4, <1>8, <1>9 DEF Moves

(* What a read of the payload comes to.                                    *)
Read(s) ==
    LET committed == records[tasks[s].id].commitment
        key == contentKey(committed)
    IN  \/ /\ Bucket \/ getJsonThrows(key)
           /\ Return(s, IF tasks[s].job = "read" THEN "missing"
                        ELSE "INTERNAL_ERROR")
        \/ /\ ~getJsonThrows(key)
           /\ tasks[s].job = "read"
           /\ Return(s, "payload")
        \/ /\ ~getJsonThrows(key)
           /\ tasks[s].job = "verify" /\ ~Hashable(objects[key])
           /\ Return(s, "INTERNAL_ERROR")
        \/ /\ ~getJsonThrows(key)
           /\ tasks[s].job = "verify" /\ Hashable(objects[key])
           /\ tasks' = [tasks EXCEPT ![s].stage = "reputation",
                                     ![s].answer =
                IF valid(objects[key], committed) THEN "PASS" ELSE "FAIL"]

(* What is known of a task that reads its payload.                         *)
LEMMA ReadPayloadReads ==
    ASSUME TasksReady, NEW s \in Slots, ReadPayload(s)
    PROVE  /\ tasks[s].stage = "payload"
           /\ tasks[s].job \in {"read", "verify"}
           /\ tasks[s].id \in Published
           /\ UNCHANGED <<records, storeVars, deployed>>
           /\ Read(s)
<1>1. Ready(tasks[s]) /\ tasks[s].stage = "payload"
  BY DEF TasksReady, ReadPayload, At
<1>2. tasks[s].job \in {"read", "verify"} /\ tasks[s].id \in Published
  BY <1>1 DEF Ready, Proper, Backed
<1>3. QED
  BY <1>1, <1>2 DEF ReadPayload, Read

(* Reading the payload is a proper move.                                   *)
LEMMA ReadPayloadMoves ==
    ASSUME TasksReady, DataInv, NEW s \in Slots, ReadPayload(s)
    PROVE  Moves(s)
<1>1. /\ tasks[s].stage = "payload" /\ tasks[s].job \in {"read", "verify"}
      /\ Kept /\ Read(s)
  BY ReadPayloadReads, DataUnchanged
<1>2. "INTERNAL_ERROR" \in ErrorCodes
  BY CodesAre
<1>3. tasks[s].job = "read" => {"missing", "payload"} \subseteq Results(tasks[s].job)
  BY DEF Results
<1>4. ASSUME NEW outcome, Return(s, outcome),
             \/ outcome = "INTERNAL_ERROR"
             \/ outcome \in {"missing", "payload"} /\ tasks[s].job = "read"
      PROVE  Moves(s)
  <2>1. Honest(tasks[s], [answer |-> outcome])
    BY <1>4 DEF Honest
  <2>2. outcome \in ErrorCodes \cup Results(tasks[s].job)
    BY <1>2, <1>3, <1>4
  <2>3. QED
    BY <1>1, <1>4, <2>1, <2>2, Returns
<1>5. ASSUME NEW verdict \in {"PASS", "FAIL"}, tasks[s].job = "verify",
             tasks' = [tasks EXCEPT ![s].stage = "reputation",
                                    ![s].answer = verdict]
      PROVE  Moves(s)
  BY <1>1, <1>5, VerdictMoves
<1>6. QED
  <2> DEFINE committed == records[tasks[s].id].commitment
             key == contentKey(committed)
             verdict == IF valid(objects[key], committed) THEN "PASS" ELSE "FAIL"
             refusal == IF tasks[s].job = "read" THEN "missing" ELSE "INTERNAL_ERROR"
  <2>1. \/ Return(s, refusal)
        \/ tasks[s].job = "read" /\ Return(s, "payload")
        \/ Return(s, "INTERNAL_ERROR")
        \/ /\ tasks[s].job = "verify"
           /\ tasks' = [tasks EXCEPT ![s].stage = "reputation",
                                     ![s].answer = verdict]
    BY <1>1 DEF Read
  <2>2. verdict \in {"PASS", "FAIL"}
    OBVIOUS
  <2>3. \/ refusal = "INTERNAL_ERROR"
        \/ refusal = "missing" /\ tasks[s].job = "read"
    <3>1. PICK job : job = tasks[s].job
      OBVIOUS
    <3>2. refusal = IF job = "read" THEN "missing" ELSE "INTERNAL_ERROR"
      BY <3>1
    <3>3. QED
      BY <3>1, <3>2
  <2> HIDE DEF verdict, refusal
  <2>4. QED
    BY <1>4, <1>5, <2>1, <2>2, <2>3

(* Reading the attestor's reputation is a proper move.                     *)
LEMMA ReadReputationMoves ==
    ASSUME TasksReady, DataInv, PoliciesOK, NEW s \in Slots,
           ReadReputation(s)
    PROVE  Moves(s)
<1>1. Kept /\ Ready(tasks[s]) /\ tasks[s].stage = "reputation"
  BY DataUnchanged DEF ReadReputation, At, TasksReady
<1>2. tasks[s].job = "verify" /\ tasks[s].answer \in {"PASS", "FAIL"}
  BY <1>1 DEF Ready, Proper
<1>3. ASSUME Return(s, tasks[s].answer)
      PROVE  Moves(s)
  <2>1. PICK outcome : outcome = tasks[s].answer
    OBVIOUS
  <2>2. Honest(tasks[s], [answer |-> outcome])
    BY <1>2, <2>1 DEF Honest
  <2>3. outcome \in Results(tasks[s].job)
    BY <1>2, <2>1 DEF Results
  <2>4. QED
    BY <1>1, <1>2, <1>3, <2>1, <2>2, <2>3, Returns
<1>4. CASE Live
  <2>1. Attempt(s, RestReplies, Return(s, tasks[s].answer))
    BY <1>4 DEF ReadReputation
  <2>2. QED
    BY <1>1, <1>3, <1>4, <2>1, AttemptMoves DEF PoliciesOK
<1>5. CASE ~Live
  BY <1>3, <1>5 DEF ReadReputation
<1>6. QED
  BY <1>4, <1>5

(* A payload is stored before its attestation is submitted.                *)
LEMMA PutPayloadMoves ==
    ASSUME TasksReady, DataInv, NEW s \in Slots, PutPayload(s)
    PROVE  Moves(s) /\ DataInv' /\ Kept
<1>1. Ready(tasks[s]) /\ tasks[s].stage = "put"
  BY DEF PutPayload, At, TasksReady
<1>2. tasks[s].payload \in Payloads
  BY <1>1 DEF Ready, Proper
<1>3. UNCHANGED <<records, deployed>>
  BY DEF PutPayload
<1>4. CASE Put(tasks[s].payload) /\ GoOn(s, "submit")
  <2>1. PICK payload \in Payloads : payload = tasks[s].payload
    BY <1>2
  <2>2. /\ DataInv' /\ Kept
        /\ \E key : key = contentKey(payload) /\ Had(key)'
    BY <1>3, <1>4, <2>1, PutKeeps
  <2>3. \E key : key = contentKey(tasks[s].payload) /\ Had(key)'
    BY <2>1, <2>2
  <2>4. QED
    BY <1>1, <1>4, <2>2, <2>3, GoesOn
<1>5. CASE Return(s, "INTERNAL_ERROR") /\ UNCHANGED storeVars
  <2>1. DataInv' /\ Kept
    BY <1>3, <1>5, DataUnchanged
  <2>2. Honest(tasks[s], [answer |-> "INTERNAL_ERROR"])
    BY DEF Honest
  <2>3. QED
    BY <1>1, <1>5, <2>1, <2>2, CodesAre, Returns
<1>6. QED
  BY <1>4, <1>5 DEF PutPayload

(* Submitting the record is a proper move, and keeps the records proper.   *)
LEMMA SubmitMoves ==
    ASSUME TasksReady, DataInv, NEW s \in Slots, Submit(s)
    PROVE  Moves(s) /\ DataInv' /\ Kept
<1>1. Ready(tasks[s]) /\ tasks[s].stage = "submit"
  BY DEF Submit, At, TasksReady
<1>2. /\ tasks[s].payload \in Payloads \cap Commitments
      /\ tasks[s].job = "attest"
      /\ Had(contentKey(tasks[s].payload))
  BY <1>1 DEF Ready, Proper, Backed
<1>3. UNCHANGED <<storeVars, deployed>>
  BY DEF Submit
<1>4. \/ Return(s, "attested") /\ UNCHANGED records
      \/ /\ Return(s, "attested")
         /\ \E a \in Attestors, m \in ModelIds : Publish(a, m, tasks[s].payload)
      \/ /\ \E code \in {"INSUFFICIENT_STAKE", "INTERNAL_ERROR"} : Return(s, code)
         /\ UNCHANGED records
  BY DEF Submit, SubmitPlaceholder, SubmitMock
<1>5. DataInv' /\ Kept
  <2>1. CASE UNCHANGED records
    BY <1>3, <2>1, DataUnchanged
  <2>2. ASSUME NEW a \in Attestors, NEW m \in ModelIds,
               Publish(a, m, tasks[s].payload)
        PROVE  DataInv' /\ Kept
    <3>1. PICK c \in Payloads \cap Commitments : c = tasks[s].payload
      BY <1>2
    <3>2. Publish(a, m, c) /\ Had(contentKey(c))
      BY <1>2, <2>2, <3>1
    <3>3. QED
      BY <1>3, <3>2, PublishKeeps
  <2>3. QED
    BY <1>4, <2>1, <2>2
<1>6. Moves(s)
  <2>1. ASSUME NEW outcome \in {"attested", "INSUFFICIENT_STAKE", "INTERNAL_ERROR"},
               Return(s, outcome)
        PROVE  Moves(s)
    <3>1. outcome \in ErrorCodes \cup Results(tasks[s].job)
      BY <1>2, CodesAre DEF Results
    <3>2. Honest(tasks[s], [answer |-> outcome])
      BY DEF Honest
    <3>3. QED
      BY <1>1, <1>5, <2>1, <3>1, <3>2, Returns
  <2>2. QED
    BY <1>4, <2>1
<1>7. QED
  BY <1>5, <1>6

(* A challenge that is refused says why.                                   *)
LEMMA ChallengeMoves ==
    ASSUME TasksReady, DataInv, NEW s \in Slots, Challenge(s)
    PROVE  Moves(s) /\ DataInv' /\ Kept
<1>1. Ready(tasks[s]) /\ tasks[s].stage = "challenge"
  BY DEF Challenge, At, TasksReady
<1>2. tasks[s].job = "challenge"
  BY <1>1 DEF Ready, Proper
<1>3. UNCHANGED <<storeVars, deployed>>
  BY DEF Challenge
<1>4. \/ Return(s, "challenged") /\ UNCHANGED records
      \/ Return(s, "challenged") /\ Dispute(tasks[s].id)
      \/ /\ Return(s, "ATTESTATION_NOT_FOUND") /\ UNCHANGED records
         /\ tasks[s].id \notin Published
      \/ Return(s, "ALREADY_CHALLENGED") /\ UNCHANGED records
      \/ Return(s, "ATTESTATION_NOT_ACTIVE") /\ UNCHANGED records
  BY DEF Challenge, ChallengePlaceholder, ChallengeMock
<1>5. DataInv' /\ Kept
  <2>1. CASE UNCHANGED records
    BY <1>3, <2>1, DataUnchanged
  <2>2. CASE Dispute(tasks[s].id)
    <3>1. PICK id : id = tasks[s].id
      OBVIOUS
    <3>2. Advance(id, "Active", "Challenged")
      BY <2>2, <3>1 DEF Dispute
    <3>3. QED
      BY <1>3, <3>2, AdvanceKeeps
  <2>3. QED
    BY <1>4, <2>1, <2>2
<1>6. Moves(s)
  <2>1. ASSUME NEW outcome \in {"challenged", "ATTESTATION_NOT_FOUND",
                                "ALREADY_CHALLENGED", "ATTESTATION_NOT_ACTIVE"},
               Return(s, outcome),
               outcome = "ATTESTATION_NOT_FOUND" => tasks[s].id \notin Published
        PROVE  Moves(s)
    <3>1. outcome \in ErrorCodes \cup Results(tasks[s].job)
      BY <1>2, CodesAre DEF Results
    <3>2. Honest(tasks[s], [answer |-> outcome])
      BY <2>1 DEF Honest
    <3>3. QED
      BY <1>1, <1>5, <2>1, <3>1, <3>2, Returns
  <2>2. QED
    BY <1>4, <2>1
<1>7. QED
  BY <1>5, <1>6

(* So is every step of the agents' own.                                    *)
LEMMA TaskStepMoves ==
    ASSUME TasksReady, DataInv, PoliciesOK, NEW s \in Slots, TaskStep(s)
    PROVE  Moves(s) /\ DataInv' /\ Kept
<1>1. CASE ReadAttestation(s)
  BY <1>1, ReadAttestationMoves, DataUnchanged DEF ReadAttestation
<1>2. CASE ReadPayload(s)
  BY <1>2, ReadPayloadMoves, DataUnchanged DEF ReadPayload
<1>3. CASE ReadReputation(s)
  BY <1>3, ReadReputationMoves, DataUnchanged DEF ReadReputation
<1>4. QED
  BY <1>1, <1>2, <1>3, PutPayloadMoves, SubmitMoves, ChallengeMoves DEF TaskStep

-----------------------------------------------------------------------------
(* The servers and the loops.                                              *)

(* A task that was asked for or decided on is begun with nothing answered. *)
LEMMA BegunReady ==
    ASSUME NEW by \in Servers \ {"nobody"}, NEW job \in Jobs, NEW stage, NEW id,
           NEW payload, NEW extra, NEW policy,
           \/ /\ by = "x402" /\ stage = "payment" /\ policy = 0
              /\ job \in {"read", "verify"}
           \/ /\ by # "x402" /\ stage = "attestation" /\ policy = 0
              /\ job \in {"get", "verify"}
           \/ /\ by # "x402" /\ stage = "put" /\ job = "attest"
              /\ payload \in Payloads \cap Commitments
           \/ by # "x402" /\ stage = "challenge" /\ job = "challenge"
           \/ by = "mcp" /\ stage = "policy" /\ job \in {"buy", "claim"}
           \/ by = "runtime" /\ stage \in {"deciding", "sleeping"} /\ job = "none",
           NEW was
    PROVE  /\ Ready(Begun(by, job, stage, id, payload, extra, policy, "none"))
           /\ Honest(was, Begun(by, job, stage, id, payload, extra, policy, "none"))
<1>1. PICK t : t = Begun(by, job, stage, id, payload, extra, policy, "none")
  OBVIOUS
<1>2. /\ t = Now(t, t.stage, t.attempt, t.answer)
      /\ t.by = by /\ t.job = job /\ t.stage = stage /\ t.id = id
      /\ t.payload = payload /\ t.policy = policy /\ t.attempt = 0
      /\ t.answer = "none"
  BY <1>1 DEF Begun, Now
<1>3. IsTask(t)
  BY <1>2, RetriesAssumption DEF IsTask, Servers, Stages, Outcomes
<1>4. Proper(t)
  BY <1>2 DEF Proper, Answered
<1>5. Backed(t)
  BY <1>2 DEF Backed
<1>6. Honest(was, t)
  BY <1>2 DEF Honest
<1>7. QED
  BY <1>1, <1>3, <1>4, <1>5, <1>6 DEF Ready

(* A task answered was asked over a gate that let it pass, or refused.     *)
LEMMA AnswerMoves ==
    ASSUME TasksReady, Kept, NEW s \in Slots, NEW outcome \in Outcomes \ {"none"},
           Answer(s, outcome), tasks[s].stage # "free",
           Honest(tasks[s], [answer |-> outcome]),
           \/ outcome = "PAYMENT_REQUIRED"
           \/ tasks[s].stage = "payment" => tasks[s].extra = "header" /\ Gate,
           tasks[s].stage # "answered"
    PROVE  Moves(s)
<1>1. PICK was : was = tasks[s]
  OBVIOUS
<1>2. PICK t : t = Begun(was.by, "none", "answered", 0, Absent, was.extra, 0, outcome)
  OBVIOUS
<1>3. Became(s, t)
  BY <1>1, <1>2, AnswerNow
<1>4. Ready(was)
  BY <1>1 DEF TasksReady
<1>5. /\ t = Now(t, t.stage, t.attempt, t.answer)
      /\ t.by = was.by /\ t.job = "none" /\ t.stage = "answered"
      /\ t.extra = was.extra /\ t.attempt = 0 /\ t.answer = outcome
  BY <1>2 DEF Begun, Now
<1>6. IsTask(t)
  BY <1>4, <1>5, RetriesAssumption DEF Ready, IsTask, Jobs, Stages
<1>7. Proper(t)
  BY <1>1, <1>4, <1>5 DEF Ready, Proper, Answered
<1>8. Backed(t)
  BY <1>1, <1>4, <1>5 DEF Ready, Backed
<1>9. Ready(t)'
  BY <1>6, <1>7, <1>8, ReadyKept DEF Ready
<1>10. Honest(was, t)
  BY <1>1, <1>5 DEF Honest
<1>11. QED
  BY <1>1, <1>3, <1>9, <1>10 DEF Moves

(* A request to the payment server begins a proper task.                   *)
LEMMA AskX402Moves ==
    ASSUME TasksReady, Kept, NEW s \in Slots, AskX402(s)
    PROVE  Moves(s)
<1>1. PICK job \in {"read", "verify"}, id \in AskedIds \cup {Malformed},
           header \in {"header", "no header"} :
        Begin(s, Task("x402", job, "payment", id, Absent, header))
  BY DEF AskX402
<1>2. PICK t : t = Begun("x402", job, "payment", id, Absent, header, 0, "none")
  OBVIOUS
<1>3. Begin(s, t)
  BY <1>1, <1>2, TaskBegun
<1>4. Ready(t) /\ Honest(tasks[s], t)
  BY <1>2, BegunReady DEF Servers, Jobs
<1>5. QED
  BY <1>3, <1>4, Begins

(* The gate lets pass what a verifier accepts, and none is there to accept *)
(* anything in a production process without a facilitator or the opt-in.   *)
LEMMA AcceptedAtGate ==
    ASSUME deployed \in DOMAIN Environments, NEW header,
           TRUE \in Acceptable(header)
    PROVE  header = "header" /\ Gate
<1>1. {here.facilitator, here.x402Mock, here.production} \subseteq BOOLEAN
  BY EnvironmentIs
<1>2. createPaymentVerifier(here) \in {"mock", "facilitator"}
  BY DEF Acceptable
<1>3. MockOptedIn(here) \/ here.facilitator
  BY <1>2 DEF createPaymentVerifier
<1>4. header = "header"
  BY <1>2 DEF Acceptable
<1>5. QED
  BY <1>1, <1>3, <1>4 DEF MockOptedIn, Gate

(* Each step of the payment server is a proper move.                       *)
LEMMA X402Moves ==
    ASSUME TasksReady, DataInv, NEW s \in Slots, X402Step(s)
    PROVE  Moves(s) /\ DataInv' /\ Kept
<1>1. UNCHANGED <<records, storeVars, deployed>> /\ DataInv' /\ Kept
  BY DataUnchanged DEF X402Step, requirePayment, RespondX402
<1>2. Ready(tasks[s])
  BY DEF TasksReady
<1>3. CASE requirePayment(s)
  <2>1. tasks[s].stage = "payment"
    BY <1>3 DEF requirePayment, At
  <2>2. PICK accepted \in Acceptable(tasks[s].extra) :
          CASE ~accepted -> Answer(s, "PAYMENT_REQUIRED")
            [] accepted /\ tasks[s].id = Malformed -> Answer(s, "BAD_REQUEST")
            [] OTHER -> GoOn(s, "attestation")
    BY <1>3 DEF requirePayment
  <2>3. accepted \in BOOLEAN
    BY DEF Acceptable
  <2>4. accepted => tasks[s].extra = "header" /\ Gate
    BY <2>3, AcceptedAtGate DEF DataInv
  <2>5. \A outcome \in {"PAYMENT_REQUIRED", "BAD_REQUEST"} :
           /\ outcome \in Outcomes \ {"none"}
           /\ Honest(tasks[s], [answer |-> outcome])
    BY CodesAre DEF Outcomes, Honest
  <2>6. CASE Answer(s, "PAYMENT_REQUIRED")
    BY <1>1, <2>1, <2>5, <2>6, AnswerMoves
  <2>7. CASE accepted /\ Answer(s, "BAD_REQUEST")
    BY <1>1, <2>1, <2>4, <2>5, <2>7, AnswerMoves
  <2>8. CASE accepted /\ GoOn(s, "attestation")
    BY <1>1, <2>1, <2>4, <2>8, GoesOn
  <2>9. QED
    BY <1>1, <2>2, <2>3, <2>6, <2>7, <2>8
<1>4. CASE RespondX402(s)
  <2>1. /\ tasks[s].stage = "returned" /\ tasks[s].answer # "none"
        /\ tasks[s].answer \in Outcomes
    BY <1>2, <1>4 DEF RespondX402, At, Ready, Proper, Answered, IsTask
  <2>2. PICK outcome : outcome = handleError(tasks[s].answer)
    OBVIOUS
  <2>3. outcome \in Outcomes \ {"none"}
    BY <2>1, <2>2, CodesAre DEF handleError, Outcomes
  <2>4. outcome \in {"ATTESTATION_NOT_FOUND", "POLICY_NOT_FOUND"} =>
          tasks[s].answer = outcome
    BY <2>2, CodesAre DEF handleError
  <2>5. Answer(s, outcome) /\ Honest(tasks[s], [answer |-> outcome])
    BY <1>4, <2>2, <2>4 DEF RespondX402, Honest
  <2>6. QED
    BY <1>1, <2>1, <2>3, <2>5, AnswerMoves
<1>5. QED
  BY <1>1, <1>3, <1>4 DEF X402Step

(* A call of a tool of the MCP server begins a proper task.                *)
LEMMA CallToolMoves ==
    ASSUME TasksReady, DataInv, NEW s \in Slots, CallTool(s)
    PROVE  Moves(s) /\ DataInv' /\ Kept
<1>1. DataInv' /\ Kept
  BY DataUnchanged DEF CallTool
<1>2. ASSUME NEW job, NEW stage, NEW id, NEW payload,
             Begin(s, Task("mcp", job, stage, id, payload, "none")),
             \/ stage = "attestation" /\ job \in {"get", "verify"}
             \/ /\ stage = "put" /\ job = "attest"
                /\ payload \in Payloads \cap Commitments
             \/ stage = "challenge" /\ job = "challenge"
             \/ stage = "policy" /\ job = "buy"
      PROVE  Moves(s)
  <2>1. PICK t : t = Begun("mcp", job, stage, id, payload, "none", 0, "none")
    OBVIOUS
  <2>2. Begin(s, t)
    BY <1>2, <2>1, TaskBegun
  <2>3. Ready(t) /\ Honest(tasks[s], t)
    BY <1>2, <2>1, BegunReady DEF Servers, Jobs
  <2>4. QED
    BY <1>1, <2>2, <2>3, Begins
<1>3. CASE getAttestationTool(s) \/ verifyTool(s) \/ challengeTool(s)
  BY <1>1, <1>2, <1>3 DEF getAttestationTool, verifyTool, challengeTool, Tool
<1>4. CASE submitAttestationTool(s)
  <2>1. PICK payload \in here.payloads : Tool(s, "attest", "put", 0, payload)
    BY <1>4 DEF submitAttestationTool
  <2>2. payload \in Payloads \cap Commitments
    BY <2>1, EnvironmentIs DEF DataInv
  <2>3. QED
    BY <1>1, <1>2, <2>1, <2>2 DEF Tool
<1>5. CASE buyPolicyTool(s)
  BY <1>1, <1>2, <1>5 DEF buyPolicyTool, Tool
<1>6. CASE getRiskScoreTool(s)
  <2>1. PICK t : t = Begun("mcp", "score", "returned", 0, Absent, "none", 0, "score")
    OBVIOUS
  <2>2. Begin(s, t)
    BY <1>6, <2>1, AnsweredBegun DEF getRiskScoreTool
  <2>3. /\ t = Now(t, t.stage, t.attempt, t.answer)
        /\ t.by = "mcp" /\ t.job = "score" /\ t.stage = "returned"
        /\ t.attempt = 0 /\ t.answer = "score"
    BY <2>1 DEF Begun, Now
  <2>4. IsTask(t)
    BY <2>3, RetriesAssumption DEF IsTask, Servers, Jobs, Stages, Outcomes
  <2>5. Proper(t)
    BY <2>3 DEF Proper, Answered, Results
  <2>6. Backed(t) /\ Honest(tasks[s], t)
    BY <2>3 DEF Backed, Honest
  <2>7. QED
    BY <1>1, <2>2, <2>4, <2>5, <2>6, Begins DEF Ready
<1>7. CASE submitClaimTool(s)
  <2>1. PICK id \in ToolIds, p \in ToolPolicyIds :
          Begin(s, [Task("mcp", "claim", "policy", id, Absent, "none")
                       EXCEPT !.policy = p])
    BY <1>7 DEF submitClaimTool
  <2>2. PICK t : t = Begun("mcp", "claim", "policy", id, Absent, "none", p, "none")
    OBVIOUS
  <2>3. Begin(s, t)
    BY <2>1, <2>2, ClaimBegun
  <2>4. Ready(t) /\ Honest(tasks[s], t)
    BY <2>2, BegunReady DEF Servers, Jobs
  <2>5. QED
    BY <1>1, <2>3, <2>4, Begins
<1>8. QED
  BY <1>1, <1>3, <1>4, <1>5, <1>6, <1>7 DEF CallTool, TOOLS

(* A claim is refused for what is so, and marks a policy that has lapsed.  *)
LEMMA PolicyStepMoves ==
    ASSUME TasksReady, DataInv, PoliciesOK, NEW s \in Slots, PolicyStep(s)
    PROVE  Moves(s) /\ DataInv' /\ Kept /\ PoliciesOK'
<1>1. DataInv' /\ Kept
  BY DataUnchanged DEF PolicyStep
<1>2. Ready(tasks[s]) /\ tasks[s].stage = "policy"
  BY DEF TasksReady, PolicyStep, At
<1>3. tasks[s].job \in {"buy", "claim"}
  BY <1>2 DEF Ready, Proper
<1>4. ASSUME NEW outcome \in {"policy", "paid"}, Return(s, outcome)
      PROVE  Moves(s)
  <2>1. outcome \in Results(tasks[s].job)
    BY <1>3 DEF Results
  <2>2. Honest(tasks[s], [answer |-> outcome])
    BY DEF Honest
  <2>3. QED
    BY <1>1, <1>2, <1>4, <2>1, <2>2, Returns
<1>5. CASE PolicyPlaceholder(s)
  BY <1>1, <1>3, <1>4, <1>5 DEF PolicyPlaceholder, PoliciesOK
<1>6. CASE CreatePolicyMock(s)
  BY <1>1, <1>4, <1>6 DEF CreatePolicyMock, PoliciesOK
<1>7. CASE SubmitClaimMock(s)
  <2>1. PICK p : p = tasks[s].policy
    OBVIOUS
  <2>2. PICK lapsed \in BOOLEAN :
          /\ Return(s, Refusal(p, tasks[s].id, lapsed))
          /\ policies' = [q \in DOMAIN policies |->
                             IF q = p /\ lapsed THEN "Expired" ELSE policies[q]]
    BY <1>7, <2>1 DEF SubmitClaimMock
  <2>3. PoliciesOK'
    <3>1. PICK n \in Nat : policies \in [1 .. n -> {"Active", "Expired"}]
      BY DEF PoliciesOK
    <3>2. policies' \in [1 .. n -> {"Active", "Expired"}]
      BY <2>2, <3>1
    <3>3. QED
      BY <3>1, <3>2 DEF PoliciesOK
  <2>4. PICK outcome : outcome = Refusal(p, tasks[s].id, lapsed)
    OBVIOUS
  <2>5. /\ outcome \in {"POLICY_NOT_FOUND", "POLICY_EXPIRED",
                        "ATTESTATION_NOT_FOUND", "TRIGGER_NOT_COVERED"}
        /\ outcome = "POLICY_NOT_FOUND" => p \notin DOMAIN policies
        /\ outcome = "ATTESTATION_NOT_FOUND" => tasks[s].id \notin Published
    BY <2>4 DEF Refusal
  <2>6. Honest(tasks[s], [answer |-> outcome])
    BY <2>1, <2>5 DEF Honest
  <2>7. outcome \in ErrorCodes
    BY <2>5, CodesAre
  <2>8. Moves(s)
    BY <1>1, <1>2, <2>2, <2>4, <2>5, <2>6, <2>7, Returns
  <2>9. QED
    BY <1>1, <2>3, <2>8
<1>8. QED
  BY <1>5, <1>6, <1>7 DEF PolicyStep

(* The MCP server's guard answers properly.                                *)
LEMMA GuardMoves ==
    ASSUME TasksReady, DataInv, NEW s \in Slots, guard(s)
    PROVE  Moves(s) /\ DataInv' /\ Kept
<1>1. DataInv' /\ Kept
  BY DataUnchanged DEF guard
<1>2. Ready(tasks[s]) /\ tasks[s].stage = "returned"
  BY DEF TasksReady, guard, At
<1>3. PICK outcome : outcome = tasks[s].answer
  OBVIOUS
<1>4. outcome \in Outcomes \ {"none"}
  BY <1>2, <1>3 DEF Ready, IsTask, Proper, Answered
<1>5. Honest(tasks[s], [answer |-> outcome])
  BY <1>3, <1>4 DEF Honest
<1>6. Answer(s, outcome)
  BY <1>3 DEF guard
<1>7. QED
  BY <1>1, <1>2, <1>4, <1>5, <1>6, AnswerMoves

(* Whoever asked takes the answer and leaves the slot idle.                *)
LEMMA DismissMoves ==
    ASSUME TasksReady, Kept, NEW s \in Slots, Begin(s, Free)
    PROVE  Moves(s)
BY FreeReady, Begins

(* A cycle of the agent runtime begins a proper task.                      *)
LEMMA StartCycleMoves ==
    ASSUME TasksReady, Kept, NEW s \in Slots, StartCycle(s)
    PROVE  Moves(s)
<1>1. PICK context \in Contexts, id \in LoopIds :
        Begin(s, Task("runtime", "none", "deciding", id, Absent, context))
  BY DEF StartCycle
<1>2. PICK t : t = Begun("runtime", "none", "deciding", id, Absent, context, 0, "none")
  OBVIOUS
<1>3. Begin(s, t)
  BY <1>1, <1>2, TaskBegun
<1>4. Ready(t) /\ Honest(tasks[s], t)
  BY <1>2, BegunReady DEF Servers, Jobs
<1>5. QED
  BY <1>3, <1>4, Begins

(* A cycle does what was decided, with arguments of its own.               *)
LEMMA RunOnceMoves ==
    ASSUME TasksReady, DataInv, NEW s \in Slots, runOnce(s)
    PROVE  Moves(s) /\ DataInv' /\ Kept
<1>1. DataInv' /\ Kept
  BY DataUnchanged DEF runOnce
<1>2. Ready(tasks[s]) /\ tasks[s].stage = "deciding"
  BY DEF TasksReady, runOnce, At
<1>3. PICK decision : execute(s, decision)
  BY DEF runOnce
<1>4. ASSUME NEW job, NEW stage, NEW id, NEW payload,
             Begin(s, Task("runtime", job, stage, id, payload, "none")),
             \/ stage = "attestation" /\ job = "verify"
             \/ /\ stage = "put" /\ job = "attest"
                /\ payload \in Payloads \cap Commitments
             \/ stage = "challenge" /\ job = "challenge"
      PROVE  Moves(s)
  <2>1. PICK t : t = Begun("runtime", job, stage, id, payload, "none", 0, "none")
    OBVIOUS
  <2>2. Begin(s, t)
    BY <1>4, <2>1, TaskBegun
  <2>3. Ready(t) /\ Honest(tasks[s], t)
    BY <1>4, <2>1, BegunReady DEF Servers, Jobs
  <2>4. QED
    BY <1>1, <2>2, <2>3, Begins
<1>5. ASSUME NEW outcome \in {"INTERNAL_ERROR", "nothing"}, Return(s, outcome)
      PROVE  Moves(s)
  <2>1. outcome \in ErrorCodes \cup Results(tasks[s].job)
    BY <1>2, CodesAre DEF Ready, Proper, Results
  <2>2. Honest(tasks[s], [answer |-> outcome])
    BY DEF Honest
  <2>3. QED
    BY <1>1, <1>2, <1>5, <2>1, <2>2, Returns
<1>6. here.payloads \subseteq Payloads \cap Commitments
  BY EnvironmentIs DEF DataInv
<1>7. \/ Return(s, "INTERNAL_ERROR")
      \/ Return(s, "nothing")
      \/ \E p \in here.payloads :
            Begin(s, Task("runtime", "attest", "put", 0, p, "none"))
      \/ \E id : Begin(s, Task("runtime", "verify", "attestation", id, Absent, "none"))
      \/ \E id : Begin(s, Task("runtime", "challenge", "challenge", id, Absent, "none"))
  BY <1>3 DEF execute
<1>8. QED
  BY <1>1, <1>4, <1>5, <1>6, <1>7

(* Each step of the agent runtime is a proper move.                        *)
LEMMA RuntimeMoves ==
    ASSUME TasksReady, DataInv, running \in BOOLEAN, NEW s \in Slots,
           RuntimeStep(s) \/ runLoop(s)
    PROVE  Moves(s) /\ DataInv' /\ Kept /\ running' \in BOOLEAN
<1>1. CASE runOnce(s)
  BY <1>1, RunOnceMoves DEF runOnce
<1>2. CASE runLoop(s)
  BY <1>2, StartCycleMoves, DataUnchanged DEF runLoop
<1>3. ASSUME Begin(s, Task("runtime", "none", "sleeping", 0, Absent, "none")), Kept
      PROVE  Moves(s)
  <2>1. PICK t : t = Begun("runtime", "none", "sleeping", 0, Absent, "none", 0, "none")
    OBVIOUS
  <2>2. Begin(s, t)
    BY <1>3, <2>1, TaskBegun
  <2>3. Ready(t) /\ Honest(tasks[s], t)
    BY <2>1, BegunReady DEF Servers, Jobs
  <2>4. QED
    BY <1>3, <2>2, <2>3, Begins
<1>4. CASE EndCycle(s)
  <2>1. DataInv' /\ Kept /\ running' \in BOOLEAN
    BY <1>4, DataUnchanged DEF EndCycle, EndLoop
  <2>2. QED
    BY <1>3, <1>4, <2>1, DismissMoves DEF EndCycle, EndLoop
<1>5. CASE Awake(s)
  <2>1. DataInv' /\ Kept /\ running' \in BOOLEAN
    BY <1>5, DataUnchanged DEF Awake, EndLoop
  <2>2. QED
    BY <1>5, <2>1, DismissMoves, StartCycleMoves DEF Awake, EndLoop
<1>6. QED
  BY <1>1, <1>2, <1>4, <1>5 DEF RuntimeStep

-----------------------------------------------------------------------------
(* The scripts.                                                            *)

N == Len(Attested)

(* The seeding attests, verifies the first, attests its claim, and has the *)
(* second fetched, corrupted, challenged and resolved.                     *)
LEMMA SeedSteps ==
    /\ N \in Nat /\ N >= 2
    /\ Len(SeedProgram) = N + 7
    /\ \A i \in 1 .. N : SeedProgram[i] = Does("attest", 0, Attested[i])
    /\ SeedProgram[N + 1] = Does("verify", 1, Absent)
    /\ SeedProgram[N + 2] = Does("attest", 0, Claim)
    /\ SeedProgram[N + 3] = Does("insure", 0, Absent)
    /\ SeedProgram[N + 4] = Does("get", 2, Absent)
    /\ SeedProgram[N + 5] = Does("corrupt", 2, Absent)
    /\ SeedProgram[N + 6] = Does("challenge", 2, Absent)
    /\ SeedProgram[N + 7] = Does("resolve", 2, Absent)
<1> DEFINE first == [i \in DOMAIN Attested |-> Does("attest", 0, Attested[i])]
           last == <<Does("verify", 1, Absent), Does("attest", 0, Claim),
                     Does("insure", 0, Absent), Does("get", 2, Absent),
                     Does("corrupt", 2, Absent), Does("challenge", 2, Absent),
                     Does("resolve", 2, Absent)>>
<1>1. N \in Nat /\ N >= 2 /\ DOMAIN Attested = 1 .. N
  BY ScriptsAssumption DEF N
<1>2. Len(first) = N /\ DOMAIN first = 1 .. N
  BY <1>1
<1>3. \A i \in 1 .. N : first[i] = Does("attest", 0, Attested[i])
  BY <1>1
<1>4. Len(last) = 7 /\ DOMAIN last = 1 .. 7
  OBVIOUS
<1>5. /\ last[1] = Does("verify", 1, Absent) /\ last[2] = Does("attest", 0, Claim)
      /\ last[3] = Does("insure", 0, Absent) /\ last[4] = Does("get", 2, Absent)
      /\ last[5] = Does("corrupt", 2, Absent) /\ last[6] = Does("challenge", 2, Absent)
      /\ last[7] = Does("resolve", 2, Absent)
  OBVIOUS
<1>6. SeedProgram = first \o last
  BY DEF SeedProgram
<1> DEFINE S == {first[i] : i \in 1 .. N} \cup {last[i] : i \in 1 .. 7}
<1>a. first \in Seq(S) /\ last \in Seq(S)
  BY <1>1, <1>2, <1>4
<1> HIDE DEF first, last, S
<1>7. /\ Len(first \o last) = N + 7
      /\ \A i \in 1 .. N : (first \o last)[i] = first[i]
      /\ \A j \in 1 .. 7 : (first \o last)[N + j] = last[j]
  <2>1. /\ Len(first \o last) = Len(first) + Len(last)
        /\ \A i \in 1 .. Len(first) + Len(last) :
              (first \o last)[i] = IF i <= Len(first) THEN first[i]
                                  ELSE last[i - Len(first)]
    BY <1>a, ConcatProperties
  <2>2. ASSUME NEW j \in 1 .. 7
        PROVE  (first \o last)[N + j] = last[j]
    <3>1. N + j \in 1 .. N + 7 /\ ~(N + j <= N) /\ (N + j) - N = j
      BY <1>1
    <3>2. QED
      BY <1>2, <1>4, <2>1, <3>1
  <2>3. ASSUME NEW i \in 1 .. N
        PROVE  (first \o last)[i] = first[i]
    <3>1. i \in 1 .. N + 7 /\ i <= N
      BY <1>1
    <3>2. QED
      BY <1>2, <1>4, <2>1, <3>1
  <2>4. Len(first \o last) = N + 7
    BY <1>2, <1>4, <2>1
  <2>5. QED
    BY <2>2, <2>3, <2>4
<1>8. /\ SeedProgram[N + 1] = last[1] /\ SeedProgram[N + 2] = last[2]
      /\ SeedProgram[N + 3] = last[3] /\ SeedProgram[N + 4] = last[4]
      /\ SeedProgram[N + 5] = last[5] /\ SeedProgram[N + 6] = last[6]
      /\ SeedProgram[N + 7] = last[7]
  <2>1. \A j \in 1 .. 7 : SeedProgram[N + j] = last[j]
    BY <1>6, <1>7
  <2>2. QED
    BY <2>1
<1>9. \A i \in 1 .. N : SeedProgram[i] = Does("attest", 0, Attested[i])
  BY <1>3, <1>6, <1>7
<1>10. Len(SeedProgram) = N + 7
  BY <1>6, <1>7
<1>11. QED
  BY <1>1, <1>5, <1>8, <1>9, <1>10

(* The steps of the command-line demonstration.                            *)
LEMMA CliSteps ==
    /\ Len(CliProgram) = 2
    /\ CliProgram[1] = Does("attest", 0, Attested[1])
    /\ CliProgram[2] = Does("verify", 1, Absent)
BY DEF CliProgram

Seeding == "seed" \in here.services

(* A process runs a script only, or none.                                  *)
LEMMA ProgramIs ==
    ASSUME deployed \in DOMAIN Environments
    PROVE  \/ Seeding /\ here.services = {"seed"} /\ Program = SeedProgram
           \/ ~Seeding /\ here.services = {"cli"} /\ Program = CliProgram
           \/ ~Seeding /\ Program = <<>>
<1>1. \A kind \in {"seed", "cli"} :
         kind \in here.services => here.services = {kind}
  BY ScriptsAssumption DEF here
<1>2. QED
  BY <1>1 DEF Program, Seeding

(* A process with no script is one whose script has no steps.              *)
LEMMA ProgramLength ==
    ASSUME deployed \in DOMAIN Environments
    PROVE  Len(Program) \in Nat /\ (Len(Program) = 0 <=> Program = <<>>)
<1>1. Len(<<>>) = 0
  OBVIOUS
<1>2. QED
  BY <1>1, ProgramIs, SeedSteps, CliSteps

(* What a script attests can be recorded.                                  *)
LEMMA StepPayload ==
    ASSUME deployed \in DOMAIN Environments, script.at \in 1 .. Len(Program),
           Step.what = "attest"
    PROVE  Step.payload \in Payloads \cap Commitments
<1>1. /\ \A i \in 1 .. N : Attested[i] \in Payloads \cap Commitments
      /\ Claim \in Payloads \cap Commitments
  BY ScriptsAssumption DEF N
<1>2. PICK at : at = script.at
  OBVIOUS
<1>3. CASE Program = SeedProgram
  <2>1. at \in 1 .. N + 7
    BY <1>2, <1>3, SeedSteps
  <2>2. SeedProgram[at].what = "attest"
    BY <1>2, <1>3 DEF Step
  <2>3. CASE at \in 1 .. N
    <3>1. SeedProgram[at] = Does("attest", 0, Attested[at])
      BY <2>3, SeedSteps
    <3>2. Does("attest", 0, Attested[at]).payload = Attested[at]
      BY DEF Does
    <3>3. QED
      BY <1>1, <1>2, <1>3, <2>3, <3>1, <3>2 DEF Step
  <2>4. CASE at = N + 2
    BY <1>1, <1>2, <1>3, <2>4, SeedSteps DEF Step, Does
  <2>5. at \notin {N + 1, N + 3, N + 4, N + 5, N + 6, N + 7}
    BY <2>2, SeedSteps DEF Does
  <2>6. QED
    BY <2>1, <2>3, <2>4, <2>5, SeedSteps
<1>4. CASE Program = CliProgram
  <2>1. at \in {1, 2}
    BY <1>2, <1>4, CliSteps
  <2>2. at = 1
    BY <1>2, <1>4, <2>1, CliSteps DEF Step, Does
  <2>3. QED
    BY <1>1, <1>2, <1>4, <2>2, CliSteps, SeedSteps DEF Step, Does
<1>5. Program # <<>>
  BY ProgramLength
<1>6. QED
  BY <1>3, <1>4, <1>5, ProgramIs

TheSlot == CHOOSE t \in Slots : TRUE

ScriptTyped ==
    /\ script = [at |-> script.at, ids |-> script.ids, told |-> script.told,
                 end |-> script.end]
    /\ script.at \in 1 .. Len(Program) + 1
    /\ script.ids \in Seq(Int)
    /\ script.told \in Seq({"PASS", "FAIL", "error"})
    /\ script.end \in {"running", "done", "failed", "crashed"}

(* The task that is under way is the one the step of the script calls for. *)
Serves(t) ==
    /\ t.stage \in {"attestation", "payload", "reputation", "put", "submit",
                    "challenge", "returned"}
    /\ \/ Step.what = "attest" /\ t.job = "attest"
       \/ /\ Step.what \in {"verify", "corrupt"}
          /\ t.job = "verify" /\ t.id = Id
       \/ Step.what = "get" /\ t.job = "get" /\ t.id = Id
       \/ Step.what = "challenge" /\ t.job = "challenge" /\ t.id = Id

ScriptAlone ==
    \A s \in Slots :
        /\ tasks[s].by = "script" => Running /\ Serves(tasks[s])
        /\ Program # <<>> /\ tasks[s].stage # "free" =>
              tasks[s].by = "script" /\ s = TheSlot

(* What the seeding corrupts it has fetched before.                        *)
Fetched == Seeding /\ script.at >= N + 5 => script.ids[2] \in Published

ScriptOK == ScriptTyped /\ ScriptAlone /\ Fetched

(* A script that rests is at the step it was at.                           *)
LEMMA ScriptSame ==
    ASSUME UNCHANGED <<script, deployed>>
    PROVE  /\ here' = here /\ Program' = Program /\ Step' = Step /\ Id' = Id
           /\ Seeding' = Seeding /\ Running' = Running
           /\ \A t : Serves(t)' <=> Serves(t)
<1>1. here' = here
  BY DEF here
<1>2. Program' = Program /\ Seeding' = Seeding
  BY <1>1 DEF Program, Seeding
<1>3. Step' = Step
  BY <1>2 DEF Step
<1>4. Id' = Id /\ Running' = Running
  BY <1>2, <1>3 DEF Id, Running
<1>5. \A t : Serves(t)' <=> Serves(t)
  BY <1>3, <1>4 DEF Serves
<1>6. QED
  BY <1>1, <1>2, <1>3, <1>4, <1>5

(* A step of another task, or of the script's own towards its return.      *)
LEMMA ScriptStays ==
    ASSUME ScriptOK, Kept, UNCHANGED script, NEW s \in Slots,
           \A u \in Slots \ {s} : tasks'[u] = tasks[u],
           \/ /\ tasks'[s].by # "script"
              /\ Program = <<>> \/ tasks'[s].stage = "free"
           \/ /\ tasks'[s].by = tasks[s].by
              /\ tasks'[s].job = tasks[s].job /\ tasks'[s].id = tasks[s].id
              /\ tasks'[s].stage \in {"attestation", "payload", "reputation",
                                      "put", "submit", "challenge", "returned"}
              /\ tasks[s].stage # "free"
    PROVE  ScriptOK'
<1>1. UNCHANGED <<script, deployed>> /\ Published \subseteq Published'
  BY DEF Kept
<1>2. /\ Program' = Program /\ Seeding' = Seeding /\ Running' = Running
      /\ \A t : Serves(t)' <=> Serves(t)
  BY <1>1, ScriptSame
<1>3. ScriptTyped'
  BY <1>1, <1>2 DEF ScriptOK, ScriptTyped
<1>4. Fetched'
  BY <1>1, <1>2 DEF ScriptOK, Fetched
<1>5. ASSUME NEW u \in Slots
      PROVE  /\ tasks'[u].by = "script" => Running /\ Serves(tasks'[u])
             /\ Program # <<>> /\ tasks'[u].stage # "free" =>
                   tasks'[u].by = "script" /\ u = TheSlot
  <2>1. CASE u # s
    BY <2>1 DEF ScriptOK, ScriptAlone
  <2>2. CASE /\ u = s /\ tasks'[s].by # "script"
             /\ Program = <<>> \/ tasks'[s].stage = "free"
    BY <2>2
  <2>3. CASE /\ u = s /\ tasks'[s].by = tasks[s].by
             /\ tasks'[s].job = tasks[s].job /\ tasks'[s].id = tasks[s].id
             /\ tasks'[s].stage \in {"attestation", "payload", "reputation",
                                     "put", "submit", "challenge", "returned"}
             /\ tasks[s].stage # "free"
    <3>1. tasks[s].by = "script" => Running /\ Serves(tasks[s])
      BY DEF ScriptOK, ScriptAlone
    <3>2. Serves(tasks[s]) => Serves(tasks'[s])
      BY <2>3 DEF Serves
    <3>3. Program # <<>> => tasks[s].by = "script" /\ s = TheSlot
      BY <2>3 DEF ScriptOK, ScriptAlone
    <3>4. QED
      BY <2>3, <3>1, <3>2, <3>3
  <2>4. QED
    BY <2>1, <2>2, <2>3
<1>6. ScriptAlone'
  BY <1>2, <1>5 DEF ScriptAlone
<1>7. QED
  BY <1>3, <1>4, <1>6 DEF ScriptOK

(* A script at rest keeps what is known of it.                             *)
LEMMA ScriptRests ==
    ASSUME ScriptOK, Kept, UNCHANGED <<script, tasks>>
    PROVE  ScriptOK'
<1>1. UNCHANGED <<script, deployed>> /\ Published \subseteq Published'
  BY DEF Kept
<1>2. /\ Program' = Program /\ Seeding' = Seeding /\ Running' = Running
      /\ \A t : Serves(t)' <=> Serves(t)
  BY <1>1, ScriptSame
<1>3. ScriptTyped' /\ Fetched'
  BY <1>1, <1>2 DEF ScriptOK, ScriptTyped, Fetched
<1>4. ScriptAlone'
  BY <1>2 DEF ScriptOK, ScriptAlone
<1>5. QED
  BY <1>3, <1>4 DEF ScriptOK

(* A task keeps what it is about until it is answered.                     *)
LEMMA NowStays ==
    ASSUME TasksReady, NEW s \in Slots, NEW stage, NEW attempt, NEW answer,
           Became(s, Now(tasks[s], stage, attempt, answer))
    PROVE  /\ tasks'[s] = Now(tasks[s], stage, attempt, answer)
           /\ tasks'[s].by = tasks[s].by /\ tasks'[s].job = tasks[s].job
           /\ tasks'[s].id = tasks[s].id /\ tasks'[s].stage = stage
           /\ tasks'[s].answer = answer /\ tasks'[s].payload = tasks[s].payload
           /\ \A u \in Slots \ {s} : tasks'[u] = tasks[u]
<1>1. PICK t : t = tasks[s]
  OBVIOUS
<1>2. PICK new : new = Now(t, stage, attempt, answer)
  OBVIOUS
<1>3. tasks' = [tasks EXCEPT ![s] = new] /\ DOMAIN tasks = Slots
  BY <1>1, <1>2 DEF Became, TasksReady
<1>4. tasks'[s] = new /\ \A u \in Slots \ {s} : tasks'[u] = tasks[u]
  BY <1>3
<1>5. /\ new.by = t.by /\ new.job = t.job /\ new.id = t.id
      /\ new.stage = stage /\ new.answer = answer /\ new.payload = t.payload
  BY <1>2 DEF Now
<1>6. QED
  BY <1>1, <1>2, <1>4, <1>5

(* Returning an answer changes the task's stage and answer only.           *)
LEMMA ReturnStays ==
    ASSUME TasksReady, NEW s \in Slots, NEW outcome, Return(s, outcome)
    PROVE  /\ tasks'[s].by = tasks[s].by /\ tasks'[s].job = tasks[s].job
           /\ tasks'[s].id = tasks[s].id /\ tasks'[s].stage = "returned"
           /\ tasks'[s].answer = outcome
           /\ \A u \in Slots \ {s} : tasks'[u] = tasks[u]
<1>1. Became(s, Now(tasks[s], "returned", 0, outcome))
  BY ReturnNow DEF TasksReady, Ready
<1>2. tasks'[s] = Now(tasks[s], "returned", 0, outcome)
  BY <1>1 DEF Became, TasksReady
<1>3. \A u \in Slots \ {s} : tasks'[u] = tasks[u]
  BY <1>1 DEF Became, TasksReady
<1>4. QED
  BY <1>2, <1>3 DEF Now

(* Going on to a stage changes the task's stage only.                      *)
LEMMA GoOnStays ==
    ASSUME TasksReady, NEW s \in Slots, NEW stage, GoOn(s, stage)
    PROVE  /\ tasks'[s].by = tasks[s].by /\ tasks'[s].job = tasks[s].job
           /\ tasks'[s].id = tasks[s].id /\ tasks'[s].stage = stage
           /\ tasks'[s].payload = tasks[s].payload
           /\ tasks'[s].answer = tasks[s].answer
           /\ \A u \in Slots \ {s} : tasks'[u] = tasks[u]
<1>1. Became(s, Now(tasks[s], stage, 0, tasks[s].answer))
  BY GoOnNow DEF TasksReady, Ready
<1>2. PICK answer : answer = tasks[s].answer
  OBVIOUS
<1>3. Became(s, Now(tasks[s], stage, 0, answer))
  BY <1>1, <1>2
<1>4. QED
  BY <1>2, <1>3, NowStays, ZenonT(60)

(* Beginning a task changes its own slot only.                             *)
LEMMA BeginStays ==
    ASSUME TasksReady, NEW s \in Slots, NEW t, Begin(s, t)
    PROVE  /\ tasks'[s] = t
           /\ \A u \in Slots \ {s} : tasks'[u] = tasks[u]
BY DEF TasksReady, Begin

Follows(s) ==
    /\ \A u \in Slots \ {s} : tasks'[u] = tasks[u]
    /\ tasks'[s].by = tasks[s].by
    /\ tasks'[s].job = tasks[s].job /\ tasks'[s].id = tasks[s].id
    /\ tasks'[s].stage \in {"attestation", "payload", "reputation", "put",
                            "submit", "challenge", "returned"}
    /\ tasks[s].stage # "free"

(* A task that returns still serves whom it served.                        *)
LEMMA ReturnFollows ==
    ASSUME TasksReady, NEW s \in Slots, NEW outcome, Return(s, outcome),
           tasks[s].stage # "free"
    PROVE  Follows(s)
BY ReturnStays DEF Follows

(* So does one that goes on.                                               *)
LEMMA GoOnFollows ==
    ASSUME TasksReady, NEW s \in Slots,
           NEW stage \in {"attestation", "payload", "submit"},
           GoOn(s, stage), tasks[s].stage # "free"
    PROVE  Follows(s)
BY GoOnStays DEF Follows

(* So does one that polls.                                                 *)
LEMMA AttemptFollows ==
    ASSUME TasksReady, NEW s \in Slots, NEW replies, NEW ACTION Found,
           Attempt(s, replies, Found), Found => Follows(s),
           tasks[s].stage \in {"attestation", "reputation"}
    PROVE  Follows(s)
<1>1. PICK turn :
        CASE turn = "value" -> Found
          [] turn = "retry" -> tasks' = [tasks EXCEPT ![s].attempt = @ + 1]
          [] OTHER -> Return(s, turn)
  BY DEF Attempt
<1>2. CASE Found
  BY <1>2
<1>3. CASE tasks' = [tasks EXCEPT ![s].attempt = @ + 1]
  <2>1. Became(s, Now(tasks[s], tasks[s].stage, tasks[s].attempt + 1,
                      tasks[s].answer))
    BY <1>3, RetryNow DEF TasksReady, Ready
  <2>2. PICK stage, attempt, answer :
          stage = tasks[s].stage /\ attempt = tasks[s].attempt + 1
          /\ answer = tasks[s].answer
    OBVIOUS
  <2>3. Became(s, Now(tasks[s], stage, attempt, answer))
    BY <2>1, <2>2
  <2>4. QED
    BY <2>2, <2>3, NowStays, ZenonT(60) DEF Follows
<1>4. CASE Return(s, turn)
  BY <1>4, ReturnFollows
<1>5. QED
  BY <1>1, <1>2, <1>3, <1>4

(* So does one that takes any step of the agents'.                         *)
LEMMA TaskStepFollows ==
    ASSUME TasksReady, NEW s \in Slots, TaskStep(s)
    PROVE  Follows(s)
<1>1. CASE ReadAttestation(s)
  <2> DEFINE Found == IF tasks[s].job = "get" THEN Return(s, "attestation")
                      ELSE GoOn(s, "payload")
  <2>1. tasks[s].stage = "attestation"
    BY <1>1 DEF ReadAttestation, At
  <2>2. Found => Follows(s)
    BY <2>1, ReturnFollows, GoOnFollows
  <2>3. \/ Attempt(s, Truthful(tasks[s].id), Found)
        \/ Found
        \/ Return(s, "ATTESTATION_NOT_FOUND")
    BY <1>1 DEF ReadAttestation
  <2> HIDE DEF Found
  <2>4. QED
    BY <2>1, <2>2, <2>3, AttemptFollows, ReturnFollows
<1>2. CASE ReadPayload(s)
  <2>1. tasks[s].stage = "payload" /\ Read(s)
    BY <1>2, ReadPayloadReads
  <2>2. CASE \E outcome : Return(s, outcome)
    BY <2>1, <2>2, ReturnFollows
  <2>3. ASSUME NEW verdict, tasks' = [tasks EXCEPT ![s].stage = "reputation",
                                                   ![s].answer = verdict]
        PROVE  Follows(s)
    <3>1. Became(s, Now(tasks[s], "reputation", tasks[s].attempt, verdict))
      BY <2>3, VerdictNow DEF TasksReady, Ready
    <3>2. PICK attempt : attempt = tasks[s].attempt
      OBVIOUS
    <3>3. Became(s, Now(tasks[s], "reputation", attempt, verdict))
      BY <3>1, <3>2
    <3>4. QED
      BY <2>1, <3>3, NowStays DEF Follows
  <2>4. \/ \E outcome : Return(s, outcome)
        \/ \E verdict : tasks' = [tasks EXCEPT ![s].stage = "reputation",
                                               ![s].answer = verdict]
    BY <2>1 DEF Read
  <2>5. QED
    BY <2>2, <2>3, <2>4
<1>3. CASE ReadReputation(s)
  <2>1. tasks[s].stage = "reputation"
    BY <1>3 DEF ReadReputation, At
  <2>2. PICK outcome : outcome = tasks[s].answer
    OBVIOUS
  <2>3. Return(s, outcome) => Follows(s)
    BY <2>1, ReturnFollows
  <2>4. \/ Attempt(s, RestReplies, Return(s, outcome))
        \/ Return(s, outcome)
    BY <1>3, <2>2 DEF ReadReputation
  <2>5. QED
    BY <2>1, <2>3, <2>4, AttemptFollows
<1>4. CASE PutPayload(s)
  BY <1>4, ReturnFollows, GoOnFollows DEF PutPayload, At
<1>5. CASE Submit(s)
  BY <1>5, ReturnFollows DEF Submit, At, SubmitPlaceholder, SubmitMock
<1>6. CASE Challenge(s)
  <2>1. tasks[s].stage = "challenge" /\ \E outcome : Return(s, outcome)
    BY <1>6 DEF Challenge, At, ChallengePlaceholder, ChallengeMock
  <2>2. QED
    BY <2>1, ReturnFollows
<1>7. QED
  BY <1>1, <1>2, <1>3, <1>4, <1>5, <1>6 DEF TaskStep

(* The steps of the other servers are of their own tasks.                  *)
Foreign(s) ==
    /\ \A u \in Slots \ {s} : tasks'[u] = tasks[u]
    /\ tasks'[s].by # "script"

(* A server's answer is no affair of the script's.                         *)
LEMMA AnswerForeign ==
    ASSUME TasksReady, NEW s \in Slots, NEW outcome, Answer(s, outcome),
           tasks[s].by # "script"
    PROVE  Foreign(s)
<1>1. PICK was : was = tasks[s]
  OBVIOUS
<1>2. PICK t : t = Begun(was.by, "none", "answered", 0, Absent, was.extra, 0, outcome)
  OBVIOUS
<1>3. tasks' = [tasks EXCEPT ![s] = t] /\ DOMAIN tasks = Slots
  BY <1>1, <1>2, AnswerNow DEF Became, TasksReady
<1>4. t.by = was.by
  BY <1>2 DEF Begun
<1>5. QED
  BY <1>1, <1>3, <1>4 DEF Foreign

(* Nor is a task that somebody else begins.                                *)
LEMMA BeginForeign ==
    ASSUME TasksReady, NEW s \in Slots, NEW t, Begin(s, t), t.by # "script"
    PROVE  Foreign(s)
BY BeginStays DEF Foreign

(* A task is by whoever began it.                                          *)
LEMMA TaskIsBy ==
    ASSUME NEW by, NEW job, NEW stage, NEW id, NEW payload, NEW extra
    PROVE  Task(by, job, stage, id, payload, extra).by = by
BY DEF Task

(* What is no affair of the script's leaves it as it was.                  *)
LEMMA ForeignStays ==
    ASSUME TasksReady, ScriptOK, Kept, UNCHANGED script, NEW s \in Slots,
           Foreign(s),
           \/ tasks[s].stage # "free" /\ tasks[s].by # "script"
           \/ Program = <<>>
    PROVE  ScriptOK'
<1>1. Program = <<>>
  BY DEF ScriptOK, ScriptAlone
<1>2. QED
  BY <1>1, ScriptStays DEF Foreign

(* No step of a server is an affair of the script's.                       *)
LEMMA ServerForeign ==
    ASSUME TasksReady, NEW s \in Slots,
           X402Step(s) \/ PolicyStep(s) \/ guard(s) \/ RuntimeStep(s)
    PROVE  Foreign(s) /\ tasks[s].stage # "free" /\ tasks[s].by # "script"
<1>1. Proper(tasks[s])
  BY DEF TasksReady, Ready
<1>2. \A outcome : Return(s, outcome) /\ tasks[s].by # "script" => Foreign(s)
  BY ReturnStays DEF Foreign
<1>3. CASE X402Step(s)
  <2>1. tasks[s].stage # "free" /\ tasks[s].by # "script"
    BY <1>1, <1>3 DEF X402Step, requirePayment, RespondX402, At, Proper
  <2>2. (\E outcome : Answer(s, outcome)) \/ GoOn(s, "attestation")
    BY <1>3 DEF X402Step, requirePayment, RespondX402
  <2>3. QED
    BY <2>1, <2>2, AnswerForeign, GoOnStays DEF Foreign
<1>4. CASE PolicyStep(s)
  <2>1. tasks[s].stage # "free" /\ tasks[s].by # "script"
    BY <1>1, <1>4 DEF PolicyStep, At, Proper
  <2>2. \E outcome : Return(s, outcome)
    BY <1>4 DEF PolicyStep, PolicyPlaceholder, CreatePolicyMock, SubmitClaimMock
  <2>3. QED
    BY <1>2, <2>1, <2>2
<1>5. CASE guard(s)
  <2>1. tasks[s].stage # "free" /\ tasks[s].by # "script"
    BY <1>5 DEF guard, At
  <2>2. \E outcome : Answer(s, outcome)
    BY <1>5 DEF guard
  <2>3. QED
    BY <2>1, <2>2, AnswerForeign
<1>6. CASE RuntimeStep(s)
  <2>1. tasks[s].stage # "free" /\ tasks[s].by # "script"
    BY <1>1, <1>6 DEF RuntimeStep, runOnce, EndCycle, Awake, At, Proper
  <2>2. \/ \E outcome : Return(s, outcome)
        \/ Begin(s, Free)
        \/ \E job, stage, id, payload, extra :
              Begin(s, Task("runtime", job, stage, id, payload, extra))
    <3>1. CASE runOnce(s)
      <4>1. PICK decision : execute(s, decision)
        BY <3>1 DEF runOnce
      <4>2. QED
        BY <4>1 DEF execute
    <3>2. CASE EndCycle(s)
      BY <3>2 DEF EndCycle, EndLoop
    <3>3. CASE Awake(s)
      BY <3>3 DEF Awake, EndLoop, StartCycle
    <3>4. QED
      BY <1>6, <3>1, <3>2, <3>3 DEF RuntimeStep
  <2>3. Free.by = "nobody"
    BY TaskIsBy DEF Free
  <2>4. QED
    BY <1>2, <2>1, <2>2, <2>3, BeginForeign, TaskIsBy
<1>7. QED
  BY <1>3, <1>4, <1>5, <1>6

(* A process that runs a script serves nobody.                             *)
LEMMA BeginsNoScript ==
    ASSUME TasksReady, deployed \in DOMAIN Environments, NEW s \in Slots,
           BeginTask(s)
    PROVE  Foreign(s) /\ Program = <<>>
<1>1. {"x402", "mcp", "attest", "policies", "runtime"} \cap here.services # {}
  BY DEF BeginTask, AskX402, CallTool, TOOLS, runLoop
<1>2. Program = <<>>
  BY <1>1, ProgramIs
<1>3. CASE AskX402(s)
  <2>1. \E job, id, header :
           Begin(s, Task("x402", job, "payment", id, Absent, header))
    BY <1>3 DEF AskX402
  <2>2. QED
    BY <1>2, <2>1, BeginForeign, TaskIsBy
<1>4. CASE runLoop(s)
  <2>1. \E job, stage, id, payload, extra :
           Begin(s, Task("runtime", job, stage, id, payload, extra))
    BY <1>4 DEF runLoop, StartCycle
  <2>2. QED
    BY <1>2, <2>1, BeginForeign, TaskIsBy
<1>5. CASE CallTool(s)
  <2>1. \/ \E job, stage, id, payload, extra :
              Begin(s, Task("mcp", job, stage, id, payload, extra))
        \/ getRiskScoreTool(s)
        \/ submitClaimTool(s)
    BY <1>5 DEF CallTool, TOOLS, getAttestationTool, verifyTool, challengeTool,
                submitAttestationTool, buyPolicyTool, Tool
  <2>2. CASE getRiskScoreTool(s)
    <3>1. PICK t : t = Begun("mcp", "score", "returned", 0, Absent, "none", 0, "score")
      OBVIOUS
    <3>2. Begin(s, t) /\ t.by = "mcp"
      BY <2>2, <3>1, AnsweredBegun DEF getRiskScoreTool, Begun
    <3>3. QED
      BY <1>2, <3>2, BeginForeign
  <2>3. CASE submitClaimTool(s)
    <3>1. PICK id, p :
            Begin(s, [Task("mcp", "claim", "policy", id, Absent, "none")
                         EXCEPT !.policy = p])
      BY <2>3 DEF submitClaimTool
    <3>2. PICK t : t = Begun("mcp", "claim", "policy", id, Absent, "none", p, "none")
      OBVIOUS
    <3>3. Begin(s, t) /\ t.by = "mcp"
      BY <3>1, <3>2, ClaimBegun DEF Begun
    <3>4. QED
      BY <1>2, <3>3, BeginForeign
  <2>4. QED
    BY <1>2, <2>1, <2>2, <2>3, BeginForeign, TaskIsBy
<1>6. QED
  BY <1>3, <1>4, <1>5 DEF BeginTask

(* Where a script stands tells the step it is at.                          *)
LEMMA StepAt ==
    ASSUME deployed \in DOMAIN Environments, script.at \in 1 .. Len(Program)
    PROVE  \/ /\ Seeding /\ Len(Program) = N + 7 /\ N \in Nat /\ N >= 2
              /\ \/ /\ script.at \in 1 .. N /\ Step.what = "attest"
                 \/ /\ script.at = N + 1 /\ Step.what = "verify" /\ Step.nth = 1
                 \/ script.at = N + 2 /\ Step.what = "attest"
                 \/ script.at = N + 3 /\ Step.what = "insure"
                 \/ script.at = N + 4 /\ Step.what = "get" /\ Step.nth = 2
                 \/ script.at = N + 5 /\ Step.what = "corrupt" /\ Step.nth = 2
                 \/ script.at = N + 6 /\ Step.what = "challenge" /\ Step.nth = 2
                 \/ script.at = N + 7 /\ Step.what = "resolve" /\ Step.nth = 2
           \/ /\ ~Seeding /\ Program = CliProgram /\ Len(Program) = 2
              /\ \/ script.at = 1 /\ Step.what = "attest"
                 \/ script.at = 2 /\ Step.what = "verify" /\ Step.nth = 1
<1>1. PICK at : at = script.at
  OBVIOUS
<1>2. \A what, nth, payload :
         /\ Does(what, nth, payload).what = what
         /\ Does(what, nth, payload).nth = nth
  BY DEF Does
<1>3. CASE Seeding /\ Program = SeedProgram
  <2>1. at \in 1 .. N + 7 /\ N \in Nat /\ N >= 2 /\ Step = SeedProgram[at]
    BY <1>1, <1>3, SeedSteps DEF Step
  <2>2. CASE at \in 1 .. N
    <3>1. SeedProgram[at] = Does("attest", 0, Attested[at])
      BY <2>2, SeedSteps
    <3>2. QED
      BY <1>1, <1>2, <1>3, <2>1, <2>2, <3>1, SeedSteps
  <2>3. CASE at = N + 1
    BY <1>1, <1>2, <1>3, <2>1, <2>3, SeedSteps
  <2>4. CASE at = N + 2
    BY <1>1, <1>2, <1>3, <2>1, <2>4, SeedSteps
  <2>5. CASE at = N + 3
    BY <1>1, <1>2, <1>3, <2>1, <2>5, SeedSteps
  <2>6. CASE at = N + 4
    BY <1>1, <1>2, <1>3, <2>1, <2>6, SeedSteps
  <2>7. CASE at = N + 5
    BY <1>1, <1>2, <1>3, <2>1, <2>7, SeedSteps
  <2>8. CASE at = N + 6
    BY <1>1, <1>2, <1>3, <2>1, <2>8, SeedSteps
  <2>9. CASE at = N + 7
    BY <1>1, <1>2, <1>3, <2>1, <2>9, SeedSteps
  <2>10. QED
    BY <2>1, <2>2, <2>3, <2>4, <2>5, <2>6, <2>7, <2>8, <2>9
<1>4. CASE ~Seeding /\ Program = CliProgram
  <2>1. at \in {1, 2} /\ Step = CliProgram[at]
    BY <1>1, <1>4, CliSteps DEF Step
  <2>2. CASE at = 1
    BY <1>1, <1>2, <1>4, <2>1, <2>2, CliSteps
  <2>3. CASE at = 2
    BY <1>1, <1>2, <1>4, <2>1, <2>3, CliSteps
  <2>4. QED
    BY <2>1, <2>2, <2>3
<1>5. Program # <<>>
  BY ProgramLength
<1>6. QED
  BY <1>3, <1>4, <1>5, ProgramIs

(* The script after a step, written as one record.                         *)
LEMMA NextStepNow ==
    ASSUME ScriptTyped, NEW s, NEW ids, NEW told, NextStep(s, ids, told)
    PROVE  script' = [at |-> script.at + 1, ids |-> script.ids \o ids,
                      told |-> script.told \o told,
                      end |-> IF script.at = Len(Program) THEN "done"
                              ELSE "running"]
<1>1. PICK c, at, madeIds, madeTold, end :
        /\ c = script /\ at = script.at + 1
        /\ madeIds = script.ids \o ids /\ madeTold = script.told \o told
        /\ end = IF script.at = Len(Program) THEN "done" ELSE "running"
  OBVIOUS
<1>2. c = [at |-> c.at, ids |-> c.ids, told |-> c.told, end |-> c.end]
  BY <1>1 DEF ScriptTyped
<1> DEFINE one == [c EXCEPT !.at = at]
           two == [one EXCEPT !.ids = one.ids \o ids]
           three == [two EXCEPT !.told = two.told \o told]
<1>3. script' = [three EXCEPT !.end = end]
  BY <1>1 DEF NextStep
<1>4. one = [at |-> at, ids |-> c.ids, told |-> c.told, end |-> c.end]
  BY <1>2
<1> HIDE DEF one
<1>5. two = [at |-> at, ids |-> madeIds, told |-> c.told, end |-> c.end]
  <2>1. one.ids = c.ids
    BY <1>4
  <2>2. two = [one EXCEPT !.ids = madeIds]
    BY <1>1, <2>1
  <2>3. [one EXCEPT !.ids = madeIds]
          = [at |-> at, ids |-> madeIds, told |-> c.told, end |-> c.end]
    BY <1>4
  <2>4. QED
    BY <2>2, <2>3
<1> HIDE DEF two
<1>6. three = [at |-> at, ids |-> madeIds, told |-> madeTold, end |-> c.end]
  <2>1. two.told = c.told
    BY <1>5
  <2>2. three = [two EXCEPT !.told = madeTold]
    BY <1>1, <2>1
  <2>3. [two EXCEPT !.told = madeTold]
          = [at |-> at, ids |-> madeIds, told |-> madeTold, end |-> c.end]
    BY <1>5
  <2>4. QED
    BY <2>2, <2>3
<1> HIDE DEF three
<1>7. [three EXCEPT !.end = end]
        = [at |-> at, ids |-> madeIds, told |-> madeTold, end |-> end]
  BY <1>6
<1>8. QED
  BY <1>1, <1>3, <1>7

(* Between two steps of a script there is no task.                         *)
LEMMA NoTasks ==
    ASSUME TasksReady, ScriptOK, Program # <<>>, NEW s \in Slots, s = TheSlot,
           NEW u \in Slots, u # s
    PROVE  tasks[u].stage = "free" /\ tasks[u].by = "nobody"
BY DEF TasksReady, Ready, Proper, ScriptOK, ScriptAlone

(* An idle slot is nobody's.                                               *)
LEMMA FreeIs == Free.stage = "free" /\ Free.by = "nobody"
BY DEF Free, Task

(* A script that goes on, or ends, keeps what it made.                     *)
LEMMA ScriptAdvances ==
    ASSUME deployed \in DOMAIN Environments, TasksReady, ScriptOK, Kept,
           Running, NEW s \in Slots, s = TheSlot,
           NEW ids \in Seq(Int), NEW told \in Seq({"PASS", "FAIL", "error"}),
           NextStep(s, ids, told),
           Seeding /\ script.at >= N + 4 => ids = <<>>,
           Seeding /\ script.at = N + 4 => script.ids[2] \in Published
    PROVE  ScriptOK'
<1>1. UNCHANGED deployed /\ Published \subseteq Published'
  BY DEF Kept
<1>2. here' = here
  BY <1>1 DEF here
<1>3. Program' = Program /\ Seeding' = Seeding
  BY <1>2 DEF Program, Seeding
<1>4. /\ script.at \in 1 .. Len(Program) /\ Program # <<>>
      /\ Len(Program) \in Nat
  BY ProgramLength DEF Running, ScriptOK, ScriptTyped
<1>5. script' = [at |-> script.at + 1, ids |-> script.ids \o ids,
                 told |-> script.told \o told,
                 end |-> IF script.at = Len(Program) THEN "done" ELSE "running"]
  BY NextStepNow DEF ScriptOK
<1>6. /\ script'.at = script.at + 1 /\ script'.ids = script.ids \o ids
      /\ script'.told = script.told \o told
      /\ script'.end = IF script.at = Len(Program) THEN "done" ELSE "running"
      /\ script' = [at |-> script'.at, ids |-> script'.ids,
                    told |-> script'.told, end |-> script'.end]
  BY <1>5
<1>7. script.ids \o ids \in Seq(Int)
      /\ script.told \o told \in Seq({"PASS", "FAIL", "error"})
  BY DEF ScriptOK, ScriptTyped
<1>8. ScriptTyped'
  <2>1. script'.at \in 1 .. Len(Program') + 1
    BY <1>3, <1>4, <1>6
  <2>2. script'.end \in {"running", "done", "failed", "crashed"}
    BY <1>6
  <2>3. /\ script'.ids \in Seq(Int)
        /\ script'.told \in Seq({"PASS", "FAIL", "error"})
    BY <1>6, <1>7
  <2>4. script' = [at |-> script'.at, ids |-> script'.ids,
                   told |-> script'.told, end |-> script'.end]
    BY <1>6
  <2>5. QED
    BY <2>1, <2>2, <2>3, <2>4 DEF ScriptTyped
<1>9. Fetched'
  <2>1. SUFFICES ASSUME Seeding, script.at + 1 >= N + 5
                 PROVE  (script.ids \o ids)[2] \in Published'
    BY <1>3, <1>6 DEF Fetched
  <2>2. script.at >= N + 4 /\ N \in Nat
    BY <1>4, <2>1, SeedSteps
  <2>3. script.ids \o ids = script.ids
    BY <2>1, <2>2 DEF ScriptOK, ScriptTyped
  <2>4. script.ids[2] \in Published
    BY <1>4, <2>1, <2>2 DEF ScriptOK, Fetched
  <2>5. QED
    BY <1>1, <2>3, <2>4
<1>10. ScriptAlone'
  <2>1. tasks'[s] = Free /\ \A u \in Slots \ {s} : tasks'[u] = tasks[u]
    BY BeginStays DEF NextStep
  <2>2. \A u \in Slots : tasks'[u].stage = "free" /\ tasks'[u].by = "nobody"
    BY <1>4, <2>1, NoTasks, FreeIs
  <2>3. QED
    BY <2>2 DEF ScriptAlone
<1>11. QED
  BY <1>8, <1>9, <1>10 DEF ScriptOK

(* A script that stops early keeps what it has been told.                  *)
LEMMA ScriptEnds ==
    ASSUME deployed \in DOMAIN Environments, TasksReady, ScriptOK, Kept,
           Running, NEW s \in Slots, s = TheSlot,
           NEW how \in {"failed", "crashed"}, End(how),
           \A u \in Slots \ {s} : tasks'[u] = tasks[u],
           tasks'[s].stage = "free" /\ tasks'[s].by = "nobody"
    PROVE  /\ ScriptOK'
           /\ script'.at = script.at /\ script'.end = how
           /\ script'.ids = script.ids /\ script'.told = script.told
<1>1. UNCHANGED deployed /\ Published \subseteq Published'
  BY DEF Kept
<1>2. here' = here
  BY <1>1 DEF here
<1>3. Program' = Program /\ Seeding' = Seeding
  BY <1>2 DEF Program, Seeding
<1>4. Program # <<>>
  BY ProgramLength DEF Running, ScriptOK, ScriptTyped
<1>5. /\ script'.at = script.at /\ script'.ids = script.ids
      /\ script'.told = script.told /\ script'.end = how
      /\ script' = [at |-> script'.at, ids |-> script'.ids,
                    told |-> script'.told, end |-> script'.end]
  <2>1. PICK c : c = script
    OBVIOUS
  <2>2. c = [at |-> c.at, ids |-> c.ids, told |-> c.told, end |-> c.end]
    BY <2>1 DEF ScriptOK, ScriptTyped
  <2>3. script' = [c EXCEPT !.end = how]
    BY <2>1 DEF End
  <2>4. [c EXCEPT !.end = how]
          = [at |-> c.at, ids |-> c.ids, told |-> c.told, end |-> how]
    BY <2>2
  <2>5. QED
    BY <2>1, <2>3, <2>4
<1>6. ScriptTyped' /\ Fetched'
  BY <1>1, <1>3, <1>5 DEF ScriptOK, ScriptTyped, Fetched
<1>7. \A u \in Slots : tasks'[u].stage = "free" /\ tasks'[u].by = "nobody"
  BY <1>4, NoTasks
<1>8. ScriptAlone'
  BY <1>7 DEF ScriptAlone
<1>9. QED
  BY <1>5, <1>6, <1>8 DEF ScriptOK

(* A task of a script's is the one its step calls for.                     *)
LEMMA ScriptAsks ==
    ASSUME deployed \in DOMAIN Environments, TasksReady, ScriptOK, Kept,
           Running, NEW s \in Slots, s = TheSlot, NEW job, NEW stage, NEW id,
           NEW payload, Asks(s, job, stage, id, payload), UNCHANGED script,
           \/ /\ Step.what = "attest" /\ job = "attest" /\ stage = "put"
              /\ payload \in Payloads \cap Commitments
           \/ /\ Step.what \in {"verify", "corrupt"} /\ job = "verify"
              /\ stage = "attestation" /\ id = Id
           \/ /\ Step.what = "get" /\ job = "get"
              /\ stage = "attestation" /\ id = Id
           \/ /\ Step.what = "challenge" /\ job = "challenge"
              /\ stage = "challenge" /\ id = Id
    PROVE  ScriptOK' /\ Moves(s)
<1>1. PICK t : t = Begun("script", job, stage, id, payload, "none", 0, "none")
  OBVIOUS
<1>2. Begin(s, t)
  BY <1>1, TaskBegun DEF Asks
<1>3. /\ t.by = "script" /\ t.stage = stage /\ t.job = job /\ t.id = id
  BY <1>1 DEF Begun
<1>4. Ready(t) /\ Honest(tasks[s], t)
  BY <1>1, BegunReady DEF Servers, Jobs
<1>5. Moves(s)
  BY <1>2, <1>4, Begins
<1>6. tasks'[s] = t /\ \A u \in Slots \ {s} : tasks'[u] = tasks[u]
  BY <1>2, BeginStays
<1>7. UNCHANGED <<script, deployed>> /\ Published \subseteq Published'
  BY DEF Kept
<1>8. /\ Program' = Program /\ Seeding' = Seeding /\ Running' = Running
      /\ \A v : Serves(v)' <=> Serves(v)
  BY <1>7, ScriptSame
<1>9. Serves(t)
  BY <1>3 DEF Serves
<1>10. ScriptTyped' /\ Fetched'
  BY <1>7, <1>8 DEF ScriptOK, ScriptTyped, Fetched
<1>11. ScriptAlone'
  <2>1. ASSUME NEW u \in Slots
        PROVE  /\ tasks'[u].by = "script" => Running /\ Serves(tasks'[u])
               /\ Program # <<>> /\ tasks'[u].stage # "free" =>
                     tasks'[u].by = "script" /\ u = TheSlot
    <3>1. CASE u = s
      BY <1>3, <1>6, <1>9, <3>1
    <3>2. CASE u # s
      BY <1>6, <3>2 DEF ScriptOK, ScriptAlone
    <3>3. QED
      BY <3>1, <3>2
  <2>2. QED
    BY <1>8, <2>1 DEF ScriptAlone
<1>12. QED
  BY <1>5, <1>10, <1>11 DEF ScriptOK

(* A call of the script's keeps what is known of everything.               *)
LEMMA ScriptCallsKeeps ==
    ASSUME TasksReady, DataInv, ScriptOK, NEW s \in Slots, ScriptCalls(s)
    PROVE  /\ Moves(s) \/ UNCHANGED tasks
           /\ DataInv' /\ Kept /\ ScriptOK'
<1>1. /\ Running /\ s = TheSlot /\ tasks[s].stage = "free"
      /\ UNCHANGED deployed /\ deployed \in DOMAIN Environments
  BY DEF ScriptCalls, TheSlot, At, DataInv
<1>2. script.at \in 1 .. Len(Program)
  BY <1>1, ProgramLength DEF Running, ScriptOK, ScriptTyped
<1>3. \/ /\ \/ Step.what = "attest" /\ Asks(s, "attest", "put", 0, Step.payload)
            \/ Step.what = "verify" /\ Asks(s, "verify", "attestation", Id, Absent)
            \/ Step.what = "get" /\ Asks(s, "get", "attestation", Id, Absent)
            \/ /\ Step.what = "challenge"
               /\ Asks(s, "challenge", "challenge", Id, Absent)
         /\ UNCHANGED <<records, storeVars, script>>
      \/ Step.what = "corrupt" /\ CorruptAndVerify(s) /\ UNCHANGED records
      \/ Step.what = "insure" /\ NextStep(s, <<>>, <<>>)
         /\ UNCHANGED <<records, storeVars>>
      \/ Step.what = "resolve" /\ ResolveFraudulent(s) /\ UNCHANGED storeVars
  BY DEF ScriptCalls
<1>4. CASE /\ \/ Step.what = "attest" /\ Asks(s, "attest", "put", 0, Step.payload)
              \/ Step.what = "verify" /\ Asks(s, "verify", "attestation", Id, Absent)
              \/ Step.what = "get" /\ Asks(s, "get", "attestation", Id, Absent)
              \/ /\ Step.what = "challenge"
                 /\ Asks(s, "challenge", "challenge", Id, Absent)
           /\ UNCHANGED <<records, storeVars, script>>
  <2>1. DataInv' /\ Kept
    BY <1>1, <1>4, DataUnchanged
  <2>2. PICK payload, id : payload = Step.payload /\ id = Id
    OBVIOUS
  <2>3. \/ Step.what = "attest" /\ Asks(s, "attest", "put", 0, payload)
        \/ Step.what = "verify" /\ Asks(s, "verify", "attestation", id, Absent)
        \/ Step.what = "get" /\ Asks(s, "get", "attestation", id, Absent)
        \/ Step.what = "challenge" /\ Asks(s, "challenge", "challenge", id, Absent)
    BY <1>4, <2>2
  <2>4. Step.what = "attest" => payload \in Payloads \cap Commitments
    BY <1>1, <1>2, <2>2, StepPayload
  <2>5. ScriptOK' /\ Moves(s)
    BY <1>1, <1>4, <2>1, <2>2, <2>3, <2>4, ScriptAsks
  <2>6. QED
    BY <2>1, <2>5
<1>5. CASE Step.what = "corrupt" /\ CorruptAndVerify(s) /\ UNCHANGED records
  <2>1. /\ Seeding /\ script.at = N + 5 /\ Step.nth = 2
        /\ N \in Nat
    BY <1>1, <1>2, <1>5, StepAt, SeedSteps
  <2>2. PICK id : id = Id
    OBVIOUS
  <2>3. id = script.ids[2]
    BY <2>1, <2>2 DEF Id
  <2>4. id \in Published
    BY <2>1, <2>3 DEF ScriptOK, Fetched
  <2>5. PICK key \in Keys : key = contentKey(records[id].commitment)
    BY <2>4, KeyKnown DEF DataInv
  <2>6. CASE Bucket \/ objects[key] = Absent
    <3>1. End("crashed") /\ UNCHANGED <<storeVars, tasks>>
      BY <1>5, <2>2, <2>5, <2>6 DEF CorruptAndVerify
    <3>2. DataInv' /\ Kept
      BY <1>1, <1>5, <3>1, DataUnchanged
    <3>3. tasks'[s].by = "nobody" /\ tasks'[s].stage = "free"
      BY <1>1, <3>1 DEF TasksReady, Ready, Proper
    <3>4. ScriptOK'
      BY <1>1, <3>1, <3>2, <3>3, ScriptEnds
    <3>5. QED
      BY <3>1, <3>2, <3>4
  <2>7. CASE ~(Bucket \/ objects[key] = Absent)
    <3>1. /\ corrupt(key, Tampered) /\ UNCHANGED script
          /\ Asks(s, "verify", "attestation", id, Absent)
      BY <1>5, <2>2, <2>5, <2>7 DEF CorruptAndVerify
    <3>2. Tampered \in DOMAIN Content
      BY ScriptsAssumption
    <3>3. DataInv' /\ Kept
      BY <1>1, <1>5, <3>1, <3>2, SpoilKeeps DEF corrupt, tamper
    <3>4. ScriptOK' /\ Moves(s)
      BY <1>1, <1>5, <2>2, <3>1, <3>3, ScriptAsks
    <3>5. QED
      BY <3>3, <3>4
  <2>8. QED
    BY <2>6, <2>7
<1>6. ASSUME NextStep(s, <<>>, <<>>), Kept, DataInv',
             Step.what \in {"insure", "resolve"}
      PROVE  Moves(s) /\ ScriptOK'
  <2>1. Moves(s)
    BY <1>6, DismissMoves DEF NextStep
  <2>2. Seeding => script.at # N + 4
    BY <1>1, <1>2, <1>6, StepAt
  <2>3. <<>> \in Seq(Int) /\ <<>> \in Seq({"PASS", "FAIL", "error"})
    OBVIOUS
  <2>4. ScriptOK'
    BY <1>1, <1>6, <2>2, <2>3, ScriptAdvances
  <2>5. QED
    BY <2>1, <2>4
<1>7. CASE /\ Step.what = "insure" /\ NextStep(s, <<>>, <<>>)
           /\ UNCHANGED <<records, storeVars>>
  BY <1>1, <1>6, <1>7, DataUnchanged
<1>8. CASE Step.what = "resolve" /\ ResolveFraudulent(s) /\ UNCHANGED storeVars
  <2>1. NextStep(s, <<>>, <<>>)
    BY <1>8 DEF ResolveFraudulent
  <2>2. UNCHANGED records \/ \E id : Rule(id, "Slashed")
    BY <1>8 DEF ResolveFraudulent
  <2>3. DataInv' /\ Kept
    BY <1>1, <1>8, <2>2, DataUnchanged, AdvanceKeeps DEF Rule
  <2>4. QED
    BY <1>6, <1>8, <2>1, <2>3
<1>9. QED
  BY <1>3, <1>4, <1>5, <1>7, <1>8

(* An identifier is a number.                                              *)
LEMMA NewIdInt == ASSUME RecordsOK PROVE NewId \in Int
<1>1. PICK m \in 0 .. MaxAttestations : records \in [0 .. m - 1 -> OnRecord]
  BY DEF RecordsOK
<1>2. Published = 0 .. m - 1
  BY <1>1 DEF Published
<1>3. MaxAttestations \in Nat
  BY DeploymentsAssumption
<1>4. Cardinality(0 .. m - 1) \in Nat
  BY <1>1, <1>3, FS_Interval, FS_CardinalityType
<1>5. QED
  BY <1>2, <1>4 DEF NewId

(* So does the script's going on with an answer.                           *)
LEMMA ScriptGoesOnKeeps ==
    ASSUME TasksReady, DataInv, ScriptOK, NEW s \in Slots, ScriptGoesOn(s)
    PROVE  Moves(s) /\ DataInv' /\ Kept /\ ScriptOK'
<1>1. DataInv' /\ Kept /\ deployed \in DOMAIN Environments
  BY DataUnchanged DEF ScriptGoesOn, DataInv
<1>2. /\ tasks[s].stage = "returned" /\ tasks[s].by = "script"
      /\ Ready(tasks[s])
  BY DEF ScriptGoesOn, At, TasksReady
<1>3. Running /\ Serves(tasks[s])
  BY <1>2 DEF ScriptOK, ScriptAlone
<1>4. script.at \in 1 .. Len(Program) /\ Program # <<>>
  BY <1>1, <1>3, ProgramLength DEF Running, ScriptOK, ScriptTyped
<1>5. s = TheSlot
  BY <1>2, <1>4 DEF ScriptOK, ScriptAlone
<1>6. PICK answer : answer = tasks[s].answer
  OBVIOUS
<1>7. answer \in ErrorCodes \cup Results(tasks[s].job)
  BY <1>2, <1>6 DEF Ready, Proper
<1>8. \/ answer \in ErrorCodes /\ NextStep(s, <<>>, <<"error">>)
         /\ Step.what = "corrupt"
      \/ answer \in ErrorCodes /\ End("failed") /\ Begin(s, Free)
      \/ answer = "attested" /\ NextStep(s, <<NewId>>, <<>>)
      \/ answer \in {"PASS", "FAIL"} /\ NextStep(s, <<>>, <<answer>>)
      \/ answer \notin ErrorCodes \cup {"attested"} /\ NextStep(s, <<>>, <<>>)
  BY <1>6 DEF ScriptGoesOn
<1>9. answer = "attested" => Step.what = "attest"
  BY <1>3, <1>7, CodesAre DEF Serves, Results
<1>10. Step.what = "get" /\ answer \notin ErrorCodes => script.ids[2] \in Published
  <2>1. SUFFICES ASSUME Step.what = "get", answer \notin ErrorCodes
                 PROVE  script.ids[2] \in Published
    OBVIOUS
  <2>2. tasks[s].job = "get" /\ tasks[s].id = Id
    BY <1>3, <2>1 DEF Serves
  <2>3. answer = "attestation"
    BY <1>7, <2>1, <2>2 DEF Results
  <2>4. tasks[s].id \in Published
    BY <1>2, <1>6, <2>3 DEF Ready, Backed
  <2>5. Step.nth = 2
    BY <1>1, <1>4, <2>1, StepAt
  <2>6. QED
    BY <2>2, <2>4, <2>5 DEF Id
<1>11. /\ Seeding /\ script.at >= N + 4 => Step.what # "attest"
       /\ Seeding /\ script.at = N + 4 => Step.what = "get"
  BY <1>1, <1>4, StepAt
<1>12. ASSUME NEW ids \in Seq(Int), NEW told \in Seq({"PASS", "FAIL", "error"}),
              NextStep(s, ids, told), ids = <<>> \/ Step.what = "attest",
              answer \notin ErrorCodes \/ Step.what = "corrupt"
       PROVE  Moves(s) /\ ScriptOK'
  <2>1. Moves(s)
    BY <1>1, <1>12, DismissMoves DEF NextStep
  <2>2. Seeding /\ script.at = N + 4 => script.ids[2] \in Published
    BY <1>10, <1>11, <1>12
  <2>3. ScriptOK'
    BY <1>1, <1>3, <1>5, <1>11, <1>12, <2>2, ScriptAdvances
  <2>4. QED
    BY <2>1, <2>3
<1>13. CASE answer \in ErrorCodes /\ End("failed") /\ Begin(s, Free)
  <2>1. Moves(s)
    BY <1>1, <1>13, DismissMoves
  <2>2. tasks'[s] = Free /\ \A u \in Slots \ {s} : tasks'[u] = tasks[u]
    BY <1>13, BeginStays
  <2>3. ScriptOK'
    BY <1>1, <1>3, <1>5, <1>13, <2>2, FreeIs, ScriptEnds
  <2>4. QED
    BY <1>1, <2>1, <2>3
<1>14. PICK new \in Int : new = NewId
  BY NewIdInt DEF DataInv
<1>15. /\ <<>> \in Seq(Int) /\ <<new>> \in Seq(Int)
       /\ <<>> \in Seq({"PASS", "FAIL", "error"})
       /\ <<"error">> \in Seq({"PASS", "FAIL", "error"})
       /\ answer \in {"PASS", "FAIL"} =>
             <<answer>> \in Seq({"PASS", "FAIL", "error"})
  OBVIOUS
<1>16. CASE answer = "attested" /\ NextStep(s, <<NewId>>, <<>>)
  <2>1. NextStep(s, <<new>>, <<>>)
    BY <1>14, <1>16
  <2>2. answer \notin ErrorCodes
    BY <1>16, CodesAre
  <2>3. QED
    BY <1>1, <1>9, <1>12, <1>15, <1>16, <2>1, <2>2
<1>17. CASE answer \in ErrorCodes /\ NextStep(s, <<>>, <<"error">>)
            /\ Step.what = "corrupt"
  BY <1>1, <1>12, <1>15, <1>17
<1>18. CASE answer \in {"PASS", "FAIL"} /\ NextStep(s, <<>>, <<answer>>)
  <2>1. answer \notin ErrorCodes
    BY <1>18, CodesAre
  <2>2. QED
    BY <1>1, <1>12, <1>15, <1>18, <2>1
<1>19. CASE answer \notin ErrorCodes \cup {"attested"} /\ NextStep(s, <<>>, <<>>)
  BY <1>1, <1>12, <1>15, <1>19
<1>20. QED
  BY <1>8, <1>13, <1>16, <1>17, <1>18, <1>19

-----------------------------------------------------------------------------
(* The parts that touch neither records nor payloads.                      *)

ClaimOK == claim = <<>> \/ \E e \in Evidence : claim = <<e, evaluateClaim(e)>>

ComparedOK ==
    \/ compared = <<>>
    \/ \E a, b \in {call \in Calls : Committable(call)} : compared = <<a, b>>

DeployOK ==
    /\ deploy = [run |-> deploy.run, stage |-> deploy.stage,
                 reported |-> deploy.reported]
    /\ deploy.run \in 0 .. MaxDeploys
    /\ deploy.stage \in {"installing", "ended"} => deploy.run > 0
    /\ DeployTellsState

(* A claim evaluated anew is a proper one.                                 *)
LEMMA ClaimKept == ASSUME ClaimOK, EvaluateClaim PROVE ClaimOK'
BY DEF ClaimOK, EvaluateClaim

(* Two calls compared anew are proper ones.                                *)
LEMMA ComparedKept == ASSUME ComparedOK, CompareCalls PROVE ComparedOK'
BY DEF ComparedOK, CompareCalls

(* The deployment starts properly.                                         *)
LEMMA DeployInitOK == DeployInit => DeployOK
<1> SUFFICES ASSUME DeployInit PROVE DeployOK
  OBVIOUS
<1>1. /\ deploy = [run |-> 0, stage |-> "over", reported |-> <<>>]
      /\ envLocal = NoFile
  BY DEF DeployInit
<1>2. MaxDeploys \in Nat
  BY DeploymentsAssumption
<1>3. QED
  BY <1>1, <1>2 DEF DeployOK, DeployTellsState

(* What is in the file stays true of it whatever a run does, as a run that *)
(* is started is later than the one it is of.                              *)
LEMMA DeployKept == ASSUME DeployOK, DeployNext PROVE DeployOK'
<1>1. PICK d : d = deploy
  OBVIOUS
<1>2. /\ d = [run |-> d.run, stage |-> d.stage, reported |-> d.reported]
      /\ d.run \in 0 .. MaxDeploys /\ MaxDeploys \in Nat
      /\ d.stage \in {"installing", "ended"} => d.run > 0
  BY <1>1, DeploymentsAssumption DEF DeployOK
<1>3. envLocal # NoFile =>
         \E run \in 0 .. d.run :
            /\ envLocal.of = [name \in Names |-> run]
            /\ envLocal.mode = "mock" <=> run = 0
            /\ run = d.run /\ run > 0 =>
                  d.stage = "over" /\ parseResults(d.reported) = Names
  BY <1>1 DEF DeployOK, DeployTellsState
<1>4. ASSUME NEW stage, deploy' = [d EXCEPT !.stage = stage],
             d.stage \in {"installing", "ended"},
             stage \in {"installing", "ended"} => d.stage = "installing"
      PROVE  /\ deploy'.run = d.run /\ deploy'.stage = stage
             /\ deploy'.reported = d.reported
             /\ deploy' = [run |-> deploy'.run, stage |-> deploy'.stage,
                           reported |-> deploy'.reported]
  <2>1. [d EXCEPT !.stage = stage]
          = [run |-> d.run, stage |-> stage, reported |-> d.reported]
    BY <1>2
  <2>2. QED
    BY <1>4, <2>1
<1>5. CASE StartDeploy
  <2>1. PICK env :
          LET live == hasTestnetSecrets(env) /\ "force mock" \notin env
              run == deploy.run + 1
          IN  /\ deploy' = [run |-> run, reported |-> <<>>,
                            stage |-> IF live /\ "dry run" \notin env
                                      THEN "installing" ELSE "over"]
              /\ IF live THEN UNCHANGED envLocal
                 ELSE writeEnvLocal("mock", [name \in Names |-> 0])
    BY <1>5 DEF StartDeploy
  <2>2. PICK stage : stage \in {"installing", "over"} /\
          deploy' = [run |-> d.run + 1, stage |-> stage, reported |-> <<>>]
    BY <1>1, <2>1
  <2>3. /\ deploy'.run = d.run + 1 /\ deploy'.stage = stage
        /\ deploy' = [run |-> deploy'.run, stage |-> deploy'.stage,
                      reported |-> deploy'.reported]
    BY <2>2
  <2>4. d.run < MaxDeploys
    BY <1>1, <1>5 DEF StartDeploy
  <2>5. DeployTellsState'
    <3>1. CASE UNCHANGED envLocal
      BY <1>2, <1>3, <2>3, <3>1 DEF DeployTellsState
    <3>2. CASE envLocal' = [mode |-> "mock", of |-> [name \in Names |-> 0]]
      BY <1>2, <2>3, <3>2 DEF DeployTellsState
    <3>3. QED
      BY <2>1, <3>1, <3>2 DEF writeEnvLocal
  <2>6. QED
    BY <1>2, <2>3, <2>4, <2>5 DEF DeployOK
<1>6. CASE InstallNext
  <2>1. /\ deploy' = [d EXCEPT !.reported = Append(d.reported, CONTRACTS[Len(d.reported) + 1])]
        /\ d.stage = "installing" /\ UNCHANGED envLocal
    BY <1>1, <1>6 DEF InstallNext
  <2>2. PICK reported : reported = Append(d.reported, CONTRACTS[Len(d.reported) + 1])
    OBVIOUS
  <2>3. [d EXCEPT !.reported = reported]
          = [run |-> d.run, stage |-> d.stage, reported |-> reported]
    BY <1>2
  <2>4. /\ deploy'.run = d.run /\ deploy'.stage = d.stage
        /\ deploy' = [run |-> deploy'.run, stage |-> deploy'.stage,
                      reported |-> deploy'.reported]
    BY <2>1, <2>2, <2>3
  <2>5. DeployTellsState'
    BY <1>2, <1>3, <2>1, <2>4 DEF DeployTellsState
  <2>6. QED
    BY <1>2, <2>1, <2>4, <2>5 DEF DeployOK
<1>7. CASE LivenetFails \/ LivenetEnds
  <2>1. PICK stage \in {"failed", "ended"} :
          deploy' = [d EXCEPT !.stage = stage]
    BY <1>1, <1>7 DEF LivenetFails, LivenetEnds, Stage
  <2>2. d.stage = "installing" /\ UNCHANGED envLocal
    BY <1>1, <1>7 DEF LivenetFails, LivenetEnds
  <2>3. /\ deploy'.run = d.run /\ deploy'.stage = stage
        /\ deploy'.reported = d.reported
        /\ deploy' = [run |-> deploy'.run, stage |-> deploy'.stage,
                      reported |-> deploy'.reported]
    BY <1>4, <2>1, <2>2
  <2>4. DeployTellsState'
    BY <1>2, <1>3, <2>2, <2>3 DEF DeployTellsState
  <2>5. QED
    BY <1>2, <2>2, <2>3, <2>4 DEF DeployOK
<1>8. CASE WriteLive
  <2>1. /\ deploy' = [d EXCEPT !.stage = "over"]
        /\ d.stage = "ended" /\ parseResults(d.reported) = Names
        /\ envLocal' = [mode |-> "live", of |-> [name \in Names |-> d.run]]
    BY <1>1, <1>8 DEF WriteLive, Stage, writeEnvLocal
  <2>2. /\ deploy'.run = d.run /\ deploy'.stage = "over"
        /\ deploy'.reported = d.reported
        /\ deploy' = [run |-> deploy'.run, stage |-> deploy'.stage,
                      reported |-> deploy'.reported]
    BY <1>4, <2>1
  <2>3. DeployTellsState'
    <3>1. /\ envLocal'.of = [name \in Names |-> d.run] /\ envLocal'.mode = "live"
          /\ d.run > 0
      BY <1>2, <2>1
    <3>2. QED
      BY <1>2, <2>1, <2>2, <3>1 DEF DeployTellsState
  <2>4. QED
    BY <1>2, <2>2, <2>3 DEF DeployOK
<1>9. QED
  BY <1>5, <1>6, <1>7, <1>8 DEF DeployNext
-----------------------------------------------------------------------------
(* Canonical texts.                                                        *)

(* The marks of JSON; a token is one of them, the name of a member or a    *)
(* value without parts.                                                    *)
Marks == {"[", "]", "{", "}", ",", ":"}

Tokens == Json \cup {Atom(name) : name \in DOMAIN KeyRank}
               \cup {Mark(m) : m \in Marks}

Texts == Seq(Tokens)

(* One text and then another, and what is needed of that.                  *)
Cat(t, u) == t \o u

(* Texts follow one another to a text.                                     *)
LEMMA TextsClosed == \A t, u \in Texts : Cat(t, u) \in Texts
<1>1. \A t, u \in Seq(Tokens) : t \o u \in Seq(Tokens)
  BY ConcatProperties
<1>2. QED
  BY <1>1 DEF Texts, Cat

(* Whichever of them are put together first.                               *)
LEMMA TextsAssociate ==
    \A t, u, r \in Texts : Cat(Cat(t, u), r) = Cat(t, Cat(u, r))
<1>1. \A t, u, r \in Seq(Tokens) : (t \o u) \o r = t \o (u \o r)
  BY ConcatAssociative
<1>2. QED
  BY <1>1 DEF Texts, Cat

(* The empty text is one, and adds nothing.                                *)
LEMMA TextsEmpty ==
    <<>> \in Texts /\ \A t \in Texts : Cat(<<>>, t) = t /\ Cat(t, <<>>) = t
<1>1. <<>> \in Seq(Tokens)
  OBVIOUS
<1>2. \A t \in Seq(Tokens) : <<>> \o t = t /\ t \o <<>> = t
  BY ConcatEmptySeq
<1>3. QED
  BY <1>1, <1>2 DEF Texts, Cat

(* What is before two texts that are one can be taken away.                *)
LEMMA BeforeCancels ==
    \A t, r, s \in Texts : Cat(t, r) = Cat(t, s) => r = s
<1>1. \A a, b, c \in Seq(Tokens) : a \o b = a \o c => b = c
  BY ConcatSimplifications, Zenon
<1>2. QED
  BY <1>1 DEF Texts, Cat

(* Three texts and what follows them.                                      *)
LEMMA ThreeAssociate ==
    ASSUME NEW c \in Texts, NEW t \in Texts, NEW v \in Texts, NEW x \in Texts
    PROVE  Cat(Cat(c, Cat(t, v)), x) = Cat(c, Cat(t, Cat(v, x)))
<1>1. Cat(t, v) \in Texts /\ Cat(v, x) \in Texts
  BY TextsClosed
<1>2. Cat(Cat(c, Cat(t, v)), x) = Cat(c, Cat(Cat(t, v), x))
  BY <1>1, TextsAssociate
<1>3. Cat(Cat(t, v), x) = Cat(t, Cat(v, x))
  BY TextsAssociate
<1>4. QED
  BY <1>2, <1>3

(* A text begins with its first token.                                     *)
LEMMA FirstTells ==
    ASSUME NEW x \in Tokens, NEW y \in Tokens, NEW r \in Texts, NEW s \in Texts,
           Cat(<<x>>, r) = Cat(<<y>>, s)
    PROVE  x = y /\ r = s
<1>0. <<x>> \o r = <<y>> \o s
  BY DEF Cat
<1>1. <<x>> \in Seq(Tokens) /\ <<y>> \in Seq(Tokens) /\ Len(<<x>>) = 1 /\ Len(<<y>>) = 1
  OBVIOUS
<1>2. r \in Seq(Tokens) /\ s \in Seq(Tokens)
  BY DEF Texts
<1>3. (<<x>> \o r)[1] = x
  <2>1. Len(r) \in Nat
    BY <1>2, LenProperties
  <2>2. 1 \in 1 .. Len(<<x>>) + Len(r) /\ 1 <= Len(<<x>>)
    BY <1>1, <2>1
  <2>3. (<<x>> \o r)[1] = <<x>>[1]
    BY <1>1, <1>2, <2>2, ConcatProperties
  <2>4. QED
    BY <2>3
<1>4. (<<y>> \o s)[1] = y
  <2>1. Len(s) \in Nat
    BY <1>2, LenProperties
  <2>2. 1 \in 1 .. Len(<<y>>) + Len(s) /\ 1 <= Len(<<y>>)
    BY <1>1, <2>1
  <2>3. (<<y>> \o s)[1] = <<y>>[1]
    BY <1>1, <1>2, <2>2, ConcatProperties
  <2>4. QED
    BY <2>3
<1>5. x = y
  BY <1>0, <1>3, <1>4
<1>6. <<x>> \o r = <<x>> \o s
  BY <1>0, <1>5
<1>7. r = s
  <2>1. \A a, b, c \in Seq(Tokens) : a \o b = a \o c => b = c
    BY ConcatSimplifications, Zenon
  <2>2. QED
    BY <1>1, <1>2, <1>6, <2>1
<1>8. QED
  BY <1>5, <1>7

(* A text that is not empty begins with its first token too when another   *)
(* follows.                                                                *)
LEMMA FirstStays ==
    ASSUME NEW t \in Texts, t # <<>>, NEW r \in Texts
    PROVE  /\ t[1] \in Tokens
           /\ \E rest \in Texts : Cat(t, r) = Cat(<<t[1]>>, rest)
<1>1. t \in Seq(Tokens) /\ r \in Seq(Tokens)
  BY DEF Texts
<1>2. t[1] \in Tokens /\ Tail(t) \in Seq(Tokens) /\ t = <<t[1]>> \o Tail(t)
  <2>1. Len(t) \in Nat \ {0}
    BY <1>1, EmptySeq
  <2>2. 1 \in 1 .. Len(t)
    BY <2>1
  <2>3. t[1] \in Tokens
    BY <1>1, <2>2, ElementOfSeq
  <2>4. Tail(t) \in Seq(Tokens)
    BY <1>1, HeadTailProperties
  <2>5. SubSeq(t, 1, Len(t)) = <<t[1]>> \o SubSeq(t, 2, Len(t))
    <3>1. Len(t) \in 1 .. Len(t) /\ 1 + 1 = 2
      BY <2>1
    <3>2. SubSeq(t, 1, Len(t)) = <<t[1]>> \o SubSeq(t, 1 + 1, Len(t))
      BY <1>1, <2>2, <3>1, SubSeqRecursiveFirst
    <3>3. QED
      BY <3>1, <3>2
  <2>6. Tail(t) = SubSeq(t, 2, Len(t)) /\ SubSeq(t, 1, Len(t)) = t
    BY <1>1, TailIsSubSeq, SubSeqFull
  <2>7. QED
    BY <2>3, <2>4, <2>5, <2>6
<1>3. <<t[1]>> \in Seq(Tokens)
  BY <1>2
<1>4. (<<t[1]>> \o Tail(t)) \o r = <<t[1]>> \o (Tail(t) \o r)
  BY <1>1, <1>2, <1>3, ConcatAssociative
<1>5. Tail(t) \o r \in Texts
  BY <1>1, <1>2, ConcatProperties DEF Texts
<1>6. QED
  BY <1>2, <1>4, <1>5 DEF Cat

(* No text begins with one of these and goes on where the other ends.      *)
Separate(t, u) ==
    \A r, s \in Texts : Cat(t, r) = Cat(u, s) => t = u /\ r = s

(* What is left of texts in brackets, as Enclosed defines it.              *)
Rest(texts, close) ==
    LET rest[n \in 0 .. Len(texts)] ==
          IF n = 0 THEN <<Mark(close)>>
          ELSE (IF n = Len(texts) THEN <<>> ELSE <<Mark(",")>>)
               \o texts[Len(texts) - n + 1] \o rest[n - 1]
    IN  rest

(* A text in brackets is the opening one and all that is to come.          *)
LEMMA EnclosedIsRest ==
    ASSUME NEW open, NEW texts, NEW close
    PROVE  Enclosed(open, texts, close)
              = <<Mark(open)>> \o Rest(texts, close)[Len(texts)]
  BY DEF Enclosed, Rest

Comma(n, texts) == IF n = Len(texts) THEN <<>> ELSE <<Mark(",")>>

(* A mark is a token, and which it is.                                     *)
LEMMA MarksTell ==
    /\ \A m \in Marks : Mark(m) \in Tokens /\ <<Mark(m)>> \in Texts
    /\ \A m, k : Mark(m) = Mark(k) => m = k
    /\ \A n, texts : Comma(n, texts) \in Texts
<1>1. \A m \in Marks : Mark(m) \in Tokens /\ <<Mark(m)>> \in Seq(Tokens)
  BY DEF Tokens
<1>2. \A m, k : Mark(m) = Mark(k) => m = k
  BY DEF Mark
<1>3. "," \in Marks
  BY DEF Marks
<1>4. QED
  BY <1>1, <1>2, <1>3, TextsEmpty DEF Texts, Comma

(* What is left begins with the next text, unless none is.                 *)
LEMMA RestWritten ==
    ASSUME NEW texts \in Seq(Texts), NEW close \in Marks
    PROVE  /\ Rest(texts, close) \in [0 .. Len(texts) -> Texts]
           /\ Rest(texts, close)[0] = <<Mark(close)>>
           /\ \A n \in 1 .. Len(texts) :
                 Rest(texts, close)[n]
                    = Cat(Comma(n, texts),
                          Cat(texts[Len(texts) - n + 1],
                              Rest(texts, close)[n - 1]))
<1> DEFINE L == Len(texts)
           S == 0 .. L
           rank == [n \in S |-> n]
           base == [n \in S |-> <<>>]
           Value(f, n) ==
              IF n = 0 THEN <<Mark(close)>>
              ELSE Cat(Cat(Comma(n, texts), texts[L - n + 1]), f[n - 1])
           G == [f \in [S -> Texts] |-> [n \in S |-> Value(f, n)]]
<1>1. L \in Nat /\ \A i \in 1 .. L : texts[i] \in Texts
  BY LenProperties, ElementOfSeq
<1>2. rank \in [S -> Nat] /\ base \in [S -> Texts]
  BY <1>1, TextsEmpty
<1>3. ASSUME NEW n \in S, n # 0
      PROVE  /\ n - 1 \in S /\ L - n + 1 \in 1 .. L
             /\ texts[L - n + 1] \in Texts
  BY <1>1, <1>3
<1> HIDE DEF L
<1>4. ASSUME NEW f \in [S -> Texts], NEW n \in S
      PROVE  Value(f, n) \in Texts
  <2>1. CASE n = 0
    BY <2>1, MarksTell
  <2>2. CASE n # 0
    <3>1. f[n - 1] \in Texts
      BY <1>3, <2>2
    <3>2. Cat(Comma(n, texts), texts[L - n + 1]) \in Texts
      BY <1>3, <2>2, MarksTell, TextsClosed
    <3>3. QED
      BY <2>2, <3>1, <3>2, TextsClosed
  <2>3. QED
    BY <2>1, <2>2
<1> HIDE DEF Value
<1>5. G \in [[S -> Texts] -> [S -> Texts]]
  BY <1>4
<1>6. LooksBelow(G, S, Texts, rank)
  <2>1. ASSUME NEW n \in S, NEW f \in [S -> Texts], NEW g \in [S -> Texts],
               \A k \in S : rank[k] < rank[n] => f[k] = g[k]
        PROVE  Value(f, n) = Value(g, n)
    <3>1. CASE n = 0
      BY <3>1 DEF Value
    <3>2. CASE n # 0
      <4>1. n - 1 \in S /\ rank[n - 1] < rank[n]
        BY <1>1, <1>3, <3>2
      <4>2. f[n - 1] = g[n - 1]
        BY <2>1, <4>1
      <4>3. QED
        BY <4>2 DEF Value
    <3>3. QED
      BY <3>1, <3>2
  <2>2. QED
    BY <2>1 DEF LooksBelow
<1>7. PICK f \in [S -> Texts] : f = G[f]
  <2> HIDE DEF G, S, rank, base
  <2>1. IsRecursion(G, S, Texts, rank, base)
    BY <1>2, <1>5, <1>6 DEF IsRecursion
  <2>2. QED
    BY <2>1, RecursionExists
<1>8. f = [n \in S |-> Value(f, n)]
  BY <1>7
<1> DEFINE rest == Rest(texts, close)
<1>9. rest = [n \in S |-> Value(rest, n)]
  BY <1>8 DEF Rest, Value, Comma, Cat, L
<1> HIDE DEF rest
<1>10. rest = f
  <2>1. ASSUME NEW n \in S, \A k \in S : rank[k] < rank[n] => rest[k] = f[k]
        PROVE  rest[n] = f[n]
    <3>1. CASE n = 0
      BY <1>8, <1>9, <3>1 DEF Value
    <3>2. CASE n # 0
      <4>1. n - 1 \in S /\ rank[n - 1] < rank[n]
        BY <1>1, <1>3, <3>2
      <4>2. rest[n - 1] = f[n - 1]
        BY <2>1, <4>1
      <4>3. rest[n] = Value(rest, n) /\ f[n] = Value(f, n)
        BY <1>8, <1>9
      <4>4. QED
        BY <4>2, <4>3 DEF Value
    <3>3. QED
      BY <3>1, <3>2
  <2>2. rest = [n \in S |-> rest[n]] /\ f = [n \in S |-> f[n]]
    BY <1>9
  <2> HIDE DEF S, rank, Value
  <2>3. AgreeAlong(rest, f, S, rank)
    BY <1>2, <2>1, <2>2 DEF AgreeAlong
  <2>4. QED
    BY <2>3, RecursionUnique
<1>11. rest \in [S -> Texts]
  BY <1>10
<1>12. rest[0] = <<Mark(close)>>
  BY <1>1, <1>9 DEF Value
<1>13. ASSUME NEW n \in 1 .. L
       PROVE  rest[n] = Cat(Comma(n, texts), Cat(texts[L - n + 1], rest[n - 1]))
  <2>1. n \in S /\ n # 0
    BY <1>1
  <2>2. rest[n] = Cat(Cat(Comma(n, texts), texts[L - n + 1]), rest[n - 1])
    BY <1>9, <2>1 DEF Value
  <2>3. rest[n - 1] \in Texts /\ texts[L - n + 1] \in Texts
    BY <1>3, <1>11, <2>1
  <2>4. Comma(n, texts) \in Texts
    BY MarksTell
  <2> HIDE DEF L
  <2>5. QED
    BY <2>2, <2>3, <2>4, TextsAssociate
<1>14. QED
  BY <1>11, <1>12, <1>13 DEF rest, L

(* The two marks that close a text.                                        *)
Closing == {"]", "}"}

(* What stands between brackets does not begin with a closing one.         *)
Inner(t) == t \in Texts /\ t # <<>> /\ t[1] \notin {Mark(m) : m \in Closing}

(* Nothing that is to come is not taken for something.                     *)
LEMMA CloseTells ==
    ASSUME NEW texts \in Seq(Texts), NEW close \in Closing,
           \A i \in 1 .. Len(texts) : Inner(texts[i]),
           NEW n \in 1 .. Len(texts), NEW r \in Texts, NEW s \in Texts
    PROVE  Cat(<<Mark(close)>>, r) # Cat(Rest(texts, close)[n], s)
<1> DEFINE t == texts[Len(texts) - n + 1]
           rest == Rest(texts, close)[n - 1]
           u == Cat(rest, s)
<1>1. /\ Len(texts) \in Nat /\ Len(texts) - n + 1 \in 1 .. Len(texts)
      /\ n - 1 \in 0 .. Len(texts) /\ close \in Marks /\ "," \in Marks
      /\ Mark(close) # Mark(",")
  <2>1. Len(texts) \in Nat
    BY LenProperties
  <2>2. close # "," /\ close \in Marks /\ "," \in Marks
    BY DEF Closing, Marks
  <2>3. Mark(close) # Mark(",")
    BY <2>2, MarksTell
  <2>4. Len(texts) - n + 1 \in 1 .. Len(texts) /\ n - 1 \in 0 .. Len(texts)
    BY <2>1
  <2>5. QED
    BY <2>1, <2>2, <2>3, <2>4
<1>2. /\ Inner(t) /\ t \in Texts /\ rest \in Texts
      /\ Rest(texts, close)[n] = Cat(Comma(n, texts), Cat(t, rest))
  BY <1>1, RestWritten DEF Inner
<1> HIDE DEF t, rest
<1>3. u \in Texts /\ Cat(t, u) \in Texts /\ Comma(n, texts) \in Texts
  BY <1>2, TextsClosed, MarksTell
<1>4. Cat(Rest(texts, close)[n], s) = Cat(Comma(n, texts), Cat(t, u))
  BY <1>2, <1>3, ThreeAssociate
<1>5. Mark(close) \in Tokens /\ Mark(",") \in Tokens
  BY <1>1, MarksTell
<1> HIDE DEF u
<1>6. CASE n = Len(texts)
  <2>1. Cat(Rest(texts, close)[n], s) = Cat(t, u)
    BY <1>3, <1>4, <1>6, TextsEmpty DEF Comma
  <2>2. PICK v \in Texts : Cat(t, u) = Cat(<<t[1]>>, v)
    BY <1>2, <1>3, FirstStays DEF Inner
  <2>3. t[1] \in Tokens /\ t[1] # Mark(close)
    BY <1>2, <1>3, FirstStays DEF Inner
  <2>4. Cat(<<Mark(close)>>, r) # Cat(<<t[1]>>, v)
    BY <1>5, <2>3, FirstTells
  <2>5. QED
    BY <2>1, <2>2, <2>4
<1>7. CASE n # Len(texts)
  <2>1. Cat(Rest(texts, close)[n], s) = Cat(<<Mark(",")>>, Cat(t, u))
    BY <1>4, <1>7 DEF Comma
  <2>2. Cat(<<Mark(close)>>, r) # Cat(<<Mark(",")>>, Cat(t, u))
    <3>1. PICK v \in Texts : v = Cat(t, u)
      BY <1>3
    <3>2. Cat(<<Mark(close)>>, r) # Cat(<<Mark(",")>>, v)
      BY <1>1, <1>5, FirstTells
    <3>3. QED
      BY <3>1, <3>2
  <2>3. QED
    BY <2>1, <2>2
<1>8. QED
  BY <1>6, <1>7

(* In brackets the texts are told from each other one by one.              *)
LEMMA RestTells ==
    ASSUME NEW A \in Seq(Texts), NEW B \in Seq(Texts), NEW close \in Closing,
           \A i \in 1 .. Len(A) : Inner(A[i]),
           \A i \in 1 .. Len(B) : Inner(B[i]),
           \A i \in (1 .. Len(A)) \cap (1 .. Len(B)) : Separate(A[i], B[i]),
           NEW r \in Texts, NEW s \in Texts,
           Cat(Rest(A, close)[Len(A)], r) = Cat(Rest(B, close)[Len(B)], s)
    PROVE  A = B /\ r = s
<1> DEFINE a == Len(A)
           b == Len(B)
           Ra == Rest(A, close)
           Rb == Rest(B, close)
           Tells(n, m) ==
              \A x, y \in Texts : Cat(Ra[n], x) = Cat(Rb[m], y) =>
                 /\ n = m /\ x = y
                 /\ \A i \in a - n + 1 .. a : A[i] = B[i]
           Bad == {n \in 0 .. a : \E m \in 0 .. b : a - n = b - m /\ ~Tells(n, m)}
<1>1. /\ a \in Nat /\ b \in Nat /\ close \in Marks
      /\ A = [i \in 1 .. a |-> A[i]] /\ B = [i \in 1 .. b |-> B[i]]
  <2>1. a \in Nat /\ b \in Nat /\ close \in Marks
    BY LenProperties DEF Closing, Marks
  <2>2. A \in [1 .. a -> Texts] /\ B \in [1 .. b -> Texts]
    BY LenProperties
  <2>3. QED
    BY <2>1, <2>2
<1>2. /\ Ra[0] = <<Mark(close)>> /\ Rb[0] = <<Mark(close)>>
      /\ Ra \in [0 .. a -> Texts] /\ Rb \in [0 .. b -> Texts]
  BY <1>1, RestWritten
<1>3. ASSUME NEW n \in 1 .. a, NEW m \in 1 .. b, a - n = b - m
      PROVE  \E c, t, u, v, w \in Texts :
                /\ t = A[a - n + 1] /\ u = B[a - n + 1]
                /\ v = Ra[n - 1] /\ w = Rb[m - 1]
                /\ Ra[n] = Cat(c, Cat(t, v)) /\ Rb[m] = Cat(c, Cat(u, w))
  <2>1. /\ a - n + 1 \in 1 .. a /\ b - m + 1 \in 1 .. b /\ b - m + 1 = a - n + 1
        /\ n - 1 \in 0 .. a /\ m - 1 \in 0 .. b /\ (n = a <=> m = b)
    BY <1>1, <1>3
  <2>2. /\ Ra[n] = Cat(Comma(n, A), Cat(A[a - n + 1], Ra[n - 1]))
        /\ Rb[m] = Cat(Comma(m, B), Cat(B[b - m + 1], Rb[m - 1]))
    BY <1>1, RestWritten
  <2>3. Comma(n, A) = Comma(m, B) /\ Comma(n, A) \in Texts
    BY <2>1, MarksTell DEF Comma
  <2>4. A[a - n + 1] \in Texts /\ B[a - n + 1] \in Texts
    BY <2>1, ElementOfSeq
  <2>5. Ra[n - 1] \in Texts /\ Rb[m - 1] \in Texts
    BY <1>2, <2>1
  <2> HIDE DEF a, b, Ra, Rb
  <2>6. QED
    BY <2>1, <2>2, <2>3, <2>4, <2>5
<1>4. Bad = {}
  <2>1. SUFFICES ASSUME Bad # {} PROVE FALSE
    OBVIOUS
  <2>2. PICK n \in Bad : \A k \in Bad : n <= k
    <3>1. Bad \subseteq Nat
      <4> HIDE DEF Tells, a, b
      <4>1. QED
        BY <1>1
    <3> HIDE DEF Bad
    <3>2. QED
      BY <2>1, <3>1, LeastNatural
  <2>3. PICK m \in 0 .. b : a - n = b - m /\ ~Tells(n, m)
    BY <2>2
  <2>4. n \in 0 .. a
    BY <2>2
  <2>5. PICK x \in Texts, y \in Texts :
            /\ Cat(Ra[n], x) = Cat(Rb[m], y)
            /\ ~(/\ n = m /\ x = y
                 /\ \A i \in a - n + 1 .. a : A[i] = B[i])
    BY <2>3
  <2>6. n # 0
    <3>1. SUFFICES ASSUME n = 0 PROVE FALSE
      OBVIOUS
    <3>2. m # 0
      <4>1. SUFFICES ASSUME m = 0 PROVE FALSE
        OBVIOUS
      <4>2. x = y
        <5>1. <<Mark(close)>> \in Texts /\ Cat(<<Mark(close)>>, x) = Cat(<<Mark(close)>>, y)
          BY <1>1, <1>2, <2>5, <3>1, <4>1, MarksTell
        <5>2. QED
          BY <5>1, BeforeCancels
      <4>3. a - n + 1 > a
        BY <1>1, <3>1
      <4>4. QED
        BY <1>1, <2>5, <3>1, <4>1, <4>2, <4>3
    <3>3. m \in 1 .. b
      BY <1>1, <2>3, <3>2
    <3>4. Cat(<<Mark(close)>>, x) = Cat(Rb[m], y)
      BY <1>2, <2>5, <3>1
    <3>5. QED
      BY <3>3, <3>4, CloseTells
  <2>7. m # 0
    <3>1. SUFFICES ASSUME m = 0 PROVE FALSE
      OBVIOUS
    <3>2. n \in 1 .. a
      BY <1>1, <2>4, <2>6
    <3>3. Cat(<<Mark(close)>>, y) = Cat(Ra[n], x)
      BY <1>2, <2>5, <3>1
    <3>4. QED
      BY <3>2, <3>3, CloseTells
  <2>8. /\ n \in 1 .. a /\ m \in 1 .. b /\ n - 1 \in 0 .. a /\ m - 1 \in 0 .. b
        /\ a - n + 1 \in (1 .. a) \cap (1 .. b) /\ ~(n <= n - 1)
        /\ a - (n - 1) = b - (m - 1) /\ a - (n - 1) + 1 = a - n + 2
    <3> HIDE DEF a, b, Tells, Bad
    <3>1. /\ a \in Nat /\ b \in Nat /\ n \in 0 .. a /\ m \in 0 .. b
          /\ n # 0 /\ m # 0 /\ a - n = b - m
      BY <1>1, <2>3, <2>4, <2>6, <2>7
    <3>2. PICK p \in Nat, q \in Nat, k \in Nat, l \in Nat :
              p = a /\ q = b /\ k = n /\ l = m
      BY <3>1
    <3>3. QED
      BY <3>1, <3>2
  <2>9. Tells(n - 1, m - 1)
    <3>1. n - 1 \notin Bad
      <4> HIDE DEF Bad
      <4>1. QED
        BY <2>2, <2>8
    <3> HIDE DEF Tells
    <3>2. QED
      BY <2>8, <3>1
  <2>10. PICK c \in Texts, t \in Texts, u \in Texts, v \in Texts, w \in Texts :
            /\ t = A[a - n + 1] /\ u = B[a - n + 1]
            /\ v = Ra[n - 1] /\ w = Rb[m - 1]
            /\ Ra[n] = Cat(c, Cat(t, v)) /\ Rb[m] = Cat(c, Cat(u, w))
    BY SMTT(30), <1>3, <2>3, <2>8
  <2> HIDE DEF Ra, Rb, a, b
  <2>11. Cat(v, x) \in Texts /\ Cat(w, y) \in Texts
    BY TextsClosed
  <2>12. Cat(t, Cat(v, x)) = Cat(u, Cat(w, y))
    <3>1. Cat(Cat(c, Cat(t, v)), x) = Cat(c, Cat(t, Cat(v, x)))
      BY ThreeAssociate
    <3>2. Cat(Cat(c, Cat(u, w)), y) = Cat(c, Cat(u, Cat(w, y)))
      BY ThreeAssociate
    <3>3. Cat(t, Cat(v, x)) \in Texts /\ Cat(u, Cat(w, y)) \in Texts
      BY <2>11, TextsClosed
    <3>4. QED
      BY <2>5, <2>10, <3>1, <3>2, <3>3, BeforeCancels
  <2>13. Separate(t, u)
    BY <2>8, <2>10 DEF a, b
  <2>14. t = u /\ Cat(v, x) = Cat(w, y)
    BY <2>11, <2>12, <2>13 DEF Separate
  <2>15. n - 1 = m - 1 /\ x = y /\ \A i \in a - (n - 1) + 1 .. a : A[i] = B[i]
    <3>1. \A p, q \in Texts : Cat(Ra[n - 1], p) = Cat(Rb[m - 1], q) =>
             /\ n - 1 = m - 1 /\ p = q
             /\ \A i \in a - (n - 1) + 1 .. a : A[i] = B[i]
      BY <2>9
    <3>2. Cat(Ra[n - 1], x) = Cat(Rb[m - 1], y)
      BY <2>10, <2>14
    <3> HIDE DEF Tells
    <3>3. QED
      BY <3>1, <3>2
  <2>16. \A i \in a - n + 1 .. a : i = a - n + 1 \/ i \in a - (n - 1) + 1 .. a
    <3> HIDE DEF Tells, Bad
    <3>1. a \in Int /\ n \in Int
      BY <1>1, <2>8
    <3>2. QED
      BY <3>1
  <2>17. n = m
    BY <2>8, <2>15
  <2>18. A[a - n + 1] = B[a - n + 1]
    BY <2>10, <2>14
  <2>19. QED
    BY <2>5, <2>15, <2>16, <2>17, <2>18
<1>5. Tells(a, b)
  <2>1. a \in 0 .. a /\ b \in 0 .. b /\ a - a = b - b
    BY <1>1
  <2> HIDE DEF Tells, a, b
  <2>2. QED
    BY <1>4, <2>1
<1>6. a = b /\ r = s /\ \A i \in a - a + 1 .. a : A[i] = B[i]
  BY <1>5
<1>7. A = B
  <2>1. a - a + 1 = 1
    BY <1>1
  <2> HIDE DEF a, b
  <2>2. QED
    BY <1>1, <1>6, <2>1
<1>8. QED
  BY <1>6, <1>7

(* Texts in brackets are one text, that tells them and where it ends.      *)
LEMMA EnclosedIsText ==
    ASSUME NEW texts \in Seq(Texts), NEW open \in Marks, NEW close \in Closing
    PROVE  /\ Enclosed(open, texts, close) \in Texts
           /\ Enclosed(open, texts, close)
                 = Cat(<<Mark(open)>>, Rest(texts, close)[Len(texts)])
           /\ Rest(texts, close)[Len(texts)] \in Texts
<1>1. Len(texts) \in 0 .. Len(texts) /\ close \in Marks
  <2>1. Len(texts) \in Nat /\ close \in Marks
    BY LenProperties DEF Closing, Marks
  <2>2. QED
    BY <2>1
<1>2. Rest(texts, close)[Len(texts)] \in Texts
  BY <1>1, RestWritten
<1>3. Enclosed(open, texts, close)
         = Cat(<<Mark(open)>>, Rest(texts, close)[Len(texts)])
  BY EnclosedIsRest DEF Cat
<1>4. <<Mark(open)>> \in Texts
  BY MarksTell
<1>5. QED
  BY <1>2, <1>3, <1>4, TextsClosed

InnerTexts(A) == A \in Seq(Texts) /\ \A i \in 1 .. Len(A) : Inner(A[i])

EachSeparate(A, B) ==
    \A i \in (1 .. Len(A)) \cap (1 .. Len(B)) : Separate(A[i], B[i])

(* Brackets tell what is in them and what follows, when what is in them    *)
(* tells where it ends.                                                    *)
LEMMA EnclosedTells ==
    ASSUME NEW A, NEW B, InnerTexts(A), InnerTexts(B), EachSeparate(A, B),
           NEW open \in Marks, NEW close \in Closing,
           NEW r \in Texts, NEW s \in Texts,
           Cat(Enclosed(open, A, close), r) = Cat(Enclosed(open, B, close), s)
    PROVE  A = B /\ r = s
<1> USE DEF InnerTexts, EachSeparate
<1> DEFINE t == Rest(A, close)[Len(A)]
           u == Rest(B, close)[Len(B)]
<1>1. /\ Enclosed(open, A, close) = Cat(<<Mark(open)>>, t) /\ t \in Texts
      /\ Enclosed(open, B, close) = Cat(<<Mark(open)>>, u) /\ u \in Texts
      /\ <<Mark(open)>> \in Texts
  BY EnclosedIsText, MarksTell
<1>2. Cat(t, r) = Cat(u, s)
  <2> HIDE DEF t, u
  <2>1. /\ Cat(Cat(<<Mark(open)>>, t), r) = Cat(<<Mark(open)>>, Cat(t, r))
        /\ Cat(Cat(<<Mark(open)>>, u), s) = Cat(<<Mark(open)>>, Cat(u, s))
    BY <1>1, TextsAssociate
  <2>2. Cat(t, r) \in Texts /\ Cat(u, s) \in Texts
    BY <1>1, TextsClosed
  <2>3. Cat(<<Mark(open)>>, Cat(t, r)) = Cat(<<Mark(open)>>, Cat(u, s))
    BY <1>1, <2>1
  <2>4. QED
    BY <1>1, <2>2, <2>3, BeforeCancels
<1>3. QED
  BY <1>2, RestTells

(* Names in order.                                                         *)
IsOrdered(s, names, language) ==
    /\ s \in [1 .. Cardinality(names) -> names]
    /\ \A i, j \in DOMAIN s : i < j => Precedes(s[i], s[j], language)

(* One name comes before the others.                                       *)
LEMMA FirstName ==
    ASSUME NEW names \in SUBSET DOMAIN KeyRank, names # {}, NEW language
    PROVE  \E k \in names : \A l \in names : l # k => Precedes(k, l, language)
<1> DEFINE IsIndex(name) == language = "js" /\ name \in DOMAIN KeyIndex
           indices == {name \in names : IsIndex(name)}
<1>1. /\ KeyRank \in [DOMAIN KeyRank -> Nat] /\ OneToOne(KeyRank)
      /\ KeyIndex \in [DOMAIN KeyIndex -> Nat] /\ OneToOne(KeyIndex)
  BY JsonAssumption
<1>2. CASE indices = {}
  <2> DEFINE T == {KeyRank[name] : name \in names}
  <2>1. PICK n \in T : \A m \in T : n <= m
    <3>1. T \subseteq Nat /\ T # {}
      BY <1>1
    <3> HIDE DEF T
    <3>2. QED
      BY <3>1, LeastNatural
  <2>2. PICK k \in names : n = KeyRank[k]
    BY <2>1
  <2>3. ASSUME NEW l \in names, l # k
        PROVE  Precedes(k, l, language)
    <3>1. KeyRank[k] <= KeyRank[l]
      BY <2>1, <2>2
    <3>2. KeyRank[k] # KeyRank[l] /\ KeyRank[k] \in Nat /\ KeyRank[l] \in Nat
      BY <1>1, <2>3 DEF OneToOne
    <3>3. ~IsIndex(k) /\ ~IsIndex(l)
      BY <1>2
    <3>4. KeyRank[k] < KeyRank[l]
      BY <3>1, <3>2
    <3>5. QED
      BY <3>3, <3>4 DEF Precedes
  <2>4. QED
    BY <2>3
<1>3. CASE indices # {}
  <2> DEFINE T == {KeyIndex[name] : name \in indices}
  <2>1. PICK n \in T : \A m \in T : n <= m
    <3>1. T \subseteq Nat /\ T # {}
      BY <1>1, <1>3
    <3> HIDE DEF T
    <3>2. QED
      BY <3>1, LeastNatural
  <2>2. PICK k \in indices : n = KeyIndex[k]
    BY <2>1
  <2>3. ASSUME NEW l \in names, l # k
        PROVE  Precedes(k, l, language)
    <3>1. CASE IsIndex(l)
      <4>1. KeyIndex[k] <= KeyIndex[l]
        BY <2>1, <2>2, <3>1
      <4>2. KeyIndex[k] # KeyIndex[l] /\ KeyIndex[k] \in Nat /\ KeyIndex[l] \in Nat
        BY <1>1, <2>2, <2>3, <3>1 DEF OneToOne
      <4>3. KeyIndex[k] < KeyIndex[l]
        BY <4>1, <4>2
      <4>4. QED
        BY <2>2, <3>1, <4>3 DEF Precedes
    <3>2. CASE ~IsIndex(l)
      BY <2>2, <3>2 DEF Precedes
    <3>3. QED
      BY <3>1, <3>2
  <2>4. QED
    BY <2>2, <2>3
<1>4. QED
  BY <1>2, <1>3

(* So finitely many names are in one order or another,                     *)
LEMMA OrderExists ==
    ASSUME NEW names \in SUBSET DOMAIN KeyRank, IsFiniteSet(names), NEW language
    PROVE  IsOrdered(InOrder(names, language), names, language)
<1> DEFINE Bad == {n \in Nat : \E few \in SUBSET DOMAIN KeyRank :
                      /\ IsFiniteSet(few) /\ Cardinality(few) = n
                      /\ ~ \E s : IsOrdered(s, few, language)}
<1>1. Bad = {}
  <2>1. SUFFICES ASSUME Bad # {} PROVE FALSE
    OBVIOUS
  <2>2. PICK n \in Bad : \A m \in Bad : n <= m
    <3>1. Bad \subseteq Nat
      OBVIOUS
    <3> HIDE DEF Bad
    <3>2. QED
      BY <2>1, <3>1, LeastNatural
  <2>3. PICK few \in SUBSET DOMAIN KeyRank :
            /\ IsFiniteSet(few) /\ Cardinality(few) = n
            /\ ~ \E s : IsOrdered(s, few, language)
    BY <2>2
  <2>4. n \in Nat
    BY <2>2
  <2>5. few # {}
    <3>1. SUFFICES ASSUME few = {} PROVE FALSE
      OBVIOUS
    <3>2. Cardinality(few) = 0
      BY <3>1, FS_EmptySet
    <3>3. [i \in 1 .. Cardinality(few) |-> 0] \in [1 .. Cardinality(few) -> few]
          /\ DOMAIN [i \in 1 .. Cardinality(few) |-> 0] = {}
      BY <3>2
    <3>4. IsOrdered([i \in 1 .. Cardinality(few) |-> 0], few, language)
      BY <3>3 DEF IsOrdered
    <3>5. QED
      BY <2>3, <3>4
  <2>6. PICK k \in few : \A l \in few : l # k => Precedes(k, l, language)
    BY <2>5, FirstName
  <2>7. IsFiniteSet(few \ {k}) /\ Cardinality(few \ {k}) = n - 1 /\ n - 1 \in Nat
    <3>1. IsFiniteSet(few \ {k}) /\ Cardinality(few \ {k}) = n - 1
      BY <2>3, FS_RemoveElement
    <3>2. n # 0
      BY <2>3, <2>5, FS_EmptySet
    <3>3. QED
      BY <2>4, <3>1, <3>2
  <2>8. PICK s : IsOrdered(s, few \ {k}, language)
    <3>1. n - 1 \notin Bad
      <4>1. ~(n <= n - 1)
        BY <2>4
      <4> HIDE DEF Bad
      <4>2. QED
        BY <2>2, <4>1
    <3>2. few \ {k} \in SUBSET DOMAIN KeyRank
      OBVIOUS
    <3>3. QED
      BY <2>7, <3>1, <3>2
  <2> DEFINE t == [i \in 1 .. n |-> IF i = 1 THEN k ELSE s[i - 1]]
  <2>9. s \in [1 .. n - 1 -> few \ {k}] /\ DOMAIN s = 1 .. n - 1
        /\ \A i, j \in 1 .. n - 1 : i < j => Precedes(s[i], s[j], language)
    BY <2>7, <2>8 DEF IsOrdered
  <2>10. ASSUME NEW i \in 1 .. n, i # 1
         PROVE  i - 1 \in 1 .. n - 1 /\ t[i] = s[i - 1] /\ s[i - 1] \in few \ {k}
    <3>1. i - 1 \in 1 .. n - 1
      BY <2>4, <2>10
    <3>2. QED
      BY <2>9, <2>10, <3>1
  <2>11. t \in [1 .. n -> few]
    <3>1. \A i \in 1 .. n : t[i] \in few
      BY <2>10
    <3>2. QED
      BY <3>1
  <2>12. ASSUME NEW i \in 1 .. n, NEW j \in 1 .. n, i < j
         PROVE  Precedes(t[i], t[j], language)
    <3>1. j # 1
      BY <2>4, <2>12
    <3>2. CASE i = 1
      <4>1. t[i] = k /\ t[j] \in few /\ t[j] # k
        BY <2>10, <3>1, <3>2
      <4>2. QED
        BY <2>6, <4>1
    <3>3. CASE i # 1
      <4>1. i - 1 \in 1 .. n - 1 /\ j - 1 \in 1 .. n - 1 /\ i - 1 < j - 1
        BY <2>4, <2>10, <2>12, <3>1, <3>3
      <4>2. t[i] = s[i - 1] /\ t[j] = s[j - 1]
        BY <2>10, <3>1, <3>3
      <4> HIDE DEF t
      <4>3. QED
        BY <2>9, <4>1, <4>2
    <3>4. QED
      BY <3>2, <3>3
  <2>13. IsOrdered(t, few, language)
    <3>1. DOMAIN t = 1 .. n
      OBVIOUS
    <3> HIDE DEF t
    <3>2. QED
      BY <2>3, <2>11, <2>12, <3>1 DEF IsOrdered
  <2>14. QED
    BY <2>3, <2>13
<1>2. Cardinality(names) \in Nat
  BY FS_CardinalityType
<1>3. PICK s : IsOrdered(s, names, language)
  BY <1>1, <1>2
<1>4. QED
  BY <1>3 DEF InOrder, IsOrdered

(* each of them once.                                                      *)
LEMMA OrderIsWhole ==
    ASSUME NEW names \in SUBSET DOMAIN KeyRank, IsFiniteSet(names), NEW language
    PROVE  LET s == InOrder(names, language)
           IN  /\ s \in Seq(names) /\ DOMAIN s = 1 .. Len(s)
               /\ names = {s[i] : i \in DOMAIN s}
<1> DEFINE s == InOrder(names, language)
           n == Cardinality(names)
<1>1. /\ s \in [1 .. n -> names]
      /\ \A i, j \in DOMAIN s : i < j => Precedes(s[i], s[j], language)
  BY OrderExists DEF IsOrdered
<1> HIDE DEF s
<1>2. n \in Nat
  BY FS_CardinalityType
<1> HIDE DEF n
<1>3. ASSUME NEW k \in names
      PROVE  ~Precedes(k, k, language)
  <2>1. KeyRank[k] \in Nat
    BY JsonAssumption
  <2>2. k \in DOMAIN KeyIndex => KeyIndex[k] \in Nat
    BY JsonAssumption
  <2>3. QED
    BY <2>1, <2>2 DEF Precedes
<1>4. s \in Injection(1 .. n, names)
  <2>1. ASSUME NEW i \in 1 .. n, NEW j \in 1 .. n, s[i] = s[j]
        PROVE  i = j
    <3>1. ~(i < j) /\ ~(j < i)
      BY <1>1, <1>3, <2>1
    <3>2. QED
      BY <1>2, <3>1
  <2>2. QED
    BY <1>1, <2>1 DEF Injection, IsInjective
<1>5. s \in Surjection(1 .. n, names)
  <2>1. Cardinality(1 .. n) = n
    BY <1>2, FS_Interval
  <2>2. QED
    BY <1>4, <2>1, FS_Injection DEF n
<1>6. names = {s[i] : i \in DOMAIN s}
  BY <1>1, <1>5 DEF Surjection
<1>7. s \in Seq(names) /\ DOMAIN s = 1 .. Len(s)
  BY <1>1, <1>2
<1>8. QED
  BY <1>6, <1>7 DEF s

(* What a JSON value is, by its kind.                                      *)
LEMMA ArrayIs ==
    ASSUME NEW v \in Json, v.kind = "array"
    PROVE  /\ v.items \in Seq(Json) /\ DOMAIN v.items = 1 .. Len(v.items)
           /\ \A i \in DOMAIN v.items :
                 v.items[i] \in Json /\ Nesting[v.items[i]] < Nesting[v]
<1>1. v.items \in Seq(Json)
  BY JsonAssumption
<1>2. DOMAIN v.items = 1 .. Len(v.items)
  BY <1>1, LenProperties
<1>3. ASSUME NEW i \in DOMAIN v.items
      PROVE  v.items[i] \in Parts(v)
  BY DEF Parts
<1>4. ASSUME NEW i \in DOMAIN v.items
      PROVE  v.items[i] \in Json /\ Nesting[v.items[i]] < Nesting[v]
  BY <1>1, <1>2, <1>3, ElementOfSeq, JsonAssumption
<1>5. QED
  BY <1>1, <1>2, <1>4

(* The names of an object are finitely many, and each holds a value that   *)
(* nests less deep.                                                        *)
LEMMA ObjectIs ==
    ASSUME NEW v \in Json, v.kind = "object"
    PROVE  /\ MemberNames(v) \in SUBSET DOMAIN KeyRank
           /\ IsFiniteSet(MemberNames(v))
           /\ \A name \in MemberNames(v) :
                 Held(v, name) \in Json /\ Nesting[Held(v, name)] < Nesting[v]
<1> DEFINE members == v.members
<1>1. members \in Seq([key : DOMAIN KeyRank, val : Json])
  BY JsonAssumption
<1>2. DOMAIN members = 1 .. Len(members) /\ Len(members) \in Nat
  BY <1>1, LenProperties
<1>3. ASSUME NEW i \in DOMAIN members
      PROVE  /\ members[i].key \in DOMAIN KeyRank /\ members[i].val \in Json
             /\ members[i].val \in Parts(v)
  <2>1. members[i] \in [key : DOMAIN KeyRank, val : Json]
    BY <1>1, <1>2, ElementOfSeq
  <2>2. members[i].val \in Parts(v)
    BY DEF Parts
  <2>3. QED
    BY <2>1, <2>2
<1>4. MemberNames(v) = {members[i].key : i \in DOMAIN members}
  BY DEF MemberNames
<1>5. ASSUME NEW name \in MemberNames(v)
      PROVE  Held(v, name) \in Json /\ Nesting[Held(v, name)] < Nesting[v]
  <2>1. PICK i \in DOMAIN members :
            i = CHOOSE j \in DOMAIN members : members[j].key = name
    BY <1>4
  <2>2. Held(v, name) = members[i].val
    BY <2>1 DEF Held
  <2>3. QED
    BY <1>3, <2>2, JsonAssumption
<1>6. IsFiniteSet(MemberNames(v))
  <2> DEFINE keys == [i \in 1 .. Len(members) |-> members[i].key]
  <2>1. keys \in Surjection(1 .. Len(members), MemberNames(v))
    BY <1>2, <1>4 DEF Surjection
  <2>2. IsFiniteSet(1 .. Len(members))
    BY <1>2, FS_Interval
  <2>3. QED
    BY <2>1, <2>2, FS_Surjection
<1>7. QED
  BY <1>3, <1>4, <1>5, <1>6

(* A value without parts is not taken for a mark.                          *)
LEMMA LeafIs ==
    ASSUME NEW v \in Json, v.kind \notin {"array", "object"}, NEW m
    PROVE  v # Mark(m)
<1>1. v.kind \in {"atom", "number", "fraction"}
  BY JsonAssumption
<1>2. Mark(m).kind = "mark"
  BY DEF Mark
<1>3. QED
  BY <1>1, <1>2

(* The texts between the brackets of a value.                              *)
ItemTexts(text, v) == [i \in DOMAIN v.items |-> text[v.items[i]]]

WrittenNames(v, language) ==
    InOrder(Written(MemberNames(v), language), language)

MemberText(text, v, name) == <<Atom(name), Mark(":")>> \o text[Held(v, name)]

MemberTexts(text, v, language) ==
    [i \in DOMAIN WrittenNames(v, language) |->
        MemberText(text, v, WrittenNames(v, language)[i])]

TextOf(text, v, language) ==
    CASE v.kind = "array" -> Enclosed("[", ItemTexts(text, v), "]")
      [] v.kind = "object" -> Enclosed("{", MemberTexts(text, v, language), "}")
      [] OTHER -> <<v>>

(* The names an object is written with, in their order, are the ones to be *)
(* written, each once, and hold values that nest less deep.                *)
LEMMA WrittenNamesAre ==
    ASSUME NEW v \in Json, v.kind = "object", NEW language
    PROVE  LET names == WrittenNames(v, language)
           IN  /\ DOMAIN names = 1 .. Len(names) /\ Len(names) \in Nat
               /\ Written(MemberNames(v), language) = {names[i] : i \in DOMAIN names}
               /\ \A i \in DOMAIN names :
                    /\ names[i] \in DOMAIN KeyRank
                    /\ Held(v, names[i]) \in Json
                    /\ Nesting[Held(v, names[i])] < Nesting[v]
<1> DEFINE written == Written(MemberNames(v), language)
           names == WrittenNames(v, language)
<1>1. /\ MemberNames(v) \in SUBSET DOMAIN KeyRank
      /\ IsFiniteSet(MemberNames(v))
      /\ \A name \in MemberNames(v) :
            Held(v, name) \in Json /\ Nesting[Held(v, name)] < Nesting[v]
  BY ObjectIs
<1>2. written \in SUBSET MemberNames(v)
  BY DEF Written
<1>3. written \in SUBSET DOMAIN KeyRank /\ IsFiniteSet(written)
  BY <1>1, <1>2, FS_Subset
<1> HIDE DEF written
<1>4. names = InOrder(written, language)
  BY DEF WrittenNames, written
<1> HIDE DEF names
<1>5. /\ names \in Seq(written) /\ DOMAIN names = 1 .. Len(names)
      /\ written = {names[i] : i \in DOMAIN names}
  BY <1>3, <1>4, OrderIsWhole
<1>6. Len(names) \in Nat
  BY <1>5, LenProperties
<1>7. ASSUME NEW i \in DOMAIN names
      PROVE  names[i] \in MemberNames(v)
  BY <1>2, <1>5
<1>8. QED
  BY <1>1, <1>5, <1>6, <1>7 DEF names, written

(* The text of a member: its name, a colon, the text of what it holds.     *)
LEMMA MemberTextIs ==
    ASSUME NEW name \in DOMAIN KeyRank, NEW text \in [Json -> Texts], NEW v,
           Held(v, name) \in Json
    PROVE  /\ MemberText(text, v, name)
                 = Cat(<<Atom(name), Mark(":")>>, text[Held(v, name)])
           /\ MemberText(text, v, name) \in Texts
           /\ <<Atom(name), Mark(":")>> \in Texts
<1>1. Atom(name) \in Tokens /\ Mark(":") \in Tokens
  BY DEF Tokens, Marks
<1>2. <<Atom(name), Mark(":")>> \in Texts
  BY <1>1 DEF Texts
<1>3. MemberText(text, v, name)
         = Cat(<<Atom(name), Mark(":")>>, text[Held(v, name)])
  BY DEF MemberText, Cat
<1>4. QED
  BY <1>2, <1>3, TextsClosed

(* They are texts if those of the parts are,                               *)
LEMMA PartTexts ==
    ASSUME NEW text \in [Json -> Texts], NEW v \in Json, NEW language
    PROVE  /\ v.kind = "array" =>
                 /\ ItemTexts(text, v) \in Seq(Texts)
                 /\ Len(ItemTexts(text, v)) = Len(v.items)
           /\ v.kind = "object" =>
                 /\ MemberTexts(text, v, language) \in Seq(Texts)
                 /\ Len(MemberTexts(text, v, language))
                       = Len(WrittenNames(v, language))
<1>1. ASSUME v.kind = "array"
      PROVE  /\ ItemTexts(text, v) \in Seq(Texts)
             /\ Len(ItemTexts(text, v)) = Len(v.items)
  <2>1. /\ DOMAIN v.items = 1 .. Len(v.items) /\ Len(v.items) \in Nat
        /\ \A i \in DOMAIN v.items : v.items[i] \in Json
    BY <1>1, ArrayIs, LenProperties
  <2>2. ItemTexts(text, v) \in [1 .. Len(v.items) -> Texts]
    BY <2>1 DEF ItemTexts
  <2>3. QED
    BY <2>1, <2>2
<1>2. ASSUME v.kind = "object"
      PROVE  /\ MemberTexts(text, v, language) \in Seq(Texts)
             /\ Len(MemberTexts(text, v, language))
                   = Len(WrittenNames(v, language))
  <2> DEFINE names == WrittenNames(v, language)
  <2>1. /\ DOMAIN names = 1 .. Len(names) /\ Len(names) \in Nat
        /\ \A i \in DOMAIN names :
              names[i] \in DOMAIN KeyRank /\ Held(v, names[i]) \in Json
    BY <1>2, WrittenNamesAre
  <2>2. MemberTexts(text, v, language)
           = [i \in DOMAIN names |-> MemberText(text, v, names[i])]
    BY DEF MemberTexts
  <2> HIDE DEF names
  <2>3. \A i \in DOMAIN names : MemberText(text, v, names[i]) \in Texts
    BY <2>1, MemberTextIs
  <2>4. MemberTexts(text, v, language) \in [1 .. Len(names) -> Texts]
    BY <2>1, <2>2, <2>3
  <2>5. QED
    BY <2>1, <2>4 DEF names
<1>3. QED
  BY <1>1, <1>2

(* The text of a value whose parts have texts is a text.                   *)
LEMMA TextOfIsText ==
    ASSUME NEW text \in [Json -> Texts], NEW v \in Json, NEW language
    PROVE  TextOf(text, v, language) \in Texts
<1>1. "[" \in Marks /\ "{" \in Marks /\ "]" \in Closing /\ "}" \in Closing
  BY DEF Marks, Closing
<1>2. CASE v.kind = "array"
  <2>1. ItemTexts(text, v) \in Seq(Texts)
    BY <1>2, PartTexts
  <2>2. TextOf(text, v, language) = Enclosed("[", ItemTexts(text, v), "]")
    BY <1>2 DEF TextOf
  <2>3. QED
    BY <1>1, <2>1, <2>2, EnclosedIsText
<1>3. CASE v.kind = "object"
  <2>1. MemberTexts(text, v, language) \in Seq(Texts)
    BY <1>3, PartTexts
  <2>2. TextOf(text, v, language) = Enclosed("{", MemberTexts(text, v, language), "}")
    BY <1>3 DEF TextOf
  <2>3. QED
    BY <1>1, <2>1, <2>2, EnclosedIsText
<1>4. CASE v.kind \notin {"array", "object"}
  <2>1. TextOf(text, v, language) = <<v>>
    BY <1>4 DEF TextOf
  <2>2. v \in Tokens
    BY DEF Tokens
  <2>3. QED
    BY <2>1, <2>2 DEF Texts
<1>5. QED
  BY <1>2, <1>3, <1>4

(* and depend on those of the parts alone.                                 *)
LEMMA TextOfLooksBelow ==
    ASSUME NEW text, NEW other, NEW v \in Json, NEW language,
           \A part \in Json : Nesting[part] < Nesting[v] => text[part] = other[part]
    PROVE  TextOf(text, v, language) = TextOf(other, v, language)
<1>1. CASE v.kind = "array"
  <2>1. \A i \in DOMAIN v.items : text[v.items[i]] = other[v.items[i]]
    BY <1>1, ArrayIs
  <2>2. ItemTexts(text, v) = ItemTexts(other, v)
    BY <2>1 DEF ItemTexts
  <2>3. QED
    BY <1>1, <2>2 DEF TextOf
<1>2. CASE v.kind = "object"
  <2> DEFINE names == WrittenNames(v, language)
  <2>1. \A i \in DOMAIN names : text[Held(v, names[i])] = other[Held(v, names[i])]
    BY <1>2, WrittenNamesAre
  <2>2. \A i \in DOMAIN names :
            MemberText(text, v, names[i]) = MemberText(other, v, names[i])
    BY <2>1 DEF MemberText
  <2>3. MemberTexts(text, v, language) = MemberTexts(other, v, language)
    BY <2>2 DEF MemberTexts
  <2>4. QED
    BY <1>2, <2>3 DEF TextOf
<1>3. CASE v.kind \notin {"array", "object"}
  BY <1>3 DEF TextOf
<1>4. QED
  BY <1>1, <1>2, <1>3

(* So every value has a text.                                              *)
LEMMA TextWritten ==
    ASSUME NEW language
    PROVE  /\ Text(language) \in [Json -> Texts]
           /\ \A v \in Json : Text(language)[v] = TextOf(Text(language), v, language)
<1> DEFINE G == [f \in [Json -> Texts] |-> [v \in Json |-> TextOf(f, v, language)]]
           base == [v \in Json |-> <<>>]
           text == Text(language)
<1>1. /\ G \in [[Json -> Texts] -> [Json -> Texts]]
      /\ base \in [Json -> Texts] /\ Nesting \in [Json -> Nat]
  BY TextOfIsText, TextsEmpty, JsonAssumption
<1>2. LooksBelow(G, Json, Texts, Nesting)
  BY TextOfLooksBelow DEF LooksBelow
<1>3. PICK f \in [Json -> Texts] : f = G[f]
  <2> HIDE DEF G, base
  <2>1. IsRecursion(G, Json, Texts, Nesting, base)
    BY <1>1, <1>2 DEF IsRecursion
  <2>2. QED
    BY <2>1, RecursionExists
<1>4. f = [v \in Json |-> TextOf(f, v, language)]
  BY <1>3
<1>5. text = [v \in Json |-> TextOf(text, v, language)]
  BY <1>4 DEF Text, TextOf, ItemTexts, MemberTexts, MemberText, WrittenNames
<1> HIDE DEF text
<1>6. AgreeAlong(text, f, Json, Nesting)
  <2>1. ASSUME NEW v \in Json,
               \A part \in Json : Nesting[part] < Nesting[v] => text[part] = f[part]
        PROVE  text[v] = f[v]
    <3>1. TextOf(text, v, language) = TextOf(f, v, language)
      BY <2>1, TextOfLooksBelow
    <3>2. text[v] = TextOf(text, v, language)
      BY <1>5
    <3>3. f[v] = TextOf(f, v, language)
      BY <1>4
    <3>4. QED
      BY <3>1, <3>2, <3>3
  <2>2. text = [v \in Json |-> text[v]] /\ f = [v \in Json |-> f[v]]
    BY <1>5
  <2>3. QED
    BY <1>1, <2>1, <2>2 DEF AgreeAlong
<1>7. text = f
  BY <1>6, RecursionUnique
<1>8. QED
  BY <1>4, <1>7 DEF text

(* What Alike says of two values, of those that are like their parts.      *)
AlikeOf(alike, v) ==
    {w \in Json :
        /\ w.kind = v.kind
        /\ CASE v.kind = "array" ->
                  /\ DOMAIN w.items = DOMAIN v.items
                  /\ \A i \in DOMAIN v.items : w.items[i] \in alike[v.items[i]]
             [] v.kind = "object" ->
                  /\ Written(MemberNames(w), "js") = Written(MemberNames(v), "js")
                  /\ \A name \in Written(MemberNames(v), "js") :
                        Held(w, name) \in alike[Held(v, name)]
             [] OTHER -> w = v}

(* What is alike depends on what is alike among the parts.                 *)
LEMMA AlikeOfLooksBelow ==
    ASSUME NEW alike, NEW other, NEW v \in Json,
           \A part \in Json : Nesting[part] < Nesting[v] => alike[part] = other[part]
    PROVE  AlikeOf(alike, v) = AlikeOf(other, v)
<1>1. CASE v.kind = "array"
  <2>1. \A i \in DOMAIN v.items : alike[v.items[i]] = other[v.items[i]]
    BY <1>1, ArrayIs
  <2>2. QED
    BY <1>1, <2>1 DEF AlikeOf
<1>2. CASE v.kind = "object"
  <2>1. \A name \in Written(MemberNames(v), "js") :
            alike[Held(v, name)] = other[Held(v, name)]
    BY <1>2, ObjectIs DEF Written
  <2>2. QED
    BY <1>2, <2>1 DEF AlikeOf
<1>3. CASE v.kind \notin {"array", "object"}
  BY <1>3 DEF AlikeOf
<1>4. QED
  BY <1>1, <1>2, <1>3

(* So Alike is what its definition says.                                   *)
LEMMA AlikeWritten == \A v \in Json : Alike[v] = AlikeOf(Alike, v)
<1> DEFINE R == SUBSET Json
           G == [f \in [Json -> R] |-> [v \in Json |-> AlikeOf(f, v)]]
           base == [v \in Json |-> {}]
<1>1. /\ G \in [[Json -> R] -> [Json -> R]]
      /\ base \in [Json -> R] /\ Nesting \in [Json -> Nat]
  <2>1. \A f, v : AlikeOf(f, v) \in R
    BY DEF AlikeOf
  <2>2. QED
    BY <2>1, JsonAssumption
<1>2. LooksBelow(G, Json, R, Nesting)
  BY AlikeOfLooksBelow DEF LooksBelow
<1>3. PICK f \in [Json -> R] : f = G[f]
  <2> HIDE DEF G, base, R
  <2>1. IsRecursion(G, Json, R, Nesting, base)
    BY <1>1, <1>2 DEF IsRecursion
  <2>2. QED
    BY <2>1, RecursionExists
<1>4. f = [v \in Json |-> AlikeOf(f, v)]
  BY <1>3
<1>5. Alike = [v \in Json |-> AlikeOf(Alike, v)]
  BY ZenonT(30), <1>4 DEF Alike, AlikeOf
<1>6. QED
  BY <1>5

(* The first token of a value's text.                                      *)
Token(v) ==
    CASE v.kind = "array" -> Mark("[")
      [] v.kind = "object" -> Mark("{")
      [] OTHER -> v

(* What the library writes of a value.                                     *)
LEMMA TextBegins ==
    ASSUME NEW v \in Json
    PROVE  /\ Text("js")[v] \in Texts
           /\ v.kind = "array" =>
                 Text("js")[v] = Enclosed("[", ItemTexts(Text("js"), v), "]")
           /\ v.kind = "object" =>
                 Text("js")[v] = Enclosed("{", MemberTexts(Text("js"), v, "js"), "}")
           /\ \E rest \in Texts :
                 Text("js")[v] = Cat(<<Token(v)>>, rest)
<1> DEFINE text == Text("js")
<1>1. text \in [Json -> Texts] /\ text[v] = TextOf(text, v, "js") /\ text[v] \in Texts
  BY TextWritten
<1> HIDE DEF text
<1>2. "[" \in Marks /\ "{" \in Marks /\ "]" \in Closing /\ "}" \in Closing
  BY DEF Marks, Closing
<1>3. CASE v.kind = "array"
  <2>1. text[v] = Enclosed("[", ItemTexts(text, v), "]")
        /\ ItemTexts(text, v) \in Seq(Texts)
    BY <1>1, <1>3, PartTexts DEF TextOf
  <2>2. \E rest \in Texts : text[v] = Cat(<<Mark("[")>>, rest)
    BY <1>2, <2>1, EnclosedIsText
  <2>3. QED
    BY <1>1, <1>3, <2>1, <2>2 DEF text, Token
<1>4. CASE v.kind = "object"
  <2>1. text[v] = Enclosed("{", MemberTexts(text, v, "js"), "}")
        /\ MemberTexts(text, v, "js") \in Seq(Texts)
    BY <1>1, <1>4, PartTexts DEF TextOf
  <2>2. \E rest \in Texts : text[v] = Cat(<<Mark("{")>>, rest)
    BY <1>2, <2>1, EnclosedIsText
  <2>3. QED
    BY <1>1, <1>4, <2>1, <2>2 DEF text, Token
<1>5. CASE v.kind \notin {"array", "object"}
  <2>1. text[v] = <<v>>
    BY <1>1, <1>5 DEF TextOf
  <2>2. <<v>> \in Texts
    BY DEF Texts, Tokens
  <2>3. text[v] = Cat(<<v>>, <<>>) /\ <<>> \in Texts
    BY <2>1, <2>2, TextsEmpty
  <2>4. QED
    BY <1>1, <1>5, <2>3 DEF text, Token
<1>6. QED
  BY <1>3, <1>4, <1>5

(* Values of which one begins as the other are both arrays, or both        *)
(* objects, or one without parts.                                          *)
LEMMA TokenTells ==
    ASSUME NEW v \in Json, NEW w \in Json
    PROVE  /\ Token(v) \in Tokens
           /\ \A m \in Marks : Token(v) = Mark(m) => m \in {"[", "{"}
           /\ Token(v) = Token(w) =>
                 \/ v.kind = w.kind /\ v.kind \in {"array", "object"}
                 \/ v = w /\ v.kind \notin {"array", "object"}
<1>1. Mark("[") \in Tokens /\ Mark("{") \in Tokens /\ v \in Tokens
  BY DEF Tokens, Marks
<1>2. Mark("[") # Mark("{")
  BY DEF Mark
<1>3. Token(v) \in Tokens
  BY <1>1 DEF Token
<1>4. ASSUME NEW m \in Marks, Token(v) = Mark(m)
      PROVE  m \in {"[", "{"}
  <2>1. \A k \in Marks : Mark(k) = Mark(m) => k = m
    BY DEF Mark
  <2>2. v.kind \in {"array", "object"}
    BY <1>4, LeafIs DEF Token
  <2>3. QED
    BY <1>4, <2>1, <2>2 DEF Token, Marks
<1>5. ASSUME Token(v) = Token(w)
      PROVE  \/ v.kind = w.kind /\ v.kind \in {"array", "object"}
             \/ v = w /\ v.kind \notin {"array", "object"}
  <2>1. ASSUME v.kind \notin {"array", "object"}
        PROVE  v = w
    <3>1. Token(v) = v /\ v # Mark("[") /\ v # Mark("{")
      BY <2>1, LeafIs DEF Token
    <3>2. QED
      BY <1>5, <3>1 DEF Token
  <2>2. ASSUME w.kind \notin {"array", "object"}
        PROVE  v = w
    <3>1. Token(w) = w /\ w # Mark("[") /\ w # Mark("{")
      BY <2>2, LeafIs DEF Token
    <3>2. QED
      BY <1>5, <3>1 DEF Token
  <2>3. CASE v.kind \in {"array", "object"} /\ w.kind \in {"array", "object"}
    <3>1. Token(v) = IF v.kind = "array" THEN Mark("[") ELSE Mark("{")
      BY <2>3 DEF Token
    <3>2. Token(w) = IF w.kind = "array" THEN Mark("[") ELSE Mark("{")
      BY <2>3 DEF Token
    <3>3. CASE v.kind = "array" /\ w.kind # "array"
      BY <1>2, <1>5, <3>1, <3>2, <3>3
    <3>4. CASE v.kind # "array" /\ w.kind = "array"
      BY <1>2, <1>5, <3>1, <3>2, <3>4
    <3>5. CASE v.kind = w.kind
      BY <2>3, <3>5
    <3>6. QED
      BY <2>3, <3>3, <3>4, <3>5
  <2>4. QED
    BY <2>1, <2>2, <2>3
<1>6. QED
  BY <1>3, <1>4, <1>5

(* A canonical text can stand in brackets.                                 *)
LEMMA TextIsInner ==
    ASSUME NEW v \in Json
    PROVE  Inner(Text("js")[v])
<1> DEFINE t == Text("js")[v]
<1>1. t \in Texts /\ \E rest \in Texts : t = Cat(<<Token(v)>>, rest)
  BY TextBegins
<1> HIDE DEF t
<1>2. PICK rest \in Texts : t = Cat(<<Token(v)>>, rest)
  BY <1>1
<1>3. Token(v) \in Tokens /\ Token(v) \notin {Mark(m) : m \in Closing}
  BY TokenTells DEF Closing, Marks
<1>4. t # <<>> /\ t[1] = Token(v)
  <2>1. <<Token(v)>> \in Seq(Tokens) /\ Len(<<Token(v)>>) = 1
    BY <1>3
  <2>2. rest \in Seq(Tokens) /\ Len(rest) \in Nat
    BY LenProperties DEF Texts
  <2>3. t = <<Token(v)>> \o rest
    BY <1>2 DEF Cat
  <2>4. Len(t) = 1 + Len(rest) /\ t[1] = <<Token(v)>>[1]
    BY <2>1, <2>2, <2>3, ConcatProperties
  <2>5. t # <<>>
    BY <2>2, <2>4
  <2>6. QED
    BY <2>4, <2>5
<1>5. QED
  BY <1>1, <1>3, <1>4 DEF Inner, t

(* A member is told by its name and its value.                             *)
LEMMA NameTells ==
    ASSUME NEW k \in DOMAIN KeyRank, NEW l \in DOMAIN KeyRank,
           NEW x \in Texts, NEW y \in Texts,
           Cat(<<Atom(k), Mark(":")>>, x) = Cat(<<Atom(l), Mark(":")>>, y)
    PROVE  k = l /\ x = y
<1>1. /\ Atom(k) \in Tokens /\ Atom(l) \in Tokens /\ Mark(":") \in Tokens
  BY DEF Tokens, Marks
<1>2. /\ <<Atom(k)>> \in Texts /\ <<Atom(l)>> \in Texts /\ <<Mark(":")>> \in Texts
  BY <1>1 DEF Texts
<1>3. ASSUME NEW name, Atom(name) \in Tokens
      PROVE  <<Atom(name), Mark(":")>> = Cat(<<Atom(name)>>, <<Mark(":")>>)
  BY DEF Cat
<1>4. Cat(<<Mark(":")>>, x) \in Texts /\ Cat(<<Mark(":")>>, y) \in Texts
  BY <1>2, TextsClosed
<1>5. /\ Cat(Cat(<<Atom(k)>>, <<Mark(":")>>), x) = Cat(<<Atom(k)>>, Cat(<<Mark(":")>>, x))
      /\ Cat(Cat(<<Atom(l)>>, <<Mark(":")>>), y) = Cat(<<Atom(l)>>, Cat(<<Mark(":")>>, y))
  BY <1>2, TextsAssociate
<1>6. Cat(<<Atom(k)>>, Cat(<<Mark(":")>>, x)) = Cat(<<Atom(l)>>, Cat(<<Mark(":")>>, y))
  BY <1>1, <1>3, <1>5
<1>7. Atom(k) = Atom(l) /\ Cat(<<Mark(":")>>, x) = Cat(<<Mark(":")>>, y)
  <2>1. PICK p \in Texts, q \in Texts :
            p = Cat(<<Mark(":")>>, x) /\ q = Cat(<<Mark(":")>>, y)
    BY <1>4
  <2>2. Cat(<<Atom(k)>>, p) = Cat(<<Atom(l)>>, q)
    BY <1>6, <2>1
  <2>3. Atom(k) = Atom(l) /\ p = q
    BY <1>1, <2>2, FirstTells
  <2>4. QED
    BY <2>1, <2>3
<1>8. x = y
  BY <1>2, <1>7, BeforeCancels
<1>9. k = l
  BY <1>7 DEF Atom
<1>10. QED
  BY <1>8, <1>9

(* The text of one value tells it from another, and where it ends.         *)
TextTells(v, w) ==
    /\ Separate(Text("js")[v], Text("js")[w])
    /\ Text("js")[v] = Text("js")[w] <=> SameValue(v, w)

(* The texts of two arrays tell them if those of the items do.             *)
LEMMA ArrayTells ==
    ASSUME NEW v \in Json, NEW w \in Json, v.kind = "array", w.kind = "array",
           \A part, other \in Json :
              Nesting[part] < Nesting[v] => TextTells(part, other)
    PROVE  TextTells(v, w)
<1> DEFINE text == Text("js")
           A == ItemTexts(text, v)
           B == ItemTexts(text, w)
           m == Len(v.items)
           n == Len(w.items)
<1>1. /\ text \in [Json -> Texts]
      /\ text[v] = Enclosed("[", A, "]") /\ text[w] = Enclosed("[", B, "]")
      /\ \A x \in Json : text[x] \in Texts /\ Inner(text[x])
      /\ "[" \in Marks /\ "]" \in Closing
  BY TextWritten, TextBegins, TextIsInner DEF Marks, Closing
<1>2. /\ DOMAIN v.items = 1 .. m /\ DOMAIN w.items = 1 .. n
      /\ m \in Nat /\ n \in Nat
      /\ \A i \in 1 .. m : v.items[i] \in Json /\ Nesting[v.items[i]] < Nesting[v]
      /\ \A i \in 1 .. n : w.items[i] \in Json
  BY ArrayIs, LenProperties
<1>3. /\ A \in Seq(Texts) /\ B \in Seq(Texts) /\ Len(A) = m /\ Len(B) = n
  BY <1>1, PartTexts
<1>4. /\ A = [i \in 1 .. m |-> text[v.items[i]]]
      /\ B = [i \in 1 .. n |-> text[w.items[i]]]
  BY <1>2 DEF ItemTexts
<1> HIDE DEF text, A, B, m, n
<1>5. /\ \A i \in 1 .. m : A[i] = text[v.items[i]] /\ Inner(A[i])
      /\ \A i \in 1 .. n : B[i] = text[w.items[i]] /\ Inner(B[i])
  BY <1>1, <1>2, <1>4
<1>6. ASSUME NEW i \in (1 .. m) \cap (1 .. n)
      PROVE  /\ Separate(A[i], B[i])
             /\ A[i] = B[i] <=> SameValue(v.items[i], w.items[i])
  <2>1. TextTells(v.items[i], w.items[i])
    BY <1>2
  <2>2. QED
    BY <1>5, <2>1 DEF TextTells, text
<1>7. ASSUME NEW r \in Texts, NEW s \in Texts, Cat(text[v], r) = Cat(text[w], s)
      PROVE  A = B /\ r = s
  <2>1. InnerTexts(A) /\ InnerTexts(B) /\ EachSeparate(A, B)
    BY <1>3, <1>5, <1>6 DEF InnerTexts, EachSeparate
  <2>2. Cat(Enclosed("[", A, "]"), r) = Cat(Enclosed("[", B, "]"), s)
    BY <1>1, <1>7
  <2>3. QED
    BY <1>1, <2>1, <2>2, EnclosedTells
<1>8. Separate(text[v], text[w])
  <2>1. ASSUME NEW r \in Texts, NEW s \in Texts, Cat(text[v], r) = Cat(text[w], s)
        PROVE  text[v] = text[w] /\ r = s
    BY <1>1, <1>7, <2>1
  <2>2. QED
    BY <2>1 DEF Separate
<1>9. text[v] = text[w] <=> A = B
  <2>1. ASSUME text[v] = text[w]
        PROVE  A = B
    <3>1. <<>> \in Texts /\ Cat(text[v], <<>>) = Cat(text[w], <<>>)
      BY <2>1, TextsEmpty
    <3>2. QED
      BY <1>7, <3>1
  <2>2. QED
    BY <1>1, <2>1
<1>10. A = B <=> m = n /\ \A i \in 1 .. m : SameValue(v.items[i], w.items[i])
  <2>1. ASSUME A = B
        PROVE  m = n /\ \A i \in 1 .. m : SameValue(v.items[i], w.items[i])
    BY <1>3, <1>6, <2>1
  <2>2. ASSUME m = n, \A i \in 1 .. m : SameValue(v.items[i], w.items[i])
        PROVE  A = B
    <3>1. \A i \in 1 .. m : A[i] = B[i]
      BY <1>6, <2>2
    <3>2. QED
      BY <1>4, <1>5, <2>2, <3>1
  <2>3. QED
    BY <2>1, <2>2
<1>11. SameValue(v, w)
          <=> m = n /\ \A i \in 1 .. m : SameValue(v.items[i], w.items[i])
  <2>1. SameValue(v, w) <=> /\ 1 .. n = 1 .. m
                            /\ \A i \in 1 .. m : w.items[i] \in Alike[v.items[i]]
    <3>1. Alike[v] = AlikeOf(Alike, v)
      BY AlikeWritten
    <3>2. QED
      BY <1>2, <3>1 DEF SameValue, AlikeOf
  <2>2. 1 .. n = 1 .. m <=> m = n
    BY <1>2
  <2>3. QED
    BY <2>1, <2>2 DEF SameValue
<1>12. QED
  BY <1>8, <1>9, <1>10, <1>11 DEF TextTells, text

(* The texts of two objects tell what is written of them if those of the   *)
(* values in them do.                                                      *)
LEMMA ObjectTells ==
    ASSUME NEW v \in Json, NEW w \in Json, v.kind = "object", w.kind = "object",
           \A part, other \in Json :
              Nesting[part] < Nesting[v] => TextTells(part, other)
    PROVE  TextTells(v, w)
<1> DEFINE text == Text("js")
           A == MemberTexts(text, v, "js")
           B == MemberTexts(text, w, "js")
           k == WrittenNames(v, "js")
           l == WrittenNames(w, "js")
           m == Len(k)
           n == Len(l)
           K == Written(MemberNames(v), "js")
           L == Written(MemberNames(w), "js")
<1>1. /\ text \in [Json -> Texts]
      /\ text[v] = Enclosed("{", A, "}") /\ text[w] = Enclosed("{", B, "}")
      /\ \A x \in Json : text[x] \in Texts
      /\ "{" \in Marks /\ "}" \in Closing
  BY TextWritten, TextBegins DEF Marks, Closing
<1>2. /\ DOMAIN k = 1 .. m /\ DOMAIN l = 1 .. n /\ m \in Nat /\ n \in Nat
      /\ K = {k[i] : i \in 1 .. m} /\ L = {l[i] : i \in 1 .. n}
      /\ \A i \in 1 .. m : /\ k[i] \in DOMAIN KeyRank
                           /\ Held(v, k[i]) \in Json
                           /\ Nesting[Held(v, k[i])] < Nesting[v]
      /\ \A i \in 1 .. n : l[i] \in DOMAIN KeyRank /\ Held(w, l[i]) \in Json
  BY WrittenNamesAre
<1>3. /\ A \in Seq(Texts) /\ B \in Seq(Texts) /\ Len(A) = m /\ Len(B) = n
  BY <1>1, PartTexts
<1>4. /\ A = [i \in 1 .. m |-> MemberText(text, v, k[i])]
      /\ B = [i \in 1 .. n |-> MemberText(text, w, l[i])]
  BY <1>2 DEF MemberTexts
<1>5. K = L => k = l
  BY DEF WrittenNames
<1>6. k = l => m = n
  OBVIOUS
<1> HIDE DEF text, A, B, k, l, m, n, K, L
<1>7. ASSUME NEW x, NEW name \in DOMAIN KeyRank, Held(x, name) \in Json
      PROVE  /\ Inner(MemberText(text, x, name))
             /\ MemberText(text, x, name)
                   = Cat(<<Atom(name), Mark(":")>>, text[Held(x, name)])
             /\ <<Atom(name), Mark(":")>> \in Texts
             /\ text[Held(x, name)] \in Texts
  <2> DEFINE t == MemberText(text, x, name)
  <2>1. /\ t \in Texts /\ text[Held(x, name)] \in Texts
        /\ <<Atom(name), Mark(":")>> \in Texts
        /\ t = Cat(<<Atom(name), Mark(":")>>, text[Held(x, name)])
    BY <1>1, <1>7, MemberTextIs
  <2>2. t # <<>> /\ t[1] = Atom(name)
    <3>1. /\ <<Atom(name), Mark(":")>> \in Seq(Tokens)
          /\ Len(<<Atom(name), Mark(":")>>) = 2
      BY <2>1 DEF Texts
    <3>2. PICK u \in Seq(Tokens) : u = text[Held(x, name)]
      BY <2>1 DEF Texts
    <3>3. t = <<Atom(name), Mark(":")>> \o u /\ Len(u) \in Nat
      BY <2>1, <3>2, LenProperties DEF Cat
    <3> HIDE DEF t
    <3>4. Len(t) = 2 + Len(u) /\ t[1] = <<Atom(name), Mark(":")>>[1]
      BY <3>1, <3>3, ConcatProperties
    <3>5. t # <<>>
      BY <3>3, <3>4
    <3>6. QED
      BY <3>4, <3>5
  <2>3. \A c : Atom(name) # Mark(c)
    BY DEF Atom, Mark
  <2> HIDE DEF t
  <2>4. Inner(t)
    BY <2>1, <2>2, <2>3 DEF Inner
  <2>5. QED
    BY <2>1, <2>4 DEF t
<1>8. /\ \A i \in 1 .. m : A[i] = MemberText(text, v, k[i]) /\ Inner(A[i])
      /\ \A i \in 1 .. n : B[i] = MemberText(text, w, l[i]) /\ Inner(B[i])
  BY <1>2, <1>4, <1>7
<1>9. ASSUME NEW i \in (1 .. m) \cap (1 .. n)
      PROVE  /\ Separate(A[i], B[i])
             /\ A[i] = B[i] <=> k[i] = l[i] /\ SameValue(Held(v, k[i]), Held(w, l[i]))
  <2> DEFINE x == text[Held(v, k[i])]
             y == text[Held(w, l[i])]
             a == <<Atom(k[i]), Mark(":")>>
             b == <<Atom(l[i]), Mark(":")>>
  <2>1. TextTells(Held(v, k[i]), Held(w, l[i]))
    BY <1>2
  <2>2. /\ A[i] = Cat(a, x) /\ B[i] = Cat(b, y) /\ k[i] \in DOMAIN KeyRank
        /\ a \in Texts /\ b \in Texts /\ x \in Texts /\ y \in Texts
        /\ l[i] \in DOMAIN KeyRank
    BY <1>2, <1>7, <1>8
  <2>3. Separate(x, y) /\ (x = y <=> SameValue(Held(v, k[i]), Held(w, l[i])))
    BY <2>1 DEF TextTells, text
  <2>4. \A p, q \in Texts : Cat(a, p) = Cat(b, q) => k[i] = l[i] /\ p = q
    BY <2>2, NameTells
  <2>5. k[i] = l[i] => a = b
    OBVIOUS
  <2> HIDE DEF x, y, a, b
  <2>6. ASSUME NEW r \in Texts, NEW s \in Texts, Cat(A[i], r) = Cat(B[i], s)
        PROVE  A[i] = B[i] /\ r = s
    <3>1. Cat(x, r) \in Texts /\ Cat(y, s) \in Texts
      BY <2>2, TextsClosed
    <3>2. /\ Cat(Cat(a, x), r) = Cat(a, Cat(x, r))
          /\ Cat(Cat(b, y), s) = Cat(b, Cat(y, s))
      BY <2>2, TextsAssociate
    <3>3. k[i] = l[i] /\ Cat(x, r) = Cat(y, s)
      BY <2>2, <2>4, <2>6, <3>1, <3>2
    <3>4. x = y /\ r = s
      BY <2>2, <2>3, <3>3 DEF Separate
    <3>5. QED
      BY <2>2, <2>5, <3>3, <3>4
  <2>7. A[i] = B[i] <=> k[i] = l[i] /\ x = y
    BY <2>2, <2>4, <2>5
  <2>8. QED
    BY <2>3, <2>6, <2>7 DEF Separate
<1>10. ASSUME NEW r \in Texts, NEW s \in Texts, Cat(text[v], r) = Cat(text[w], s)
       PROVE  A = B /\ r = s
  <2>1. InnerTexts(A) /\ InnerTexts(B) /\ EachSeparate(A, B)
    BY <1>3, <1>8, <1>9 DEF InnerTexts, EachSeparate
  <2>2. PICK open \in Marks, close \in Closing : open = "{" /\ close = "}"
    BY <1>1
  <2>3. Cat(Enclosed(open, A, close), r) = Cat(Enclosed(open, B, close), s)
    BY <1>1, <1>10, <2>2
  <2>4. QED
    BY <2>1, <2>3, EnclosedTells
<1>11. Separate(text[v], text[w])
  <2>1. ASSUME NEW r \in Texts, NEW s \in Texts, Cat(text[v], r) = Cat(text[w], s)
        PROVE  text[v] = text[w] /\ r = s
    BY <1>1, <1>10, <2>1
  <2>2. QED
    BY <2>1 DEF Separate
<1>12. text[v] = text[w] <=> A = B
  <2>1. ASSUME text[v] = text[w]
        PROVE  A = B
    <3>1. <<>> \in Texts /\ Cat(text[v], <<>>) = Cat(text[w], <<>>)
      BY <2>1, TextsEmpty
    <3>2. QED
      BY <1>10, <3>1
  <2>2. QED
    BY <1>1, <2>1
<1>13. A = B <=> K = L /\ \A name \in K : SameValue(Held(v, name), Held(w, name))
  <2>1. ASSUME A = B
        PROVE  K = L /\ \A name \in K : SameValue(Held(v, name), Held(w, name))
    <3>1. m = n
      BY <1>3, <2>1
    <3>2. \A i \in 1 .. m : k[i] = l[i] /\ SameValue(Held(v, k[i]), Held(w, l[i]))
      BY <1>9, <2>1, <3>1
    <3>3. QED
      BY <1>2, <3>1, <3>2
  <2>2. ASSUME K = L, \A name \in K : SameValue(Held(v, name), Held(w, name))
        PROVE  A = B
    <3>1. k = l /\ m = n
      BY <1>5, <1>6, <2>2
    <3>2. ASSUME NEW i \in 1 .. m
          PROVE  A[i] = B[i]
      <4>1. k[i] \in K /\ k[i] = l[i]
        BY <1>2, <3>1
      <4>2. SameValue(Held(v, k[i]), Held(w, l[i]))
        BY <2>2, <4>1
      <4>3. QED
        BY <1>9, <3>1, <4>1, <4>2
    <3>3. A = [i \in 1 .. m |-> A[i]] /\ B = [i \in 1 .. n |-> B[i]]
      BY <1>4
    <3>4. QED
      BY <3>1, <3>2, <3>3
  <2>3. QED
    BY <2>1, <2>2
<1>14. SameValue(v, w)
          <=> K = L /\ \A name \in K : SameValue(Held(v, name), Held(w, name))
  <2>1. Alike[v] = AlikeOf(Alike, v)
    BY AlikeWritten
  <2>2. QED
    BY <2>1 DEF SameValue, AlikeOf, K, L
<1>15. QED
  BY <1>11, <1>12, <1>13, <1>14 DEF TextTells, text

(* The canonical texts of two values are one exactly if they are the same  *)
(* JSON value but for members named __proto__.                             *)
LEMMA TextsTell == \A v, w \in Json : TextTells(v, w)
<1> DEFINE text == Text("js")
           Bad == {Nesting[v] : v \in {x \in Json : \E w \in Json : ~TextTells(x, w)}}
<1>1. SUFFICES ASSUME Bad # {} PROVE FALSE
  OBVIOUS
<1>2. PICK n \in Bad : \A m \in Bad : n <= m
  <2>1. Bad \subseteq Nat
    BY JsonAssumption
  <2> HIDE DEF Bad
  <2>2. QED
    BY <1>1, <2>1, LeastNatural
<1>3. PICK v \in Json : Nesting[v] = n /\ \E w \in Json : ~TextTells(v, w)
  BY <1>2
<1>4. PICK w \in Json : ~TextTells(v, w)
  BY <1>3
<1>5. ASSUME NEW part \in Json, NEW other \in Json, Nesting[part] < Nesting[v]
      PROVE  TextTells(part, other)
  <2>1. ~(n <= Nesting[part])
    <3>1. Nesting[part] \in Nat /\ Nesting[v] \in Nat
      BY JsonAssumption
    <3>2. QED
      BY <1>3, <1>5, <3>1
  <2>2. Nesting[part] \notin Bad
    <3> HIDE DEF Bad
    <3>1. QED
      BY <1>2, <2>1
  <2>3. QED
    BY <2>2
<1>6. PICK p \in Texts, q \in Texts :
          text[v] = Cat(<<Token(v)>>, p) /\ text[w] = Cat(<<Token(w)>>, q)
  BY TextBegins
<1>7. Token(v) \in Tokens /\ Token(w) \in Tokens
      /\ <<Token(v)>> \in Texts /\ <<Token(w)>> \in Texts
  <2>1. Token(v) \in Tokens /\ Token(w) \in Tokens
    BY TokenTells
  <2>2. QED
    BY <2>1 DEF Texts
<1>8. CASE v.kind = w.kind /\ v.kind \in {"array", "object"}
  BY <1>4, <1>5, <1>8, ArrayTells, ObjectTells
<1>9. CASE v = w /\ v.kind \notin {"array", "object"}
  <2>1. Separate(text[v], text[v])
    <3>1. text[v] \in Texts
      BY TextBegins
    <3>2. QED
      BY <3>1, BeforeCancels DEF Separate
  <2>2. SameValue(v, v)
    <3>1. Alike[v] = AlikeOf(Alike, v)
      BY AlikeWritten
    <3>2. QED
      BY <1>9, <3>1 DEF SameValue, AlikeOf
  <2>3. QED
    BY <1>4, <1>9, <2>1, <2>2 DEF TextTells, text
<1>10. CASE Token(v) # Token(w)
  <2>1. ASSUME NEW r \in Texts, NEW s \in Texts
        PROVE  Cat(text[v], r) # Cat(text[w], s)
    <3>1. PICK x \in Texts, y \in Texts : x = Cat(p, r) /\ y = Cat(q, s)
      BY <1>6, TextsClosed
    <3>2. /\ Cat(text[v], r) = Cat(<<Token(v)>>, x)
          /\ Cat(text[w], s) = Cat(<<Token(w)>>, y)
      BY <1>6, <1>7, <3>1, TextsAssociate
    <3>3. Cat(<<Token(v)>>, x) # Cat(<<Token(w)>>, y)
      BY <1>7, <1>10, <3>1, FirstTells
    <3>4. QED
      BY <3>2, <3>3
  <2>2. Separate(text[v], text[w])
    BY <2>1 DEF Separate
  <2>3. text[v] # text[w]
    BY <2>1, TextsEmpty
  <2>4. ~SameValue(v, w)
    <3>1. SUFFICES ASSUME SameValue(v, w) PROVE FALSE
      OBVIOUS
    <3>2. Alike[v] = AlikeOf(Alike, v)
      BY AlikeWritten
    <3>3. w.kind = v.kind /\ (v.kind \notin {"array", "object"} => w = v)
      BY <3>1, <3>2 DEF SameValue, AlikeOf
    <3>4. QED
      BY <1>10, <3>3 DEF Token
  <2>5. QED
    BY <1>4, <2>2, <2>3, <2>4 DEF TextTells, text
<1>11. QED
  BY <1>8, <1>9, <1>10, TokenTells
(* The canonical texts of two JSON values are one exactly if the values    *)
(* are the same but for members named __proto__, whatever order the        *)
(* members were written in: neither the marks nor the order of the names   *)
(* mislead.                                                                *)
THEOREM CanonicalTextsTell ==
    \A v, w \in Json : canonicalize(v) = canonicalize(w) <=> SameValue(v, w)
BY TextsTell DEF TextTells, canonicalize

-----------------------------------------------------------------------------
(* The invariant of the process, and its steps.                            *)

ServInv ==
    /\ DataInv
    /\ TasksReady
    /\ PoliciesOK
    /\ running \in BOOLEAN
    /\ ScriptOK
    /\ ClaimOK
    /\ ComparedOK
    /\ DeployOK

(* A process starts with nothing on record, stored or begun.               *)
LEMMA InitServInv == ServicesInit => ServInv
<1> SUFFICES ASSUME ServicesInit PROVE ServInv
  OBVIOUS
<1>1. /\ deployed \in DOMAIN Environments /\ Published = {}
      /\ tasks = [s \in Slots |-> Free] /\ script = ScriptIdle
      /\ objects = [key \in Keys |-> Absent] /\ spoiled = {}
      /\ MaxAttestations \in Nat
  BY DeploymentsAssumption DEF ServicesInit, LifecycleInit, Published
<1>2. DataInv
  <2>1. RecordsOK
    <3>1. 0 \in 0 .. MaxAttestations /\ 0 .. 0 - 1 = {}
      BY <1>1
    <3>2. records \in [{} -> OnRecord]
      BY DEF ServicesInit, LifecycleInit
    <3>3. QED
      BY <3>1, <3>2 DEF RecordsOK
  <2>2. QED
    BY <1>1, <2>1 DEF DataInv, StoreTypeOK, KeysHold, RecordsHad
<1>3. TasksReady
  BY <1>1, FreeReady DEF TasksReady
<1>4. ScriptOK
  <2>1. Len(Program) \in Nat
    BY <1>1, ProgramLength
  <2>2. /\ script.at = 1 /\ script.ids = <<>> /\ script.told = <<>>
        /\ script.end = "running"
        /\ script = [at |-> 1, ids |-> <<>>, told |-> <<>>, end |-> "running"]
    BY <1>1 DEF ScriptIdle
  <2>3. ScriptTyped
    BY <2>1, <2>2 DEF ScriptTyped
  <2>4. ScriptAlone
    BY <1>1, FreeIs DEF ScriptAlone
  <2>5. Fetched
    BY <2>2, SeedSteps DEF Fetched
  <2>6. QED
    BY <2>3, <2>4, <2>5 DEF ScriptOK
<1>5. PoliciesOK /\ running \in BOOLEAN /\ ClaimOK /\ ComparedOK
  <2>1. policies = <<>> /\ running = FALSE /\ claim = <<>> /\ compared = <<>>
    BY DEF ServicesInit
  <2>2. <<>> \in Seq({"Active", "Expired"})
    OBVIOUS
  <2>3. QED
    BY <2>1, <2>2 DEF PoliciesOK, ClaimOK, ComparedOK
<1>6. DeployOK
  BY DeployInitOK DEF ServicesInit
<1>7. QED
  BY <1>2, <1>3, <1>4, <1>5, <1>6 DEF ServInv

(* The step of a task of the script's own is one towards its return.       *)
LEMMA TaskStepKeepsScript ==
    ASSUME TasksReady, ScriptOK, Kept, UNCHANGED script, NEW s \in Slots,
           TaskStep(s)
    PROVE  ScriptOK'
<1>1. Follows(s)
  BY TaskStepFollows
<1>2. QED
  BY <1>1, ScriptStays DEF Follows

(* A step in a slot.                                                       *)
LEMMA SlotStepKeeps ==
    ASSUME DataInv, TasksReady, PoliciesOK, ScriptOK, running \in BOOLEAN,
           NEW s \in Slots, SlotStep(s)
    PROVE  /\ Moves(s) \/ UNCHANGED tasks
           /\ DataInv' /\ Kept /\ PoliciesOK' /\ ScriptOK' /\ running' \in BOOLEAN
<1>1. CASE TaskStep(s) /\ UNCHANGED <<running, script, policies>>
  <2>1. Moves(s) /\ DataInv' /\ Kept
    BY <1>1, TaskStepMoves
  <2>2. ScriptOK'
    BY <1>1, <2>1, TaskStepKeepsScript
  <2>3. QED
    BY <1>1, <2>1, <2>2 DEF PoliciesOK
<1>2. CASE X402Step(s) /\ UNCHANGED <<running, script, policies>>
  <2>1. Moves(s) /\ DataInv' /\ Kept
    BY <1>2, X402Moves
  <2>2. ScriptOK'
    BY <1>2, <2>1, ServerForeign, ForeignStays
  <2>3. QED
    BY <1>2, <2>1, <2>2 DEF PoliciesOK
<1>3. CASE PolicyStep(s) /\ UNCHANGED <<running, script>>
  <2>1. Moves(s) /\ DataInv' /\ Kept /\ PoliciesOK'
    BY <1>3, PolicyStepMoves
  <2>2. ScriptOK'
    BY <1>3, <2>1, ServerForeign, ForeignStays
  <2>3. QED
    BY <1>3, <2>1, <2>2
<1>4. CASE guard(s) /\ UNCHANGED <<running, script>>
  <2>1. Moves(s) /\ DataInv' /\ Kept
    BY <1>4, GuardMoves
  <2>2. ScriptOK'
    BY <1>4, <2>1, ServerForeign, ForeignStays
  <2>3. policies' = policies
    BY <1>4 DEF guard
  <2>4. QED
    BY <1>4, <2>1, <2>2, <2>3 DEF PoliciesOK
<1>5. CASE RuntimeStep(s) /\ UNCHANGED <<script, policies>>
  <2>1. Moves(s) /\ DataInv' /\ Kept /\ running' \in BOOLEAN
    BY <1>5, RuntimeMoves
  <2>2. ScriptOK'
    BY <1>5, <2>1, ServerForeign, ForeignStays
  <2>3. QED
    BY <1>5, <2>1, <2>2 DEF PoliciesOK
<1>6. CASE ScriptStep(s) /\ UNCHANGED <<running, policies>>
  <2>1. Moves(s) \/ UNCHANGED tasks
    BY <1>6, ScriptCallsKeeps, ScriptGoesOnKeeps DEF ScriptStep
  <2>2. DataInv' /\ Kept /\ ScriptOK'
    BY <1>6, ScriptCallsKeeps, ScriptGoesOnKeeps DEF ScriptStep
  <2>3. QED
    BY <1>6, <2>1, <2>2 DEF PoliciesOK
<1>7. QED
  BY <1>1, <1>2, <1>3, <1>4, <1>5, <1>6 DEF SlotStep

(* A task begun for a client.                                              *)
LEMMA BeginTaskKeeps ==
    ASSUME DataInv, TasksReady, PoliciesOK, ScriptOK, running \in BOOLEAN,
           NEW s \in Slots, BeginTask(s)
    PROVE  /\ Moves(s)
           /\ DataInv' /\ Kept /\ PoliciesOK' /\ ScriptOK' /\ running' \in BOOLEAN
<1>1. Moves(s) /\ DataInv' /\ Kept /\ policies' = policies /\ running' \in BOOLEAN
  <2>1. CASE AskX402(s) /\ UNCHANGED <<running, policies>>
    <3>1. DataInv' /\ Kept
      BY <2>1, DataUnchanged DEF AskX402
    <3>2. QED
      BY <2>1, <3>1, AskX402Moves
  <2>2. CASE CallTool(s) /\ UNCHANGED running
    <3>1. policies' = policies
      BY <2>2 DEF CallTool
    <3>2. QED
      BY <2>2, <3>1, CallToolMoves
  <2>3. CASE runLoop(s) /\ UNCHANGED policies
    BY <2>3, RuntimeMoves
  <2>4. QED
    BY <2>1, <2>2, <2>3 DEF BeginTask
<1>2. Foreign(s) /\ Program = <<>>
  BY BeginsNoScript DEF DataInv
<1>3. UNCHANGED script
  BY DEF BeginTask
<1>4. ScriptOK'
  BY <1>1, <1>2, <1>3, ForeignStays
<1>5. QED
  BY <1>1, <1>4 DEF PoliciesOK

(* A client that takes its answer.                                         *)
LEMMA DismissKeeps ==
    ASSUME DataInv, TasksReady, ScriptOK, NEW s \in Slots, Dismiss(s)
    PROVE  Moves(s) /\ DataInv' /\ Kept /\ ScriptOK'
<1>1. /\ tasks[s].stage = "answered" /\ Begin(s, Free) /\ UNCHANGED script
      /\ UNCHANGED <<records, storeVars, deployed>>
  BY DEF Dismiss, At
<1>2. DataInv' /\ Kept
  BY <1>1, DataUnchanged
<1>3. Moves(s)
  BY <1>1, <1>2, DismissMoves
<1>4. tasks[s].by # "script"
  BY <1>1 DEF ScriptOK, ScriptAlone, Serves
<1>5. Foreign(s)
  <2>1. Free.by # "script"
    BY FreeIs
  <2>2. QED
    BY <1>1, <2>1, BeginForeign
<1>6. ScriptOK'
  BY <1>1, <1>2, <1>4, <1>5, ForeignStays
<1>7. QED
  BY <1>2, <1>3, <1>6

(* What others write.                                                      *)
LEMMA OthersWriteKeeps ==
    ASSUME DataInv, OthersWrite
    PROVE  DataInv' /\ Kept
<1>1. UNCHANGED <<storeVars, deployed>>
  BY DEF OthersWrite
<1>2. ASSUME Live, NEW a \in Attestors, NEW m \in ModelIds,
             NEW c \in here.payloads, Publish(a, m, c)
      PROVE  DataInv' /\ Kept
  <2>1. c \in Payloads \cap Commitments
    BY EnvironmentIs DEF DataInv
  <2>2. QED
    BY <1>1, <1>2, <2>1, PublishKeeps
<1>3. ASSUME NEW id \in Published, NEW verdict \in {"Slashed", "Finalized"},
             Rule(id, verdict)
      PROVE  DataInv' /\ Kept
  BY <1>1, <1>3, AdvanceKeeps DEF Rule
<1>4. QED
  BY <1>2, <1>3 DEF OthersWrite

(* What others do to the store keeps the data proper.                      *)
LEMMA OthersSpoilKeeps ==
    ASSUME DataInv, OthersSpoil
    PROVE  DataInv' /\ Kept
<1>1. PICK payload \in here.payloads, object \in here.spoilt :
        LET key == contentKey(payload)
        IN  IF Bucket THEN WriteToBucket(key, object) ELSE corrupt(key, object)
  BY DEF OthersSpoil
<1>2. /\ contentKey(payload) \in Keys
      /\ object \in DOMAIN Content \cup {Absent, Garbled}
  BY EnvironmentIs, KeyOfPayload DEF DataInv
<1>3. PICK key \in Keys : /\ key = contentKey(payload)
                          /\ putBytes(key, object)
                          /\ spoiled' = spoiled \cup {key}
  BY <1>1, <1>2 DEF WriteToBucket, corrupt, tamper
<1>4. UNCHANGED <<records, deployed>>
  BY DEF OthersSpoil
<1>5. QED
  BY <1>2, <1>3, <1>4, SpoilKeeps

(* A move is honest to the client of its task, and nothing is told to the  *)
(* others.                                                                 *)
LEMMA MovesHonest ==
    ASSUME TasksReady, (\E s \in Slots : Moves(s)) \/ UNCHANGED tasks,
           NEW u \in Slots
    PROVE  Honest(tasks[u], tasks'[u])
<1>1. CASE tasks'[u] = tasks[u]
  BY <1>1 DEF Honest
<1>2. ASSUME NEW s \in Slots, Moves(s) PROVE Honest(tasks[u], tasks'[u])
  <2>1. PICK t : Became(s, t) /\ Honest(tasks[s], t)
    BY <1>2 DEF Moves
  <2>2. CASE u = s
    <3>1. tasks'[u] = t
      BY <2>1, <2>2 DEF Became, TasksReady
    <3>2. QED
      BY <2>1, <2>2, <3>1
  <2>3. CASE u # s
    <3>1. tasks'[u] = tasks[u]
      BY <2>1, <2>3 DEF Became, TasksReady
    <3>2. QED
      BY <1>1, <3>1
  <2>4. QED
    BY <2>2, <2>3
<1>3. QED
  BY <1>1, <1>2

(* In every step at most one task moves, and properly.                     *)
LEMMA TasksStayReady ==
    ASSUME TasksReady, Kept, (\E s \in Slots : Moves(s)) \/ UNCHANGED tasks
    PROVE  TasksReady'
BY MoveReady, RestReady

(* Each step of the process keeps its invariant and is honest.             *)
LEMMA ServInvStep ==
    ASSUME ServInv, [ServicesNext]_servicesVars
    PROVE  /\ ServInv'
           /\ Kept
           /\ \A u \in Slots : Honest(tasks[u], tasks'[u])
<1> USE DEF ServInv
<1>1. ASSUME (\E s \in Slots : Moves(s)) \/ UNCHANGED tasks,
             DataInv', Kept, PoliciesOK', running' \in BOOLEAN, ScriptOK',
             ClaimOK', ComparedOK', DeployOK'
      PROVE  /\ ServInv'
             /\ Kept
             /\ \A u \in Slots : Honest(tasks[u], tasks'[u])
  BY <1>1, MovesHonest, TasksStayReady
<1>2. ASSUME UNCHANGED apartVars PROVE ClaimOK' /\ ComparedOK' /\ DeployOK'
  BY <1>2 DEF apartVars, deployVars, ClaimOK, ComparedOK, DeployOK,
              DeployTellsState
<1>3. ASSUME NEW s \in Slots, SlotStep(s) \/ BeginTask(s) \/ Dismiss(s)
      PROVE  /\ ServInv'
             /\ Kept
             /\ \A u \in Slots : Honest(tasks[u], tasks'[u])
  <2>1. UNCHANGED apartVars
    BY <1>3 DEF SlotStep, BeginTask, Dismiss
  <2>2. CASE SlotStep(s)
    BY <1>1, <1>2, <2>1, <2>2, SlotStepKeeps
  <2>3. CASE BeginTask(s)
    BY <1>1, <1>2, <2>1, <2>3, BeginTaskKeeps
  <2>4. CASE Dismiss(s)
    <3>1. running' = running /\ policies' = policies
      BY <2>4 DEF Dismiss
    <3>2. Moves(s) /\ DataInv' /\ Kept /\ ScriptOK'
      BY <2>4, DismissKeeps
    <3>3. PoliciesOK'
      BY <3>1 DEF PoliciesOK
    <3>4. QED
      BY <1>1, <1>2, <2>1, <3>1, <3>2, <3>3
  <2>5. QED
    BY <1>3, <2>2, <2>3, <2>4
<1>4. CASE stop /\ UNCHANGED <<script, policies, apartVars>>
  <2>1. UNCHANGED <<records, storeVars, tasks, deployed>> /\ running' = FALSE
    BY <1>4 DEF stop
  <2>2. DataInv' /\ Kept
    BY <2>1, DataUnchanged
  <2>3. ScriptOK' /\ PoliciesOK'
    BY <1>4, <2>1, <2>2, ScriptRests DEF PoliciesOK
  <2>4. QED
    BY <1>1, <1>2, <1>4, <2>1, <2>2, <2>3
<1>5. CASE OthersWrite \/ OthersSpoil
  <2>1. UNCHANGED <<tasks, deployed, running, script, policies, apartVars>>
    BY <1>5 DEF OthersWrite, OthersSpoil
  <2>2. DataInv' /\ Kept
    BY <1>5, OthersWriteKeeps, OthersSpoilKeeps
  <2>3. ScriptOK' /\ PoliciesOK'
    BY <2>1, <2>2, ScriptRests DEF PoliciesOK
  <2>4. QED
    BY <1>1, <1>2, <2>1, <2>2, <2>3
<1>6. CASE Apart
  <2>1. UNCHANGED <<records, storeVars, tasks, deployed, running, script, policies>>
    BY <1>6 DEF Apart
  <2>2. DataInv' /\ Kept
    BY <2>1, DataUnchanged
  <2>3. ScriptOK' /\ PoliciesOK'
    BY <2>1, <2>2, ScriptRests DEF PoliciesOK
  <2>4. ClaimOK'
    <3>1. EvaluateClaim \/ claim' = claim
      BY <1>6 DEF Apart
    <3>2. QED
      BY <3>1, ClaimKept DEF ClaimOK
  <2>5. ComparedOK'
    <3>1. CompareCalls \/ compared' = compared
      BY <1>6 DEF Apart
    <3>2. QED
      BY <3>1, ComparedKept DEF ComparedOK
  <2>6. DeployOK'
    <3>1. DeployNext \/ UNCHANGED deployVars
      BY <1>6 DEF Apart
    <3>2. QED
      BY <3>1, DeployKept DEF deployVars, DeployOK, DeployTellsState
  <2>7. QED
    BY <1>1, <2>1, <2>2, <2>3, <2>4, <2>5, <2>6
<1>7. CASE UNCHANGED servicesVars
  <2>1. UNCHANGED <<records, storeVars, tasks, deployed, running, script,
                    policies, apartVars>>
    BY <1>7 DEF servicesVars
  <2>2. DataInv' /\ Kept
    BY <2>1, DataUnchanged
  <2>3. ScriptOK' /\ PoliciesOK'
    BY <2>1, <2>2, ScriptRests DEF PoliciesOK
  <2>4. QED
    BY <1>1, <1>2, <2>1, <2>2, <2>3
<1>8. QED
  BY <1>3, <1>4, <1>5, <1>6, <1>7 DEF ServicesNext

(* What the store, the tasks, the scripts and the rest of a process are    *)
(* stays as it should be: ServInv is an invariant.                         *)
THEOREM ServicesInvariant == ServicesSpec => []ServInv
<1>1. ServInv /\ [ServicesNext]_servicesVars => ServInv'
  BY ServInvStep
<1>2. QED
  BY <1>1, InitServInv, PTL DEF ServicesSpec

(* The inductive invariant holds the type invariant.                       *)
LEMMA ServInvTyped == ServInv => ServicesTypeOK
<1> SUFFICES ASSUME ServInv PROVE ServicesTypeOK
  OBVIOUS
<1> USE DEF ServInv
<1>1. TaskTypeOK
  <2>1. \E n \in 0 .. MaxAttestations : records \in [0 .. n - 1 -> Record]
    <3>1. OnRecord \subseteq Record
      BY DEF OnRecord, Record
    <3>2. PICK n \in 0 .. MaxAttestations : records \in [0 .. n - 1 -> OnRecord]
      BY DEF DataInv, RecordsOK
    <3>3. records \in [0 .. n - 1 -> Record]
      BY <3>1, <3>2
    <3>4. QED
      BY <3>3
  <2>2. \A s \in Slots : IsTask(tasks[s])
    BY DEF TasksReady, Ready
  <2>3. StoreTypeOK
    BY DEF DataInv
  <2>4. QED
    BY <2>1, <2>2, <2>3 DEF TaskTypeOK, IsTask, Servers
<1>2. deployed \in DOMAIN Environments /\ running \in BOOLEAN
  BY DEF DataInv
<1>3. claim # <<>> => claim[1] \in Evidence
  BY DEF ClaimOK
<1>4. compared # <<>> => compared \in Calls \X Calls
  BY DEF ComparedOK
<1>5. policies \in Seq({"Active", "Expired"})
  BY DEF PoliciesOK
<1>6. /\ script.end \in {"running", "done", "failed", "crashed"}
      /\ script.at \in 1 .. Len(Program) + 1
  BY DEF ScriptOK, ScriptTyped
<1>7. deploy.run \in 0 .. MaxDeploys
  BY DEF DeployOK
<1>8. QED
  BY <1>1, <1>2, <1>3, <1>4, <1>5, <1>6, <1>7 DEF ServicesTypeOK

(* Every variable of a process of the services keeps its type, whatever    *)
(* interleaves: an await ends in a stage the code goes on from, with an    *)
(* outcome its server has an answer for.                                   *)
THEOREM ServicesTypes == ServicesSpec => []ServicesTypeOK
BY ServicesInvariant, ServInvTyped, PTL

(* .env.local never mixes runs of the deployment, or modes.                *)
THEOREM DeployTells == ServicesSpec => []DeployTellsState
<1>1. ServInv => DeployTellsState
  BY DEF ServInv, DeployOK
<1>2. QED
  BY <1>1, ServicesInvariant, PTL

(* A client is told that something does not exist only while it does not,  *)
(* or, of a live verification, as the API knows nothing of the attestor;   *)
(* and is told anything behind the payment gate only for a payment.        *)
THEOREM AnswersAreTrue == ServicesSpec => AnswersTrue
<1> DEFINE True ==
       \A s \in Slots :
          LET was == tasks[s]
              says == tasks'[s]
              Told(code) == says.answer = code /\ was.answer # code
          IN  /\ Told("ATTESTATION_NOT_FOUND") =>
                    \/ was.id \notin Published
                    \/ Live /\ was.stage = "reputation"
              /\ Told("POLICY_NOT_FOUND") => was.policy \notin DOMAIN policies
              /\ (says.by = "x402" /\ says.stage = "answered"
                    /\ says.answer # "PAYMENT_REQUIRED") =>
                    /\ says.extra = "header"
                    /\ here.production =>
                          here.facilitator \/ here.x402Mock
<1>1. ASSUME ServInv, [ServicesNext]_servicesVars
      PROVE  True
  <2> SUFFICES ASSUME NEW s \in Slots
               PROVE  /\ (/\ tasks'[s].answer = "ATTESTATION_NOT_FOUND"
                          /\ tasks[s].answer # "ATTESTATION_NOT_FOUND") =>
                            \/ tasks[s].id \notin Published
                            \/ Live /\ tasks[s].stage = "reputation"
                      /\ (/\ tasks'[s].answer = "POLICY_NOT_FOUND"
                          /\ tasks[s].answer # "POLICY_NOT_FOUND") =>
                            tasks[s].policy \notin DOMAIN policies
                      /\ (tasks'[s].by = "x402" /\ tasks'[s].stage = "answered"
                            /\ tasks'[s].answer # "PAYMENT_REQUIRED") =>
                            /\ tasks'[s].extra = "header"
                            /\ here.production =>
                                  here.facilitator \/ here.x402Mock
    BY DEF True
  <2>1. Honest(tasks[s], tasks'[s])
    BY <1>1, ServInvStep
  <2>2. TasksReady' /\ Kept
    BY <1>1, ServInvStep DEF ServInv
  <2>3. Gate' <=> Gate
    BY <2>2 DEF Gate, Kept, here
  <2>4. tasks'[s].by = "x402" =>
          \/ tasks'[s].stage = "payment"
          \/ tasks'[s].extra = "header" /\ Gate'
          \/ tasks'[s].stage = "answered" /\ tasks'[s].answer = "PAYMENT_REQUIRED"
    BY <2>2 DEF TasksReady, Ready, Backed
  <2>5. QED
    BY <2>1, <2>3, <2>4 DEF Honest, Gate
<1>2. ServInv /\ [ServicesNext]_servicesVars => [True]_servicesVars
  BY <1>1
<1>3. AnswersTrue <=> [][True]_servicesVars
  BY DEF AnswersTrue
<1>4. QED
  BY <1>2, <1>3, ServicesInvariant, PTL DEF ServicesSpec

(* A task at its payload is moved by nothing but the read of it.           *)
LEMMA OnlyRead ==
    ASSUME ServInv, ServicesNext, NEW s \in Slots, tasks[s].stage = "payload",
           tasks'[s] # tasks[s]
    PROVE  ReadPayload(s)
<1>1. ASSUME NEW u \in Slots, SlotStep(u) \/ BeginTask(u) \/ Dismiss(u)
      PROVE  u = s
  <2>1. Moves(u) \/ UNCHANGED tasks
    BY <1>1, SlotStepKeeps, BeginTaskKeeps, DismissKeeps DEF ServInv
  <2>2. PICK t : Became(u, t)
    BY <2>1 DEF Moves
  <2>3. QED
    BY <2>2 DEF Became, ServInv, TasksReady
<1>2. ~BeginTask(s) /\ ~Dismiss(s)
  BY DEF BeginTask, AskX402, CallTool, runLoop, Dismiss, At
<1>3. ~X402Step(s) /\ ~PolicyStep(s) /\ ~guard(s)
  BY DEF X402Step, requirePayment, RespondX402, PolicyStep, guard, At
<1>4. ~RuntimeStep(s) /\ ~ScriptStep(s)
  BY DEF RuntimeStep, runOnce, EndCycle, Awake, ScriptStep, ScriptCalls,
         ScriptGoesOn, At
<1>5. TaskStep(s) => ReadPayload(s)
  BY DEF TaskStep, ReadAttestation, ReadReputation, PutPayload, Submit,
         Challenge, At
<1>6. ASSUME OthersWrite \/ OthersSpoil \/ Apart \/ stop
      PROVE  UNCHANGED tasks
  BY <1>6 DEF OthersWrite, OthersSpoil, Apart, stop
<1>7. PICK u \in Slots : SlotStep(u) \/ BeginTask(u) \/ Dismiss(u)
  BY <1>6 DEF ServicesNext
<1>8. SlotStep(s)
  BY <1>1, <1>2, <1>7
<1>9. QED
  BY <1>3, <1>4, <1>5, <1>8 DEF SlotStep

(* What the object at the key of a record may be.                          *)
LEMMA ObjectFound ==
    ASSUME DataInv, NEW id \in Published, NEW committed, NEW key,
           committed = records[id].commitment, key = contentKey(committed)
    PROVE  /\ committed \in Payloads /\ key \in Keys
           /\ ~getJsonThrows(key) => objects[key] \in DOMAIN Content
           /\ key \notin spoiled =>
                 /\ getJsonThrows(key) => objects[key] = Absent
                 /\ ~getJsonThrows(key) =>
                       Hashable(objects[key]) /\ valid(objects[key], committed)
           /\ key \notin spoiled /\ ~Live => ~getJsonThrows(key)
<1>1. committed \in Payloads /\ key \in Payloads \cap Keys
  BY KeyKnown DEF DataInv
<1>2. objects \in [Keys -> DOMAIN Content \cup {Absent, Garbled}]
  BY DEF DataInv, StoreTypeOK
<1>3. ASSUME key \notin spoiled, objects[key] # Absent
      PROVE  /\ objects[key] # Garbled
             /\ Hashable(objects[key]) /\ valid(objects[key], committed)
  <2>1. PICK payload \in Payloads : /\ payload = objects[key]
                                    /\ contentKey(payload) = key
    BY <1>1, <1>3 DEF DataInv, KeysHold
  <2>2. outputHash[payload] = outputHash[committed]
    BY <1>1, <2>1, KeyOfPayload
  <2>3. Content[payload].rest = Content[committed].rest
    BY <1>1, <2>1, KeyOfPayload
  <2>4. payload # Garbled
    BY AbsentIsNoPayload
  <2>5. Hashable(payload)
    BY StoreAssumption
  <2>6. QED
    BY <2>1, <2>2, <2>3, <2>4, <2>5 DEF valid, verifyOutputHash
<1>4. key \notin spoiled /\ ~Live => objects[key] # Absent
  BY DEF DataInv, RecordsHad, Had
<1>5. QED
  BY <1>1, <1>2, <1>3, <1>4 DEF getJsonThrows, getBytesThrows

(* The hash of an output tells its value, as its canonical text does.      *)
LEMMA HashTellsValue ==
    ASSUME NEW a \in DOMAIN Content, NEW b \in DOMAIN Content,
           Hashable(a), Hashable(b)
    PROVE  outputHash[a] = outputHash[b]
              <=> SameValue(Content[a].output, Content[b].output)
<1>1. Content[a].output \in Json /\ Content[b].output \in Json
  BY StoreAssumption
<1>2. /\ outputHash[a] = canonicalize(Content[a].output)
      /\ outputHash[b] = canonicalize(Content[b].output)
  BY DEF outputHash, hashPayload
<1>3. QED
  BY <1>1, <1>2, TextsTell DEF TextTells, canonicalize

(* What a verdict says of the payload that was read.                       *)
LEMMA VerdictHonest ==
    ASSUME ServInv, NEW s \in Slots, ReadPayload(s),
           NEW committed, committed = records[tasks[s].id].commitment,
           NEW key, key = contentKey(committed),
           NEW says, says = tasks'[s].answer
    PROVE  /\ says = "PASS" =>
                 /\ SameValue(Content[objects[key]].output, Content[committed].output)
                 /\ Content[objects[key]].rest \in {"none", Content[committed].rest}
           /\ says = "FAIL" =>
                 /\ key \in spoiled
                 /\ SameValue(Content[objects[key]].output, Content[committed].output)
                      => Content[objects[key]].rest \notin {"none", Content[committed].rest}
           /\ says \in {"missing", "INTERNAL_ERROR"} /\ ~Live /\ ~Bucket
                 => key \in spoiled
<1>1. /\ tasks[s].id \in Published /\ Read(s)
      /\ DataInv /\ TasksReady
  BY ReadPayloadReads DEF ServInv
<1>2. /\ committed \in Payloads /\ key \in Keys
      /\ ~getJsonThrows(key) => objects[key] \in DOMAIN Content
      /\ key \notin spoiled =>
            (~getJsonThrows(key) =>
               Hashable(objects[key]) /\ valid(objects[key], committed))
      /\ key \notin spoiled /\ ~Live => ~getJsonThrows(key)
  BY <1>1, ObjectFound
<1>3. CASE /\ Bucket \/ getJsonThrows(key)
           /\ Return(s, IF tasks[s].job = "read" THEN "missing"
                        ELSE "INTERNAL_ERROR")
  <2>1. says = IF tasks[s].job = "read" THEN "missing" ELSE "INTERNAL_ERROR"
    BY <1>1, <1>3, ReturnStays
  <2>2. QED
    BY <1>2, <1>3, <2>1
<1>4. CASE Return(s, "payload")
  <2>1. says = "payload"
    BY <1>1, <1>4, ReturnStays
  <2>2. QED
    BY <2>1
<1>5. CASE /\ ~getJsonThrows(key) /\ ~Hashable(objects[key])
           /\ Return(s, "INTERNAL_ERROR")
  <2>1. says = "INTERNAL_ERROR"
    BY <1>1, <1>5, ReturnStays
  <2>2. QED
    BY <1>2, <1>5, <2>1
<1>6. CASE /\ ~getJsonThrows(key) /\ Hashable(objects[key])
           /\ tasks' = [tasks EXCEPT ![s].stage = "reputation",
                                     ![s].answer =
                IF valid(objects[key], committed) THEN "PASS" ELSE "FAIL"]
  <2>1. PICK verdict : verdict = IF valid(objects[key], committed) THEN "PASS"
                                 ELSE "FAIL"
    OBVIOUS
  <2>2. says = verdict
    <3>1. DOMAIN tasks = Slots /\ IsTask(tasks[s])
      BY <1>1 DEF TasksReady, Ready
    <3>2. Became(s, Now(tasks[s], "reputation", tasks[s].attempt, verdict))
      BY <1>6, <2>1, <3>1, VerdictNow
    <3>3. tasks'[s] = Now(tasks[s], "reputation", tasks[s].attempt, verdict)
      BY <3>1, <3>2 DEF Became
    <3>4. QED
      BY <3>3 DEF Now
  <2>3. committed \in DOMAIN Content /\ Hashable(committed)
    BY <1>2, StoreAssumption
  <2>4. objects[key] \in DOMAIN Content
    BY <1>2, <1>6
  <2>5. outputHash[objects[key]] = outputHash[committed]
          <=> SameValue(Content[objects[key]].output, Content[committed].output)
    BY <1>6, <2>3, <2>4, HashTellsValue
  <2>6. says = "PASS" <=> valid(objects[key], committed)
    BY <2>1, <2>2
  <2>7. says \in {"PASS", "FAIL"}
    BY <2>1, <2>2
  <2>8. says = "FAIL" => key \in spoiled
    BY <1>2, <1>6, <2>6
  <2>9. QED
    BY <2>5, <2>6, <2>7, <2>8 DEF valid, verifyOutputHash
<1>7. QED
  BY <1>1, <1>3, <1>4, <1>5, <1>6 DEF Read

(* verify says PASS of the attested value only, FAIL only of another where *)
(* others have written; and a process with a store of its own has every    *)
(* payload on record that nobody spoiled.                                  *)
THEOREM VerdictsAreHonest == ServicesSpec => VerdictsHonest
<1> DEFINE Tells(s) ==
             LET committed == records[tasks[s].id].commitment
                 key == contentKey(committed)
                 says == tasks'[s].answer
                 Same == SameValue(Content[objects[key]].output,
                                   Content[committed].output)
                 rest == Content[objects[key]].rest
             IN  /\ says = "PASS" =>
                       Same /\ rest \in {"none", Content[committed].rest}
                 /\ says = "FAIL" =>
                       /\ key \in spoiled
                       /\ Same => rest \notin {"none", Content[committed].rest}
                 /\ (says \in {"missing", "INTERNAL_ERROR"} /\ ~Live /\ ~Bucket)
                       => key \in spoiled
           Honestly ==
             \A s \in Slots :
                (At(s, "payload") /\ tasks'[s].answer # "none") => Tells(s)
<1>1. ASSUME ServInv, ServicesNext PROVE Honestly
  <2>1. ASSUME NEW s \in Slots, At(s, "payload"), tasks'[s].answer # "none"
        PROVE  ReadPayload(s)
    <3>1. tasks[s].answer = "none" /\ tasks[s].stage = "payload"
      BY <1>1, <2>1 DEF ServInv, TasksReady, Ready, Proper, Answered, At
    <3>2. QED
      BY <1>1, <2>1, <3>1, OnlyRead
  <2>2. ASSUME NEW s \in Slots, ReadPayload(s) PROVE Tells(s)
    <3>1. PICK committed : committed = records[tasks[s].id].commitment
      OBVIOUS
    <3>2. PICK key : key = contentKey(committed)
      OBVIOUS
    <3>3. PICK says : says = tasks'[s].answer
      OBVIOUS
    <3>4. /\ says = "PASS" =>
                /\ SameValue(Content[objects[key]].output, Content[committed].output)
                /\ Content[objects[key]].rest \in {"none", Content[committed].rest}
          /\ says = "FAIL" =>
                /\ key \in spoiled
                /\ SameValue(Content[objects[key]].output, Content[committed].output)
                     => Content[objects[key]].rest \notin {"none", Content[committed].rest}
          /\ (says \in {"missing", "INTERNAL_ERROR"} /\ ~Live /\ ~Bucket)
                => key \in spoiled
      <4> HIDE DEF Tells, Honestly
      <4>1. QED
        BY ZenonT(40), <1>1, <2>2, <3>1, <3>2, <3>3, VerdictHonest
    <3>5. QED
      BY <3>1, <3>2, <3>3, <3>4
  <2>3. QED
    <3> HIDE DEF Tells
    <3>1. QED
      BY <2>1, <2>2
<1>2. ServInv /\ [ServicesNext]_servicesVars => [Honestly]_servicesVars
  BY <1>1
<1>3. VerdictsHonest <=> [][Honestly]_servicesVars
  BY DEF VerdictsHonest
<1>4. QED
  BY <1>2, <1>3, ServicesInvariant, PTL DEF ServicesSpec
-----------------------------------------------------------------------------
(* Claim decisions.                                                        *)

AllTriggers == {"exploit", "oracle_failure", "agent_error", "governance_attack"}

(* The four triggers, in the order they are looked for.                    *)
LEMMA TriggersAre ==
    /\ DOMAIN Triggers = 1 .. 4
    /\ Triggers[1] = "exploit" /\ Triggers[2] = "oracle_failure"
    /\ Triggers[3] = "agent_error" /\ Triggers[4] = "governance_attack"
    /\ {Triggers[i] : i \in DOMAIN Triggers} = AllTriggers
<1>1. /\ DOMAIN Triggers = 1 .. 4
      /\ Triggers[1] = "exploit" /\ Triggers[2] = "oracle_failure"
      /\ Triggers[3] = "agent_error" /\ Triggers[4] = "governance_attack"
  BY DEF Triggers
<1>2. {Triggers[i] : i \in 1 .. 4} = AllTriggers
  <2>1. \A i \in 1 .. 4 : i = 1 \/ i = 2 \/ i = 3 \/ i = 4
    OBVIOUS
  <2>2. \A i \in 1 .. 4 : Triggers[i] \in AllTriggers
    BY <1>1, <2>1 DEF AllTriggers
  <2>3. \A t \in AllTriggers : \E i \in 1 .. 4 : t = Triggers[i]
    BY <1>1 DEF AllTriggers
  <2>4. QED
    BY <2>2, <2>3
<1>3. QED
  BY <1>1, <1>2

(* The score of a trigger tells whether it is suspected, and whether it is *)
(* indicated in both ways.                                                 *)
LEMMA ScoreTells ==
    ASSUME NEW e \in Evidence, NEW t \in AllTriggers
    PROVE  /\ Score(e, t) \in Nat
           /\ Suspected(e, t) <=> Score(e, t) > 0
           /\ Suspected(e, t) => Score(e, t) >= 3000
           /\ Proven(e, t) => Score(e, t) >= 8500
           /\ ~Proven(e, t) => Score(e, t) <= 6000
<1>1. e.oracleDeviationBps \in Nat
  BY ClaimAssumption DEF Evidence
<1>2. CASE t = "exploit"
  <2>1. Score(e, t) = Part(e, "exploitDetected", 6000) + Part(e, "fundsDrained", 5000)
    BY <1>2 DEF Score, scoreExploit
  <2>2. /\ Suspected(e, t) <=> "exploitDetected" \in e.signs \/ "fundsDrained" \in e.signs
        /\ Proven(e, t) <=> "exploitDetected" \in e.signs /\ "fundsDrained" \in e.signs
    BY <1>2 DEF Suspected, Proven, SignsOf
  <2>3. QED
    BY <2>1, <2>2 DEF Part
<1>3. CASE t = "oracle_failure"
  <2>1. Score(e, t) = Part(e, "oracleStale", 5500)
                        + deviationScore(e.oracleDeviationBps)
    BY <1>3 DEF Score, scoreOracleFailure
  <2>2. /\ Suspected(e, t) <=> "oracleStale" \in e.signs \/ e.oracleDeviationBps >= 500
        /\ Proven(e, t) <=> "oracleStale" \in e.signs /\ e.oracleDeviationBps >= 500
    BY <1>3 DEF Suspected, Proven, SignsOf, Deviates
  <2>3. PICK bps \in Nat : bps = e.oracleDeviationBps
    BY <1>1
  <2>4. PICK score : score = deviationScore(e.oracleDeviationBps)
    OBVIOUS
  <2>5. score = deviationScore(bps)
    BY <2>3, <2>4
  <2>6. /\ score \in 0 .. 6000
        /\ bps >= 500 <=> score >= 3000
        /\ bps < 500 <=> score = 0
    BY SMTT(30), <2>5 DEF deviationScore
  <2>7. Score(e, t) = Part(e, "oracleStale", 5500) + score
    BY <2>1, <2>4
  <2>8. /\ Suspected(e, t) <=> "oracleStale" \in e.signs \/ bps >= 500
        /\ Proven(e, t) <=> "oracleStale" \in e.signs /\ bps >= 500
    BY <2>2, <2>3
  <2>9. QED
    BY <2>6, <2>7, <2>8 DEF Part
<1>4. CASE t = "agent_error"
  <2>1. Score(e, t) = Part(e, "agentSlashed", 6000) + Part(e, "agentMisbehaved", 4500)
    BY <1>4 DEF Score, scoreAgentError
  <2>2. /\ Suspected(e, t) <=> "agentSlashed" \in e.signs \/ "agentMisbehaved" \in e.signs
        /\ Proven(e, t) <=> "agentSlashed" \in e.signs /\ "agentMisbehaved" \in e.signs
    BY <1>4 DEF Suspected, Proven, SignsOf
  <2>3. QED
    BY <2>1, <2>2 DEF Part
<1>5. CASE t = "governance_attack"
  <2>1. Score(e, t) = Part(e, "maliciousProposal", 5500)
                        + Part(e, "governanceTakeover", 5000)
    BY <1>5 DEF Score, scoreGovernanceAttack
  <2>2. /\ Suspected(e, t) <=> "maliciousProposal" \in e.signs \/ "governanceTakeover" \in e.signs
        /\ Proven(e, t) <=> "maliciousProposal" \in e.signs /\ "governanceTakeover" \in e.signs
    BY <1>5 DEF Suspected, Proven, SignsOf
  <2>3. QED
    BY <2>1, <2>2 DEF Part
<1>6. QED
  BY <1>2, <1>3, <1>4, <1>5 DEF AllTriggers

(* A first maximum of four numbers there always is.                        *)
LEMMA FirstOfGreatest ==
    ASSUME NEW a \in Nat, NEW b \in Nat, NEW c \in Nat, NEW d \in Nat
    PROVE  \/ a >= b /\ a >= c /\ a >= d
           \/ b > a /\ b >= c /\ b >= d
           \/ c > a /\ c > b /\ c >= d
           \/ d > a /\ d > b /\ d > c
OBVIOUS

(* classify names a trigger with the highest score.                        *)
LEMMA ClassifiedHighest ==
    ASSUME NEW e \in Evidence
    PROVE  /\ classify(e) \in AllTriggers
           /\ \A t \in AllTriggers : Score(e, classify(e)) >= Score(e, t)
<1> DEFINE First(i) == \A j \in 1 .. 4 :
                          LET mine == Score(e, Triggers[i])
                              other == Score(e, Triggers[j])
                          IN  IF j < i THEN mine > other ELSE mine >= other
           score == [i \in 1 .. 4 |-> Score(e, Triggers[i])]
<1>1. /\ score[1] \in Nat /\ score[2] \in Nat /\ score[3] \in Nat
      /\ score[4] \in Nat
  BY ScoreTells, TriggersAre DEF AllTriggers
<1>2. \A i \in 1 .. 4 : First(i) <=>
         \A j \in 1 .. 4 : IF j < i THEN score[i] > score[j]
                           ELSE score[i] >= score[j]
  OBVIOUS
<1>3. \E i \in 1 .. 4 : First(i)
  <2> HIDE DEF score, First
  <2>1. \A j \in 1 .. 4 : j = 1 \/ j = 2 \/ j = 3 \/ j = 4
    OBVIOUS
  <2>2. CASE score[1] >= score[2] /\ score[1] >= score[3] /\ score[1] >= score[4]
    <3>1. First(1)
      BY <1>1, <1>2, <2>1, <2>2
    <3>2. QED
      BY <3>1
  <2>3. CASE score[2] > score[1] /\ score[2] >= score[3] /\ score[2] >= score[4]
    <3>1. First(2)
      BY <1>1, <1>2, <2>1, <2>3
    <3>2. QED
      BY <3>1
  <2>4. CASE score[3] > score[1] /\ score[3] > score[2] /\ score[3] >= score[4]
    <3>1. First(3)
      BY <1>1, <1>2, <2>1, <2>4
    <3>2. QED
      BY <3>1
  <2>5. CASE score[4] > score[1] /\ score[4] > score[2] /\ score[4] > score[3]
    <3>1. First(4)
      BY <1>1, <1>2, <2>1, <2>5
    <3>2. QED
      BY <3>1
  <2>6. QED
    BY <1>1, <2>2, <2>3, <2>4, <2>5, FirstOfGreatest
<1>4. PICK i \in 1 .. 4 : i = (CHOOSE k \in 1 .. 4 : First(k)) /\ First(i)
  BY <1>3
<1>5. classify(e) = Triggers[i]
  BY <1>4, TriggersAre DEF classify
<1>6. \A j \in 1 .. 4 : Score(e, Triggers[i]) >= Score(e, Triggers[j])
  <2>1. \A j \in 1 .. 4 : score[j] \in Nat
    BY <1>1
  <2> HIDE DEF First, score
  <2>2. \A j \in 1 .. 4 : IF j < i THEN score[i] > score[j] ELSE score[i] >= score[j]
    BY <1>2, <1>4
  <2>3. \A j \in 1 .. 4 : score[i] >= score[j]
    BY <2>1, <2>2
  <2>4. QED
    BY <2>3 DEF score
<1>7. \A t \in AllTriggers : \E j \in 1 .. 4 : t = Triggers[j]
  BY TriggersAre
<1>8. QED
  BY <1>5, <1>6, <1>7, TriggersAre

Full == 10000

Capped(score) == IF score > Full THEN Full ELSE score

(* The score is a number, and the confidence is it capped.                 *)
LEMMA ConfidenceIs ==
    ASSUME NEW e \in Evidence
    PROVE  /\ Score(e, classify(e)) \in Nat
           /\ Capped(Score(e, classify(e))) \in 0 .. Full
           /\ Confidence(e) = round2(Capped(Score(e, classify(e))))
<1>1. Score(e, classify(e)) \in Nat
  BY ClassifiedHighest, ScoreTells
<1>2. PICK n \in Nat : n = Score(e, classify(e))
  BY <1>1
<1>3. Capped(n) \in 0 .. Full
  <2>1. Full \in Nat
    BY DEF Full
  <2>2. QED
    BY <2>1 DEF Capped
<1>4. Confidence(e) = round2(Capped(n))
  BY <1>2 DEF Confidence, Capped, Full
<1>5. QED
  BY <1>1, <1>2, <1>3, <1>4

(* More evidence scores no lower.                                          *)
LEMMA ConfidenceGrows ==
    ASSUME NEW e \in Evidence, NEW sign \in Signs
    PROVE  Confidence([e EXCEPT !.signs = @ \cup {sign}]) >= Confidence(e)
<1> DEFINE more == [e EXCEPT !.signs = @ \cup {sign}]
<1>1. /\ more \in Evidence /\ e.signs \subseteq more.signs
      /\ more.oracleDeviationBps = e.oracleDeviationBps
      /\ e.oracleDeviationBps \in Nat
  BY ClaimAssumption DEF Evidence
<1> HIDE DEF more
<1>2. ASSUME NEW x, NEW n \in Nat
      PROVE  /\ Part(e, x, n) \in Nat /\ Part(more, x, n) \in Nat
             /\ Part(more, x, n) >= Part(e, x, n)
  BY <1>1 DEF Part
<1>3. deviationScore(e.oracleDeviationBps) \in Nat
  <2>1. PICK bps \in Nat : bps = e.oracleDeviationBps
    BY <1>1
  <2>2. deviationScore(bps) \in Nat
    BY DEF deviationScore
  <2>3. QED
    BY <2>1, <2>2
<1>4. ASSUME NEW t \in AllTriggers PROVE Score(more, t) >= Score(e, t)
  <2>1. CASE t = "exploit"
    BY <1>2, <2>1 DEF Score, scoreExploit
  <2>2. CASE t = "oracle_failure"
    BY <1>1, <1>2, <1>3, <2>2 DEF Score, scoreOracleFailure
  <2>3. CASE t = "agent_error"
    BY <1>2, <2>3 DEF Score, scoreAgentError
  <2>4. CASE t = "governance_attack"
    BY <1>2, <2>4 DEF Score, scoreGovernanceAttack
  <2>5. QED
    BY <2>1, <2>2, <2>3, <2>4 DEF AllTriggers
<1>5. Score(more, classify(more)) >= Score(e, classify(e))
  <2>1. classify(e) \in AllTriggers
    BY ClassifiedHighest
  <2>2. Score(more, classify(more)) >= Score(more, classify(e))
    BY <1>1, <2>1, ClassifiedHighest
  <2>3. Score(more, classify(e)) >= Score(e, classify(e))
    BY <1>4, <2>1
  <2>4. Score(more, classify(e)) \in Nat
    BY <1>1, <2>1, ScoreTells
  <2>5. QED
    BY <1>1, <2>2, <2>3, <2>4, ConfidenceIs
<1>6. Capped(Score(e, classify(e))) <= Capped(Score(more, classify(more)))
  <2>1. Full \in Nat
    BY DEF Full
  <2>2. PICK m \in Nat, n \in Nat :
          m = Score(e, classify(e)) /\ n = Score(more, classify(more))
    BY <1>1, ConfidenceIs
  <2>3. Capped(m) <= Capped(n)
    BY <1>5, <2>1, <2>2 DEF Capped
  <2>4. QED
    BY <2>2, <2>3
<1>7. round2(Capped(Score(e, classify(e))))
        <= round2(Capped(Score(more, classify(more))))
  <2>1. PICK c \in 0 .. Full : c = Capped(Score(e, classify(e)))
    BY ConfidenceIs
  <2>2. PICK d \in 0 .. Full : d = Capped(Score(more, classify(more)))
    BY <1>1, ConfidenceIs
  <2>3. round2(c) <= round2(d)
    <3>1. c <= d
      BY <1>6, <2>1, <2>2
    <3>2. c \in Nat /\ d \in Nat
      OBVIOUS
    <3>3. QED
      BY <3>1, <3>2, SMTT(30) DEF round2
  <2>4. QED
    BY <2>1, <2>2, <2>3
<1>8. /\ Confidence(e) = round2(Capped(Score(e, classify(e))))
      /\ Confidence(more) = round2(Capped(Score(more, classify(more))))
  BY <1>1, ConfidenceIs
<1>9. Confidence(e) \in Int /\ Confidence(more) \in Int
  <2>1. PICK c \in 0 .. Full : c = Capped(Score(e, classify(e)))
    BY ConfidenceIs
  <2>2. PICK d \in 0 .. Full : d = Capped(Score(more, classify(more)))
    BY <1>1, ConfidenceIs
  <2>3. round2(c) \in Int /\ round2(d) \in Int
    BY DEF round2
  <2>4. Confidence(e) = round2(c) /\ Confidence(more) = round2(d)
    BY <1>8, <2>1, <2>2
  <2>5. QED
    BY <2>3, <2>4
<1>10. Confidence(more) >= Confidence(e)
  BY <1>7, <1>8, <1>9
<1>11. QED
  BY <1>10 DEF more

(* A payout is bounded by the coverage and by the loss that is known.      *)
LEMMA AmountBounded ==
    ASSUME NEW e \in Evidence
    PROVE  /\ payoutAmount(e) <= e.coverage
           /\ e.lossAmount # NoLoss => payoutAmount(e) <= e.lossAmount
<1>1. e.coverage \in Nat /\ e.lossAmount \in Nat \cup {NoLoss}
  BY ClaimAssumption DEF Evidence
<1>2. QED
  BY <1>1 DEF payoutAmount, NoLoss

(* What is decided, by the trigger classified and whether it is proven.    *)
LEMMA DecisionIs ==
    ASSUME NEW e \in Evidence, NEW d, d = evaluateClaim(e)
    PROVE  /\ d.decision = "payout" =>
                 /\ d.triggerType = classify(e)
                 /\ classify(e) \in e.coveredTriggers
                 /\ Proven(e, classify(e))
                 /\ d.amount = payoutAmount(e)
           /\ d.decision # "payout" => d.amount = 0
           /\ IF Suspected(e, classify(e)) THEN d.triggerType = classify(e)
              ELSE d.triggerType = "none"
           /\ classify(e) \in e.coveredTriggers /\ Proven(e, classify(e))
                 => d.decision = "payout"
<1> DEFINE t == classify(e)
           c == Confidence(e)
<1>1. t \in AllTriggers /\ Score(e, t) \in Nat
  BY ClassifiedHighest, ScoreTells
<1>2. /\ c \in 0 .. 100
      /\ ~Suspected(e, t) => c = 0
      /\ Suspected(e, t) => c # 0
      /\ Proven(e, t) <=> c >= 70
  <2>1. /\ Capped(Score(e, t)) \in 0 .. Full
        /\ c = round2(Capped(Score(e, t)))
    BY ConfidenceIs
  <2>2. /\ ~Suspected(e, t) => Capped(Score(e, t)) = 0
        /\ Suspected(e, t) => Capped(Score(e, t)) >= 3000
        /\ Proven(e, t) => Capped(Score(e, t)) >= 8500
        /\ ~Proven(e, t) => Capped(Score(e, t)) <= 6000
    BY <1>1, ScoreTells DEF Capped, Full
  <2> HIDE DEF t, c
  <2>3. PICK n \in 0 .. Full : n = Capped(Score(e, t))
    BY <2>1
  <2>4. /\ round2(n) \in 0 .. 100
        /\ n = 0 => round2(n) = 0
        /\ n >= 3000 => round2(n) # 0
        /\ n >= 8500 => round2(n) >= 70
        /\ n <= 6000 => round2(n) < 70
    <3>1. round2(n) = (2 * n + 100) \div 200
      BY DEF round2
    <3>2. n \in 0 .. 10000
      BY DEF Full
    <3>3. QED
      BY <3>1, <3>2
  <2>5. /\ ~Suspected(e, t) => n = 0
        /\ Suspected(e, t) => n >= 3000
        /\ Proven(e, t) => n >= 8500
        /\ ~Proven(e, t) => n <= 6000
    BY <2>2, <2>3
  <2>6. c = round2(n)
    BY <2>1, <2>3
  <2>7. PICK k \in 0 .. 100 : k = round2(n)
    BY <2>4
  <2>8. /\ ~Suspected(e, t) => k = 0
        /\ Suspected(e, t) => k # 0
        /\ Proven(e, t) => k >= 70
        /\ ~Proven(e, t) => k < 70
    BY <2>4, <2>5, <2>7
  <2>9. QED
    BY <2>6, <2>7, <2>8
<1>3. d = CASE c = 0 -> Decided("reject", "none", 0)
            [] c >= 70 /\ t \in e.coveredTriggers ->
                  Decided("payout", t, payoutAmount(e))
            [] c >= 40 /\ (c < 70 \/ t \notin e.coveredTriggers) ->
                  Decided("review", t, 0)
            [] OTHER -> Decided("reject", t, 0)
  BY DEF evaluateClaim
<1> HIDE DEF t, c
<1>4. CASE c = 0
  <2>1. d = Decided("reject", "none", 0)
    BY <1>3, <1>4
  <2>2. QED
    BY <1>2, <1>4, <2>1 DEF Decided, t
<1>5. CASE c >= 70 /\ t \in e.coveredTriggers
  <2>1. d = Decided("payout", t, payoutAmount(e))
    BY <1>2, <1>3, <1>5
  <2>2. QED
    BY <1>2, <1>5, <2>1 DEF Decided, t
<1>6. CASE c # 0 /\ ~(c >= 70 /\ t \in e.coveredTriggers)
  <2>1. d = Decided("review", t, 0) \/ d = Decided("reject", t, 0)
    BY <1>2, <1>3, <1>6
  <2>2. QED
    BY <1>2, <1>6, <2>1 DEF Decided, t
<1>7. QED
  BY <1>4, <1>5, <1>6

(* A claim decided as the oracle decides is decided soundly.               *)
LEMMA ClaimSound == ClaimOK => ClaimDecisionSound
<1> SUFFICES ASSUME ClaimOK, claim # <<>> PROVE ClaimDecisionSound
  BY DEF ClaimDecisionSound
<1>0. PICK e \in Evidence : claim = <<e, evaluateClaim(e)>>
  BY DEF ClaimOK
<1>1. PICK d : d = evaluateClaim(e) /\ claim = <<e, d>>
  BY <1>0
<1>2. claim[1] = e /\ claim[2] = d
  BY <1>1
<1>3. /\ d.decision = "payout" =>
            /\ d.triggerType \in e.coveredTriggers
            /\ Proven(e, d.triggerType)
            /\ d.amount <= e.coverage
            /\ e.lossAmount # NoLoss => d.amount <= e.lossAmount
      /\ d.decision # "payout" => d.amount = 0
  BY <1>1, DecisionIs, AmountBounded
<1>4. classify(e) \in AllTriggers
  BY ClassifiedHighest
<1>5. IF \E t \in AllTriggers : Suspected(e, t)
      THEN Suspected(e, d.triggerType)
      ELSE d.triggerType = "none"
  <2>1. (\E t \in AllTriggers : Suspected(e, t)) => Suspected(e, classify(e))
    <3>1. ASSUME NEW t \in AllTriggers, Suspected(e, t)
          PROVE  Suspected(e, classify(e))
      <4>1. Score(e, t) \in Nat /\ Score(e, t) > 0
        BY <3>1, ScoreTells
      <4>2. Score(e, classify(e)) >= Score(e, t) /\ Score(e, classify(e)) \in Nat
        BY <1>4, ClassifiedHighest, ScoreTells
      <4>3. Score(e, classify(e)) > 0
        BY <4>1, <4>2
      <4>4. QED
        BY <1>4, <4>3, ScoreTells
    <3>2. QED
      BY <3>1
  <2>2. IF Suspected(e, classify(e)) THEN d.triggerType = classify(e)
        ELSE d.triggerType = "none"
    BY <1>1, DecisionIs
  <2>3. QED
    BY <1>4, <2>1, <2>2
<1>6. ASSUME NEW t \in e.coveredTriggers, Proven(e, t),
             \A u \in AllTriggers \ {t} : ~Suspected(e, u)
      PROVE  d.decision = "payout"
  <2>1. CASE t \in AllTriggers
    <3>1. Score(e, t) \in Nat /\ Score(e, t) >= 8500
      BY <1>6, <2>1, ScoreTells
    <3>2. Score(e, classify(e)) >= Score(e, t) /\ Score(e, classify(e)) \in Nat
      BY <1>4, <2>1, ClassifiedHighest, ScoreTells
    <3>3. Score(e, classify(e)) > 0
      BY <3>1, <3>2
    <3>4. classify(e) = t
      BY <1>4, <1>6, <3>3, ScoreTells
    <3>5. QED
      BY <1>1, <1>6, <3>4, DecisionIs
  <2>2. t \in AllTriggers
    BY CoverAssumption, TriggersAre DEF Evidence
  <2>3. QED
    BY <2>1, <2>2
<1>7. \A sign \in Signs :
         Confidence([e EXCEPT !.signs = @ \cup {sign}]) >= Confidence(e)
  BY ConfidenceGrows
<1>8. {Triggers[i] : i \in DOMAIN Triggers} = AllTriggers
  BY TriggersAre
<1>9. QED
  BY <1>2, <1>3, <1>5, <1>6, <1>7, <1>8 DEF ClaimDecisionSound

(* Whatever evidence is observed and whatever a policy covers, a claim is  *)
(* paid only for a covered trigger indicated in both ways there are for    *)
(* it, and never above the coverage or the loss stated.                    *)
THEOREM ClaimsDecided == ServicesSpec => []ClaimDecisionSound
<1>1. ServInv => ClaimDecisionSound
  BY ClaimSound DEF ServInv
<1>2. QED
  BY <1>1, ServicesInvariant, PTL
-----------------------------------------------------------------------------
(* Commitments.                                                            *)

(* The span of so many bytes is the base to that power.                    *)
LEMMA SpanWritten ==
    Span = [i \in 0 .. Width |-> IF i = 0 THEN 1 ELSE Base * Span[i - 1]]
<1> DEFINE f == [x \in Nat |-> Base * x]
<1>1. Base \in Nat /\ Width \in Nat /\ f \in [Nat -> Nat]
  BY CommitmentAssumption
<1>2. PICK s \in [0 .. Width -> Nat] : IsIterate(s, f, 1, Width)
  BY <1>1, IterateExists
<1>3. s = [i \in 0 .. Width |-> IF i = 0 THEN 1 ELSE Base * s[i - 1]]
  <2>1. ASSUME NEW i \in 0 .. Width, i # 0
        PROVE  f[s[i - 1]] = Base * s[i - 1]
    <3>1. i - 1 \in 0 .. Width
      BY <1>1, <2>1
    <3>2. s[i - 1] \in Nat
      BY <3>1
    <3>3. QED
      BY <3>2
  <2> HIDE DEF f
  <2>2. QED
    BY <1>2, <2>1 DEF IsIterate
<1>4. QED
  BY <1>3 DEF Span

(* A number less than so many is less by a byte than a base of them.       *)
LEMMA ByteShifted ==
    ASSUME NEW n \in Nat, NEW p \in Nat, n < Base * p
    PROVE  n \div Base \in Nat /\ n \div Base < p
  BY CommitmentAssumption

(* A number is told by its lowest byte and the rest.                       *)
LEMMA ByteAndRest ==
    ASSUME NEW m \in Nat, NEW n \in Nat,
           m \div Base = n \div Base, m % Base = n % Base
    PROVE  m = n
<1>1. m = Base * (m \div Base) + (m % Base)
  BY CommitmentAssumption
<1>2. n = Base * (n \div Base) + (n % Base)
  BY CommitmentAssumption
<1>3. QED
  BY <1>1, <1>2

(* The same numbers are left of one number after each byte.                *)
LEMMA RemainingWritten ==
    ASSUME NEW n \in Nat
    PROVE  Remaining(n) = [i \in 0 .. Width |->
                              IF i = 0 THEN n ELSE Remaining(n)[i - 1] \div Base]
<1> DEFINE f == [x \in Nat |-> x \div Base]
<1>1. Base \in Nat /\ Base > 1 /\ Width \in Nat
  BY CommitmentAssumption
<1>2. f \in [Nat -> Nat]
  BY <1>1
<1>3. PICK s \in [0 .. Width -> Nat] : IsIterate(s, f, n, Width)
  BY <1>1, <1>2, IterateExists
<1>4. s = [i \in 0 .. Width |-> IF i = 0 THEN n ELSE s[i - 1] \div Base]
  <2>1. ASSUME NEW i \in 0 .. Width, i # 0
        PROVE  f[s[i - 1]] = s[i - 1] \div Base
    <3>1. i - 1 \in 0 .. Width
      BY <1>1, <2>1
    <3>2. s[i - 1] \in Nat
      BY <3>1
    <3>3. QED
      BY <3>2
  <2> HIDE DEF f
  <2>2. QED
    BY <1>3, <2>1 DEF IsIterate
<1>5. QED
  BY <1>4 DEF Remaining

(* A span is a number.                                                     *)
LEMMA SpanNat ==
    ASSUME NEW i \in 0 .. Width
    PROVE  Span[i] \in Nat
<1> DEFINE Bad == {k \in Nat : k <= Width /\ Span[k] \notin Nat}
<1>1. Base \in Nat /\ Width \in Nat
  BY CommitmentAssumption
<1>2. SUFFICES ASSUME Bad # {} PROVE FALSE
  BY <1>1
<1>3. PICK k \in Bad : \A j \in Bad : k <= j
  <2>1. Bad \subseteq Nat
    OBVIOUS
  <2> HIDE DEF Bad
  <2>2. QED
    BY <1>2, <2>1, LeastNatural
<1>4. k \in 0 .. Width /\ Span[k] \notin Nat
  BY <1>1, <1>3
<1>5. CASE k = 0
  BY <1>4, <1>5, SpanWritten
<1>6. CASE k # 0
  <2>1. k - 1 \in 0 .. Width /\ k - 1 \notin Bad
    BY <1>1, <1>3, <1>4, <1>6
  <2>2. Span[k - 1] \in Nat
    BY <1>1, <2>1
  <2>3. Span[k] = Base * Span[k - 1]
    BY <1>4, <1>6, SpanWritten
  <2>4. QED
    BY <1>1, <1>4, <2>2, <2>3
<1>7. QED
  BY <1>5, <1>6

(* What is left of a u64 after so many bytes fits the bytes to come.       *)
LEMMA RemainingFits ==
    ASSUME NEW n, IsU64(n), NEW i \in 0 .. Width
    PROVE  /\ Remaining(n)[i] \in Nat
           /\ Remaining(n)[i] < Span[Width - i]
<1> DEFINE left == Remaining(n)
           Fits(k) == left[k] \in Nat /\ left[k] < Span[Width - k]
           Bad == {k \in Nat : k <= Width /\ ~ Fits(k)}
<1>1. Base \in Nat /\ Width \in Nat
  BY CommitmentAssumption
<1>2. n \in Nat /\ n < Span[Width]
  <2>1. Span[Width] \in Nat
    BY <1>1, SpanNat
  <2>2. QED
    BY <2>1 DEF IsU64
<1>3. left = [k \in 0 .. Width |-> IF k = 0 THEN n ELSE left[k - 1] \div Base]
  BY <1>2, RemainingWritten
<1> HIDE DEF left
<1>4. SUFFICES ASSUME Bad # {} PROVE FALSE
  BY <1>1 DEF left
<1>5. PICK k \in Bad : \A j \in Bad : k <= j
  <2>1. Bad \subseteq Nat
    OBVIOUS
  <2> HIDE DEF Bad
  <2>2. QED
    BY <1>4, <2>1, LeastNatural
<1>6. k \in 0 .. Width /\ ~ Fits(k)
  BY <1>1, <1>5
<1>7. CASE k = 0
  <2>1. left[0] = n /\ Width - 0 = Width
    BY <1>1, <1>3
  <2>2. QED
    BY <1>2, <1>6, <1>7, <2>1
<1>8. CASE k # 0
  <2>1. k - 1 \in 0 .. Width /\ k - 1 \notin Bad
    BY <1>1, <1>5, <1>6, <1>8
  <2>2. Fits(k - 1)
    BY <1>1, <2>1
  <2> HIDE DEF Bad
  <2>3. /\ Width - k \in 0 .. Width /\ Width - (k - 1) \in 0 .. Width
        /\ Width - (k - 1) # 0 /\ Width - (k - 1) - 1 = Width - k
    BY <1>1, <1>6, <1>8
  <2>4. PICK p \in Nat : p = Span[Width - k]
    BY <2>3, SpanNat
  <2>5. Span[Width - (k - 1)] = Base * Span[Width - k]
    BY <2>3, SpanWritten
  <2>6. left[k - 1] < Base * p
    BY <2>2, <2>4, <2>5
  <2>7. left[k] = left[k - 1] \div Base
    BY <1>3, <1>6, <1>8
  <2>8. PICK before \in Nat : before = left[k - 1]
    BY <2>2
  <2>9. before \div Base \in Nat /\ before \div Base < p
    BY <2>6, <2>8, ByteShifted
  <2>10. QED
    BY <1>6, <2>4, <2>7, <2>8, <2>9
<1>9. QED
  BY <1>7, <1>8

(* The bytes of a u64 tell it: nothing is left of it after the last one.   *)
LEMMA BytesTell ==
    ASSUME NEW m, NEW n, IsU64(m), IsU64(n), leU64(m) = leU64(n)
    PROVE  m = n
<1> DEFINE a == Remaining(m)
           b == Remaining(n)
           Bad == {k \in Nat : k <= Width /\ a[k] = b[k]}
<1>1. Base \in Nat /\ Base > 1 /\ Width \in Nat
  BY CommitmentAssumption
<1>2. /\ m \in Nat /\ n \in Nat
      /\ a = [i \in 0 .. Width |-> IF i = 0 THEN m ELSE a[i - 1] \div Base]
      /\ b = [i \in 0 .. Width |-> IF i = 0 THEN n ELSE b[i - 1] \div Base]
  <2>1. m \in Nat /\ n \in Nat
    BY DEF IsU64
  <2>2. QED
    BY <2>1, RemainingWritten
<1>3. \A i \in 1 .. Width : a[i - 1] % Base = b[i - 1] % Base
  BY DEF leU64
<1>4. \A i \in 0 .. Width : a[i] \in Nat /\ b[i] \in Nat
  BY RemainingFits
<1>5. a[Width] = b[Width]
  <2>1. /\ a[Width] \in Nat /\ b[Width] \in Nat
        /\ a[Width] < Span[Width - Width] /\ b[Width] < Span[Width - Width]
    BY <1>1, RemainingFits
  <2>2. Span[Width - Width] = 1
    BY <1>1, SpanWritten
  <2> HIDE DEF a, b
  <2>3. QED
    BY <2>1, <2>2
<1> HIDE DEF a, b
<1>6. PICK k \in Bad : \A j \in Bad : k <= j
  <2>1. Bad \subseteq Nat /\ Width \in Bad
    BY <1>1, <1>5
  <2> HIDE DEF Bad
  <2>2. QED
    BY <2>1, LeastNatural
<1>7. k \in 0 .. Width /\ a[k] = b[k]
  BY <1>1, <1>6
<1>8. CASE k = 0
  BY <1>2, <1>7, <1>8
<1>9. CASE k # 0
  <2>1. k - 1 \in 0 .. Width /\ k \in 1 .. Width
    BY <1>1, <1>7, <1>9
  <2>2. a[k - 1] \div Base = b[k - 1] \div Base
    BY <1>2, <1>7, <1>9
  <2>3. a[k - 1] = b[k - 1]
    BY <1>3, <1>4, <2>1, <2>2, ByteAndRest
  <2>4. k - 1 \in Bad
    BY <2>1, <2>3
  <2>5. QED
    BY <1>6, <2>1, <2>4
<1>10. QED
  BY <1>8, <1>9

(* The bytes of a u64 are so many, whatever it is.                         *)
LEMMA BytesAre ==
    ASSUME NEW n, IsU64(n)
    PROVE  leU64(n) \in Seq(Int) /\ Len(leU64(n)) = Width
<1>1. Base \in Nat /\ Base > 1 /\ Width \in Nat
  BY CommitmentAssumption
<1>2. ASSUME NEW i \in 1 .. Width
      PROVE  Remaining(n)[i - 1] % Base \in Int
  <2>1. i - 1 \in 0 .. Width
    BY <1>1
  <2>2. Remaining(n)[i - 1] \in Nat
    BY <2>1, RemainingFits
  <2>3. QED
    BY <1>1, <2>2
<1>3. leU64(n) \in [1 .. Width -> Int]
  BY <1>2 DEF leU64
<1>4. QED
  BY <1>1, <1>3

(* r is s and then t.                                                      *)
IsRow(r, s, t) ==
    /\ Len(r) = Len(s) + Len(t)
    /\ \A i \in 1 .. Len(s) : r[i] = s[i]
    /\ \A i \in 1 .. Len(t) : r[Len(s) + i] = t[i]

(* Sequences that are joined are in a row.                                 *)
LEMMA JoinedInRow ==
    ASSUME NEW S, NEW s \in Seq(S), NEW t \in Seq(S)
    PROVE  s \o t \in Seq(S) /\ IsRow(s \o t, s, t)
  BY DEF IsRow

(* A row tells the sequences it is made of, if it is known where the first *)
(* or, as the length of the second tells that, the second one ends.        *)
LEMMA RowTells ==
    ASSUME NEW S, NEW s \in Seq(S), NEW t \in Seq(S),
           NEW u \in Seq(S), NEW v \in Seq(S), NEW r,
           IsRow(r, s, t), IsRow(r, u, v),
           Len(s) = Len(u) \/ Len(t) = Len(v)
    PROVE  s = u /\ t = v
<1>1. Len(s) \in Nat /\ Len(t) \in Nat /\ Len(u) \in Nat /\ Len(v) \in Nat
  OBVIOUS
<1>2. Len(s) = Len(u) /\ Len(t) = Len(v)
  BY <1>1 DEF IsRow
<1>3. \A i \in 1 .. Len(s) : s[i] = u[i]
  BY <1>2 DEF IsRow
<1>4. \A i \in 1 .. Len(t) : t[i] = v[i]
  BY <1>2 DEF IsRow
<1>5. s = u
  BY <1>2, <1>3
<1>6. t = v
  BY <1>2, <1>4
<1>7. QED
  BY <1>5, <1>6

(* The preimage of a commitment tells the call: two digests come first and *)
(* so many bytes last, whatever the length of the model's id between them. *)
LEMMA PreimageTells ==
    ASSUME NEW h, NEW i, NEW s \in Seq(0 .. Base - 1), NEW m, IsU64(m),
           NEW j, NEW k, NEW t \in Seq(0 .. Base - 1), NEW n, IsU64(n),
           commitmentFromHashes(h, i, s, m) = commitmentFromHashes(j, k, t, n)
    PROVE  h = j /\ i = k /\ s = t /\ m = n
<1> DEFINE S == Int \cup {h, i, j, k}
<1>1. Base \in Nat /\ Width \in Nat
  BY CommitmentAssumption
<1>2. /\ <<h, i>> \in Seq(S) /\ <<j, k>> \in Seq(S)
      /\ Len(<<h, i>>) = 2 /\ Len(<<j, k>>) = 2
  OBVIOUS
<1>3. PICK x \in Seq(S) : x = leU64(m) /\ Len(x) = Width
  <2>1. leU64(m) \in Seq(Int) /\ Len(leU64(m)) = Width
    BY BytesAre
  <2>2. leU64(m) \in Seq(S)
    BY <2>1
  <2>3. QED
    BY <2>1, <2>2
<1>4. PICK y \in Seq(S) : y = leU64(n) /\ Len(y) = Width
  <2>1. leU64(n) \in Seq(Int) /\ Len(leU64(n)) = Width
    BY BytesAre
  <2>2. leU64(n) \in Seq(S)
    BY <2>1
  <2>3. QED
    BY <2>1, <2>2
<1>5. s \in Seq(S) /\ t \in Seq(S)
  BY <1>1
<1> HIDE DEF S
<1>6. PICK a \in Seq(S) : a = <<h, i>> \o s /\ IsRow(a, <<h, i>>, s)
  BY <1>2, <1>5, JoinedInRow
<1>7. PICK b \in Seq(S) : b = <<j, k>> \o t /\ IsRow(b, <<j, k>>, t)
  BY <1>2, <1>5, JoinedInRow
<1>8. PICK r : IsRow(r, a, x) /\ IsRow(r, b, y)
  <2>1. a \o x = commitmentFromHashes(h, i, s, m)
    BY <1>3, <1>6 DEF commitmentFromHashes
  <2>2. b \o y = commitmentFromHashes(j, k, t, n)
    BY <1>4, <1>7 DEF commitmentFromHashes
  <2>3. IsRow(a \o x, a, x)
    BY JoinedInRow
  <2>4. IsRow(b \o y, b, y)
    BY JoinedInRow
  <2>5. a \o x = b \o y
    BY <2>1, <2>2
  <2>6. QED
    BY <2>3, <2>4, <2>5
<1>9. a = b /\ x = y
  BY <1>3, <1>4, <1>8, RowTells
<1>10. <<h, i>> = <<j, k>> /\ s = t
  <2>1. IsRow(a, <<j, k>>, t)
    BY <1>7, <1>9
  <2>2. QED
    BY <1>2, <1>5, <1>6, <2>1, RowTells
<1>11. m = n
  BY <1>3, <1>4, <1>9, BytesTell
<1>12. QED
  BY <1>10, <1>11

(* What is compared has commitments that tell the calls.                   *)
LEMMA CommitmentTells == ComparedOK => CommitmentFaithful
<1> SUFFICES ASSUME NEW a \in Calls, NEW b \in Calls, Committable(a),
                    Committable(b), compared = <<a, b>>
             PROVE  CommitmentFaithful
  <2>1. compared = <<>> => CommitmentFaithful
    BY DEF CommitmentFaithful
  <2>2. QED
    BY <2>1 DEF ComparedOK
<1>1. /\ {a.input, a.output, b.input, b.output} \subseteq Json
      /\ a.modelId \in Seq(0 .. Base - 1) /\ b.modelId \in Seq(0 .. Base - 1)
  BY CommitmentAssumption
<1>2. IsU64(a.timestamp) /\ IsU64(b.timestamp)
  BY DEF Committable
<1>3. /\ hashPayload(a.input) = hashPayload(b.input)
            <=> SameValue(a.input, b.input)
      /\ hashPayload(a.output) = hashPayload(b.output)
            <=> SameValue(a.output, b.output)
  BY <1>1, TextsTell DEF TextTells, hashPayload, canonicalize
<1>4. computeCommitment(a) = computeCommitment(b) =>
         /\ hashPayload(a.input) = hashPayload(b.input)
         /\ hashPayload(a.output) = hashPayload(b.output)
         /\ a.modelId = b.modelId /\ a.timestamp = b.timestamp
  BY <1>1, <1>2, PreimageTells DEF computeCommitment
<1>5. ASSUME hashPayload(a.input) = hashPayload(b.input),
             hashPayload(a.output) = hashPayload(b.output),
             a.modelId = b.modelId, a.timestamp = b.timestamp
      PROVE  computeCommitment(a) = computeCommitment(b)
  BY <1>5 DEF computeCommitment
<1>6. compared[1] = a /\ compared[2] = b
  OBVIOUS
<1>7. QED
  BY <1>3, <1>4, <1>5, <1>6 DEF CommitmentFaithful

(* Two calls have one commitment exactly if they are the same call, of the *)
(* same model at the same time, whatever bytes the id of the model has,    *)
(* however wide a time is and however deep the values nest, but for the    *)
(* members named __proto__ that canonicalize loses.                        *)
THEOREM CommitmentsFaithful == ServicesSpec => []CommitmentFaithful
<1>1. ServInv => CommitmentFaithful
  BY CommitmentTells DEF ServInv
<1>2. QED
  BY <1>1, ServicesInvariant, PTL
-----------------------------------------------------------------------------
(* What the scripts tell, of a process with a registry of its own.         *)

Mine == tasks[TheSlot]

Pending == Mine.stage = "returned" /\ Mine.answer = "attested"
Challenging == Mine.stage = "returned" /\ Mine.answer = "challenged"

(* What a script has made of records by the step it is at.                 *)
Made ==
    IF Seeding
    THEN IF script.at <= N + 1 THEN script.at - 1
         ELSE IF script.at = N + 2 THEN N ELSE N + 1
    ELSE IF script.at = 1 THEN 0 ELSE 1

Count == IF Pending THEN Made + 1 ELSE Made

MadeOK ==
    /\ script.ids = [i \in 1 .. Made |-> i - 1]
    /\ Published = 0 .. Count - 1

(* The second record is challenged, then slashed, and no other.            *)
StatusOf(id) ==
    IF ~Seeding \/ id # 1 \/ script.at < N + 6 \/ (script.at = N + 6 /\ ~Challenging)
    THEN "Active"
    ELSE IF script.at > N + 7 THEN "Slashed" ELSE "Challenged"

StatusOK == \A id \in Published : records[id].status = StatusOf(id)

(* With a bucket a script ends before the second record is touched; only   *)
(* the agent, whose stake was refused, breaks off without one.             *)
EndOK ==
    /\ script.end = "done" => script.at = Len(Program) + 1
    /\ script.end \in {"failed", "crashed"} => Bucket \/ (~Seeding /\ script.at = 1)
    /\ Seeding /\ Bucket =>
          /\ script.at <= N + 5
          /\ script.at = N + 5 => Mine.stage = "free"

Told ==
    IF Seeding
    THEN IF script.at <= N + 1 THEN <<>>
         ELSE IF script.at <= N + 5 THEN <<"PASS">> ELSE <<"PASS", "FAIL">>
    ELSE IF script.at <= 2 THEN <<>> ELSE <<"PASS">>

(* The second record's payload has been tampered with.                     *)
Tampering ==
    Seeding /\ (script.at > N + 5 \/ (script.at = N + 5 /\ Mine.stage # "free"))

SpoiledOK ==
    IF Tampering
    THEN \E key \in Keys : /\ key = contentKey(records[1].commitment)
                           /\ spoiled = {key} /\ objects[key] = Tampered
    ELSE spoiled = {}

(* The task of each step comes to what its step expects of it.             *)
Expected ==
    CASE Step.what = "attest" -> "attested"
      [] Step.what = "verify" -> "PASS"
      [] Step.what = "get" -> "attestation"
      [] Step.what = "corrupt" -> "FAIL"
      [] OTHER -> "challenged"

(* The one submission of the agent, whose stake may be refused.            *)
AtSubmission == ~Seeding /\ script.at = 1
Refusals == {"INSUFFICIENT_STAKE", "INTERNAL_ERROR"}

AnswerOK ==
    Mine.stage \in {"reputation", "returned"} =>
       \/ Mine.answer = Expected
       \/ AtSubmission /\ Mine.answer \in Refusals

Alone == Program # <<>> /\ ~Live

TellInv ==
    Alone =>
        /\ MadeOK /\ StatusOK /\ EndOK
        /\ ~Bucket => script.told = Told /\ SpoiledOK /\ AnswerOK

(* The script's slot is a slot.                                            *)
LEMMA TheSlotIs == TheSlot \in Slots
BY SlotsAssumption DEF TheSlot

(* The task of a script is the one its step calls for.                     *)
LEMMA MineServes ==
    ASSUME DataInv, TasksReady, ScriptOK, Program # <<>>,
           Mine.stage # "free"
    PROVE  /\ Mine.by = "script" /\ Running /\ Serves(Mine)
           /\ script.at \in 1 .. Len(Program)
           /\ Ready(Mine)
<1>1. TheSlot \in Slots
  BY TheSlotIs
<1>2. Mine.by = "script" /\ Running /\ Serves(Mine)
  BY <1>1 DEF ScriptOK, ScriptAlone, Mine
<1>3. script.at \in 1 .. Len(Program)
  BY <1>2, ProgramLength DEF DataInv, Running, ScriptOK, ScriptTyped
<1>4. QED
  BY <1>1, <1>2, <1>3 DEF TasksReady, Mine

(* Where a script stands, by what its step does.                           *)
LEMMA MadeIs ==
    ASSUME deployed \in DOMAIN Environments, script.at \in 1 .. Len(Program)
    PROVE  /\ N \in Nat /\ N >= 2 /\ Made \in Nat /\ script.at \in Nat
           /\ Step.what = "attest" =>
                 ~Seeding \/ script.at < N + 5
           /\ Step.what = "verify" => Step.nth = 1 /\ Made >= 1
                                       /\ (Seeding => script.at = N + 1)
           /\ Step.what = "get" => Step.nth = 2 /\ Made >= 2
           /\ Step.what \in {"get", "corrupt", "challenge", "resolve"} =>
                 Seeding /\ Step.nth = 2 /\ Made = N + 1
           /\ Step.what = "get" => script.at = N + 4
           /\ Step.what = "corrupt" <=> Seeding /\ script.at = N + 5
           /\ Step.what = "challenge" <=> Seeding /\ script.at = N + 6
           /\ Step.what = "resolve" => script.at = N + 7 /\ Len(Program) = N + 7
           /\ Step.what \in {"attest", "verify", "get", "insure"} =>
                 ~Seeding \/ script.at < N + 5
<1>1. N \in Nat /\ N >= 2
  BY SeedSteps
<1>2. PICK at : at = script.at
  OBVIOUS
<1>3. CASE Seeding
  <2>1. \/ at \in 1 .. N /\ Step.what = "attest"
        \/ at = N + 1 /\ Step.what = "verify" /\ Step.nth = 1
        \/ at = N + 2 /\ Step.what = "attest"
        \/ at = N + 3 /\ Step.what = "insure"
        \/ at = N + 4 /\ Step.what = "get" /\ Step.nth = 2
        \/ at = N + 5 /\ Step.what = "corrupt" /\ Step.nth = 2
        \/ at = N + 6 /\ Step.what = "challenge" /\ Step.nth = 2
        \/ at = N + 7 /\ Step.what = "resolve" /\ Step.nth = 2
    BY <1>2, <1>3, StepAt
  <2>2. Len(Program) = N + 7
    BY <1>3, StepAt
  <2>3. Made = IF at <= N + 1 THEN at - 1 ELSE IF at = N + 2 THEN N ELSE N + 1
    BY <1>2, <1>3 DEF Made
  <2>4. QED
    BY <1>1, <1>2, <1>3, <2>1, <2>2, <2>3
<1>4. CASE ~Seeding
  <2>1. \/ at = 1 /\ Step.what = "attest"
        \/ at = 2 /\ Step.what = "verify" /\ Step.nth = 1
    BY <1>2, <1>4, StepAt
  <2>2. Made = IF at = 1 THEN 0 ELSE 1
    BY <1>2, <1>4 DEF Made
  <2>3. QED
    BY <1>1, <1>2, <1>4, <2>1, <2>2
<1>5. QED
  BY <1>3, <1>4

(* A script stands still, or its task is on its way.                       *)
LEMMA TellOn ==
    ASSUME TellInv, UNCHANGED <<records, script, deployed>>,
           Alone => /\ Pending' <=> Pending
                    /\ Challenging' <=> Challenging,
           Alone /\ Seeding /\ Bucket /\ script.at = N + 5 =>
              tasks'[TheSlot].stage = "free",
           Alone /\ ~Bucket =>
              /\ Tampering' <=> Tampering
              /\ spoiled' = spoiled /\ (Tampering => objects' = objects)
              /\ AnswerOK'
    PROVE  TellInv'
<1> SUFFICES ASSUME Alone'
             PROVE  /\ MadeOK' /\ StatusOK' /\ EndOK'
                    /\ ~Bucket' => script'.told = Told' /\ SpoiledOK' /\ AnswerOK'
  BY DEF TellInv
<1>1. /\ here' = here /\ Program' = Program /\ Step' = Step
      /\ Seeding' = Seeding
  BY ScriptSame
<1>2. Alone /\ (Bucket' <=> Bucket)
  BY <1>1 DEF Alone, Live, Bucket
<1>3. MadeOK /\ StatusOK /\ EndOK /\ (~Bucket => script.told = Told /\ SpoiledOK)
  BY <1>2 DEF TellInv
<1>4. script' = script /\ records' = records /\ Published' = Published
  BY DEF Published
<1>5. Made' = Made /\ Told' = Told
  BY <1>1, <1>4 DEF Made, Told
<1>6. Count' = Count
  BY <1>2, <1>5 DEF Count
<1>7. MadeOK'
  BY <1>3, <1>4, <1>5, <1>6 DEF MadeOK
<1>8. StatusOK'
  BY <1>1, <1>2, <1>3, <1>4 DEF StatusOK, StatusOf
<1>9. EndOK'
  BY <1>1, <1>2, <1>3, <1>4 DEF EndOK, Mine
<1>10. ASSUME ~Bucket' PROVE script'.told = Told' /\ SpoiledOK' /\ AnswerOK'
  BY <1>2, <1>3, <1>4, <1>5, <1>10 DEF SpoiledOK
<1>11. QED
  BY <1>7, <1>8, <1>9, <1>10

(* Nothing is told of the script by a step that leaves it alone.           *)
LEMMA TellRests ==
    ASSUME TellInv, UNCHANGED <<records, storeVars, tasks, deployed, script>>
    PROVE  TellInv'
<1>1. /\ here' = here /\ Step' = Step /\ Seeding' = Seeding
  BY ScriptSame
<1>2. /\ Pending' <=> Pending
      /\ Challenging' <=> Challenging
      /\ Tampering' <=> Tampering
  BY <1>1 DEF Pending, Challenging, Tampering, Mine
<1>3. Alone /\ Seeding /\ Bucket /\ script.at = N + 5 =>
         tasks'[TheSlot].stage = "free"
  BY DEF TellInv, EndOK, Mine
<1>4. Alone /\ ~Bucket => AnswerOK'
  BY <1>1 DEF TellInv, AnswerOK, Mine, Expected, AtSubmission
<1>5. QED
  BY <1>2, <1>3, <1>4, TellOn DEF storeVars

(* At the start the script has made and been told of nothing.              *)
LEMMA TellInit == ServicesInit => TellInv
<1> SUFFICES ASSUME ServicesInit, Alone PROVE TellInv
  BY DEF TellInv
<1>1. /\ script.at = 1 /\ script.ids = <<>> /\ script.told = <<>>
      /\ script.end = "running" /\ spoiled = {} /\ Published = {}
  BY DEF ServicesInit, ScriptIdle, LifecycleInit, Published
<1>2. Mine.stage = "free"
  BY TheSlotIs, FreeIs DEF ServicesInit, Mine
<1>3. N \in Nat /\ N >= 2
  BY SeedSteps
<1>4. Made = 0 /\ Count = 0
  BY <1>1, <1>2, <1>3 DEF Made, Count, Pending
<1>5. MadeOK
  <2>1. <<>> = [i \in 1 .. 0 |-> i - 1]
    OBVIOUS
  <2>2. QED
    BY <1>1, <1>4, <2>1 DEF MadeOK
<1>6. StatusOK /\ EndOK
  BY <1>1, <1>2, <1>3 DEF StatusOK, EndOK
<1>7. script.told = Told /\ SpoiledOK /\ AnswerOK
  BY <1>1, <1>2, <1>3 DEF Told, SpoiledOK, AnswerOK, Tampering
<1>8. QED
  BY <1>5, <1>6, <1>7 DEF TellInv

(* A script's task on its way to what is expected of it.                   *)
LEMMA TellMoves ==
    ASSUME TellInv, Alone, UNCHANGED <<records, script, deployed>>,
           Mine.stage \notin {"free", "returned"},
           tasks'[TheSlot].stage # "free",
           tasks'[TheSlot].answer \notin {"attested", "challenged"},
           ~Bucket => /\ tasks'[TheSlot].stage \in {"reputation", "returned"} =>
                            \/ tasks'[TheSlot].answer = Expected
                            \/ /\ AtSubmission
                               /\ tasks'[TheSlot].answer \in Refusals
                      /\ spoiled' = spoiled /\ (Tampering => objects' = objects)
    PROVE  TellInv'
<1>1. /\ here' = here /\ Step' = Step /\ Seeding' = Seeding
  BY ScriptSame
<1>2. /\ Pending' <=> Pending
      /\ Challenging' <=> Challenging
      /\ Tampering' <=> Tampering
  BY <1>1 DEF Pending, Challenging, Tampering, Mine
<1>3. ~(Seeding /\ Bucket /\ script.at = N + 5)
  BY DEF TellInv, EndOK
<1>4. ~Bucket => AnswerOK'
  BY <1>1 DEF AnswerOK, Mine, Expected, AtSubmission, Refusals
<1>5. QED
  BY <1>2, <1>3, <1>4, TellOn

(* A task returns what its step expects of it.                             *)
LEMMA TellReturns ==
    ASSUME TellInv, TasksReady, Alone, UNCHANGED <<records, storeVars, script, deployed>>,
           Mine.stage \notin {"free", "returned"}, NEW outcome,
           Return(TheSlot, outcome), outcome \notin {"attested", "challenged"},
           ~Bucket => \/ outcome = Expected
                      \/ AtSubmission /\ outcome \in Refusals
    PROVE  TellInv'
<1>1. /\ tasks'[TheSlot].stage = "returned"
      /\ tasks'[TheSlot].answer = outcome
  BY TheSlotIs, ReturnStays
<1>2. QED
  BY <1>1, TellMoves DEF storeVars

(* What a step of a script is about is on record.                          *)
LEMMA IdKnown ==
    ASSUME TellInv, Alone, DataInv, script.at \in 1 .. Len(Program),
           Step.what \in {"verify", "get", "corrupt", "challenge", "resolve"}
    PROVE  /\ Id \in Published /\ Id \in 0 .. 1
           /\ Step.what # "verify" => Id = 1 /\ Id = script.ids[2]
<1>1. /\ script.ids = [i \in 1 .. Made |-> i - 1]
      /\ Published = 0 .. Count - 1
  BY DEF TellInv, MadeOK
<1>2. /\ Made \in Nat /\ N \in Nat /\ N >= 2
      /\ Step.what = "verify" => Step.nth = 1 /\ Made >= 1
      /\ Step.what # "verify" => Step.nth = 2 /\ Made >= 2
  BY MadeIs DEF DataInv
<1>3. Count \in Nat /\ Count >= Made
  BY <1>2 DEF Count
<1>4. CASE Step.what = "verify"
  <2>1. Id = 0
    BY <1>1, <1>2, <1>4 DEF Id
  <2>2. QED
    BY <1>1, <1>2, <1>3, <1>4, <2>1
<1>5. CASE Step.what # "verify"
  <2>1. Id = 1 /\ script.ids[2] = 1
    BY <1>1, <1>2, <1>5 DEF Id
  <2>2. QED
    BY <1>1, <1>2, <1>3, <1>5, <2>1
<1>6. QED
  BY <1>4, <1>5

(* The script's task reads the attestation it asked for.                   *)
LEMMA TellReadAttestation ==
    ASSUME TellInv, Alone, DataInv, TasksReady, ScriptOK, UNCHANGED script,
           ReadAttestation(TheSlot)
    PROVE  TellInv'
<1>1. /\ Mine.stage = "attestation" /\ UNCHANGED <<records, storeVars, deployed>>
  BY DEF ReadAttestation, At, Mine
<1>2. /\ Serves(Mine) /\ script.at \in 1 .. Len(Program) /\ Ready(Mine)
  BY <1>1, MineServes DEF Alone
<1>3. Mine.job \in {"get", "read", "verify"}
  BY <1>1, <1>2 DEF Ready, Proper
<1>4. /\ \/ Step.what \in {"verify", "corrupt"} /\ Mine.job = "verify"
         \/ Step.what = "get" /\ Mine.job = "get"
      /\ Mine.id = Id
  BY <1>2, <1>3 DEF Serves
<1>5. Mine.id \in Published
  BY <1>2, <1>4, IdKnown
<1>6. \/ Mine.job = "get" /\ Return(TheSlot, "attestation")
      \/ Mine.job # "get" /\ GoOn(TheSlot, "payload")
  BY <1>5 DEF ReadAttestation, Alone, Mine
<1>7. CASE Mine.job = "get" /\ Return(TheSlot, "attestation")
  <2>1. Expected = "attestation"
    BY <1>4, <1>7 DEF Expected
  <2>2. QED
    BY <1>1, <1>7, <2>1, TellReturns
<1>8. CASE GoOn(TheSlot, "payload")
  <2>1. /\ tasks'[TheSlot].stage = "payload"
        /\ tasks'[TheSlot].answer = Mine.answer
    BY <1>8, TheSlotIs, GoOnStays DEF Mine
  <2>2. Mine.answer = "none"
    BY <1>1, <1>2 DEF Ready, Proper, Answered
  <2>3. QED
    BY <1>1, <2>1, <2>2, TellMoves DEF storeVars
<1>9. QED
  BY <1>6, <1>7, <1>8

(* A verification finds what was attested, or what was put in its place.   *)
LEMMA TellReadPayload ==
    ASSUME TellInv, Alone, DataInv, TasksReady, ScriptOK, UNCHANGED script,
           ReadPayload(TheSlot)
    PROVE  TellInv'
<1>1. /\ Mine.stage = "payload" /\ UNCHANGED <<records, storeVars, deployed>>
      /\ Mine.job \in {"read", "verify"} /\ Mine.id \in Published
      /\ Read(TheSlot)
  BY TheSlotIs, ReadPayloadReads DEF Mine
<1>2. /\ Serves(Mine) /\ script.at \in 1 .. Len(Program) /\ Ready(Mine)
  BY <1>1, MineServes DEF Alone
<1>3. /\ Step.what \in {"verify", "corrupt"} /\ Mine.job = "verify"
      /\ Mine.id = Id
  BY <1>1, <1>2 DEF Serves
<1>4. PICK committed, key : /\ committed = records[Mine.id].commitment
                            /\ key = contentKey(committed)
  OBVIOUS
<1>5. PICK verdict : verdict = IF valid(objects[key], committed) THEN "PASS"
                               ELSE "FAIL"
  OBVIOUS
<1>6. \/ /\ Bucket \/ getJsonThrows(key)
         /\ Return(TheSlot, "INTERNAL_ERROR")
      \/ /\ ~getJsonThrows(key) /\ ~Hashable(objects[key])
         /\ Return(TheSlot, "INTERNAL_ERROR")
      \/ tasks' = [tasks EXCEPT ![TheSlot].stage = "reputation",
                                ![TheSlot].answer = verdict]
  BY <1>1, <1>3, <1>4, <1>5 DEF Read, Mine
<1>7. ~Bucket => /\ ~getJsonThrows(key) /\ Hashable(objects[key])
                 /\ verdict = Expected
  <2> SUFFICES ASSUME ~Bucket
               PROVE  /\ ~getJsonThrows(key) /\ Hashable(objects[key])
                      /\ verdict = Expected
    OBVIOUS
  <2>1. ~Live /\ SpoiledOK
    BY DEF Alone, TellInv
  <2>2. committed \in Payloads
    BY <1>1, <1>4, ObjectFound
  <2>3. CASE Step.what = "verify"
    <3>1. ~Tampering
      <4>1. Seeding => script.at = N + 1 /\ N \in Nat
        BY <1>2, <2>3, MadeIs DEF DataInv
      <4>2. QED
        BY <4>1 DEF Tampering
    <3>2. key \notin spoiled
      BY <2>1, <3>1 DEF SpoiledOK
    <3>3. /\ ~getJsonThrows(key) /\ Hashable(objects[key])
          /\ valid(objects[key], committed)
      BY <1>1, <1>4, <2>1, <3>2, ObjectFound
    <3>4. Expected = "PASS"
      BY <2>3 DEF Expected
    <3>5. QED
      BY <1>5, <3>3, <3>4
  <2>4. CASE Step.what = "corrupt"
    <3>1. Tampering
      BY <1>1, <1>2, <2>4, MadeIs DEF DataInv, Tampering
    <3>2. Mine.id = 1
      BY <1>2, <1>3, <2>4, IdKnown
    <3>3. objects[key] = Tampered
      BY <1>4, <2>1, <3>1, <3>2 DEF SpoiledOK
    <3>4. /\ Tampered \notin {Absent, Garbled} /\ Hashable(Tampered)
          /\ outputHash[Tampered] # outputHash[committed]
      BY <2>2, ScriptsAssumption, StoreAssumption
    <3>5. verdict = "FAIL"
      BY <1>5, <3>3, <3>4 DEF valid, verifyOutputHash
    <3>6. Expected = "FAIL"
      BY <2>4 DEF Expected
    <3>7. QED
      BY <3>3, <3>4, <3>5, <3>6 DEF getJsonThrows, getBytesThrows
  <2>5. QED
    BY <1>3, <2>3, <2>4
<1>8. CASE Bucket /\ Return(TheSlot, "INTERNAL_ERROR")
  BY <1>1, <1>8, TellReturns
<1>9. CASE tasks' = [tasks EXCEPT ![TheSlot].stage = "reputation",
                                  ![TheSlot].answer = verdict]
  <2>1. IsTask(tasks[TheSlot]) /\ DOMAIN tasks = Slots
    BY TheSlotIs DEF TasksReady, Ready
  <2>2. Became(TheSlot, Now(tasks[TheSlot], "reputation", tasks[TheSlot].attempt, verdict))
    BY <1>9, <2>1, TheSlotIs, VerdictNow
  <2>3. tasks'[TheSlot] = Now(tasks[TheSlot], "reputation", tasks[TheSlot].attempt, verdict)
    BY <2>1, <2>2, TheSlotIs DEF Became
  <2>4. tasks'[TheSlot].stage = "reputation" /\ tasks'[TheSlot].answer = verdict
    BY <2>3 DEF Now
  <2>5. verdict \in {"PASS", "FAIL"}
    BY <1>5
  <2>6. QED
    BY <1>1, <1>7, <2>4, <2>5, TellMoves DEF storeVars
<1>10. QED
  BY <1>6, <1>7, <1>8, <1>9

(* The script's task reads the attestor's reputation.                      *)
LEMMA TellReadReputation ==
    ASSUME TellInv, Alone, DataInv, TasksReady, ScriptOK, UNCHANGED script,
           ReadReputation(TheSlot)
    PROVE  TellInv'
<1>1. /\ Mine.stage = "reputation" /\ UNCHANGED <<records, storeVars, deployed>>
      /\ Return(TheSlot, Mine.answer)
  BY DEF ReadReputation, At, Mine, Alone
<1>2. Ready(Mine)
  BY TheSlotIs DEF TasksReady, Mine
<1>3. Mine.answer \in {"PASS", "FAIL"}
  BY <1>1, <1>2 DEF Ready, Proper
<1>4. ~Bucket => Mine.answer = Expected
  BY <1>1, <1>3 DEF TellInv, AnswerOK, Refusals
<1>5. QED
  BY <1>1, <1>3, <1>4, TellReturns

(* The script's task stores the payload of its record.                     *)
LEMMA TellPutPayload ==
    ASSUME TellInv, Alone, DataInv, TasksReady, ScriptOK, UNCHANGED script,
           PutPayload(TheSlot)
    PROVE  TellInv'
<1>1. Mine.stage = "put" /\ UNCHANGED <<records, deployed>>
  BY DEF PutPayload, At, Mine
<1>2. /\ Serves(Mine) /\ script.at \in 1 .. Len(Program) /\ Ready(Mine)
      /\ Mine.by = "script"
  BY <1>1, MineServes DEF Alone
<1>3. Mine.job = "attest" /\ Mine.answer = "none"
  BY <1>1, <1>2 DEF Ready, Proper, Answered
<1>4. Step.what = "attest"
  BY <1>2, <1>3 DEF Serves
<1>5. ~Tampering
  <2>1. Seeding => script.at < N + 5 /\ N \in Nat /\ script.at \in Nat
    BY <1>2, <1>4, MadeIs DEF DataInv
  <2>2. QED
    BY <2>1 DEF Tampering
<1>6. \/ spoiled' = spoiled /\ GoOn(TheSlot, "submit")
      \/ Bucket /\ Return(TheSlot, "INTERNAL_ERROR") /\ UNCHANGED storeVars
  BY <1>2 DEF PutPayload, Put, Mine
<1>7. CASE spoiled' = spoiled /\ GoOn(TheSlot, "submit")
  <2>1. /\ tasks'[TheSlot].stage = "submit"
        /\ tasks'[TheSlot].answer = Mine.answer
    BY <1>7, TheSlotIs, GoOnStays DEF Mine
  <2>2. QED
    BY <1>1, <1>3, <1>5, <1>7, <2>1, TellMoves
<1>8. CASE Bucket /\ Return(TheSlot, "INTERNAL_ERROR") /\ UNCHANGED storeVars
  BY <1>1, <1>8, TellReturns
<1>9. QED
  BY <1>6, <1>7, <1>8

(* What a script attests is the next record, not counted as made before it *)
(* has been told the id.                                                   *)
LEMMA TellAttested ==
    ASSUME TellInv, Alone, DataInv, TasksReady, ScriptOK, UNCHANGED script,
           Mine.stage = "submit", UNCHANGED <<storeVars, deployed>>,
           NEW a \in Attestors, NEW m \in ModelIds,
           Publish(a, m, Mine.payload), Return(TheSlot, "attested")
    PROVE  TellInv'
<1>1. Mine.stage = "submit" /\ UNCHANGED <<storeVars, deployed>>
  OBVIOUS
<1>2. /\ Serves(Mine) /\ script.at \in 1 .. Len(Program) /\ Ready(Mine)
      /\ Mine.by = "script"
  BY <1>1, MineServes DEF Alone
<1>3. Mine.job = "attest"
  BY <1>1, <1>2 DEF Ready, Proper
<1>4. Step.what = "attest"
  BY <1>2, <1>3 DEF Serves
<1>5. /\ Made \in Nat /\ N \in Nat /\ script.at \in Nat
      /\ Seeding => script.at < N + 5
  BY <1>2, <1>4, MadeIs DEF DataInv
<1>6. /\ tasks'[TheSlot].stage = "returned"
      /\ tasks'[TheSlot].answer = "attested"
  BY TheSlotIs, ReturnStays
<1>7. /\ here' = here /\ Program' = Program /\ Step' = Step
      /\ Seeding' = Seeding
  BY <1>1, ScriptSame
<1>8. MadeOK /\ StatusOK /\ EndOK
      /\ (~Bucket => script.told = Told /\ SpoiledOK)
  BY DEF TellInv
<1>9. Made' = Made /\ Told' = Told /\ (Alone' <=> Alone) /\ (Bucket' <=> Bucket)
  BY <1>7 DEF Made, Told, Alone, Live, Bucket
<1>10. ~Pending /\ Pending' /\ ~Challenging /\ ~Challenging'
  BY <1>1, <1>6 DEF Pending, Challenging, Mine
<1>11. Count = Made /\ Count' = Made + 1
  BY <1>9, <1>10 DEF Count
<1>12. MaxAttestations \in Nat
  BY DeploymentsAssumption
<1>13. PICK id \in 0 .. MaxAttestations - 1 :
         /\ Published = 0 .. id - 1
         /\ records' =
              [i \in 0 .. id |->
                 IF i < id THEN records[i]
                 ELSE [attestor |-> a, model_id |-> m,
                       commitment |-> Mine.payload, status |-> "Active"]]
  BY DEF Publish
<1>14. id = Made
  <2>1. 0 .. id - 1 = 0 .. Made - 1 /\ id \in Nat
    BY <1>8, <1>11, <1>12, <1>13 DEF MadeOK
  <2>2. CASE id < Made
    <3>1. id \in 0 .. Made - 1 /\ id \notin 0 .. id - 1
      BY <1>5, <2>1, <2>2
    <3>2. QED
      BY <2>1, <3>1
  <2>3. CASE Made < id
    <3>1. Made \in 0 .. id - 1 /\ Made \notin 0 .. Made - 1
      BY <1>5, <2>1, <2>3
    <3>2. QED
      BY <2>1, <3>1
  <2>4. QED
    BY <1>5, <2>1, <2>2, <2>3
<1>15. MadeOK'
  <2>1. Published' = 0 .. Made
    BY <1>13, <1>14 DEF Published
  <2>2. QED
    BY <1>5, <1>8, <1>9, <1>11, <2>1 DEF MadeOK
<1>16. StatusOK'
  <2> SUFFICES ASSUME NEW i \in Published'
               PROVE  records'[i].status = StatusOf(i)'
    BY DEF StatusOK
  <2>1. StatusOf(i) = "Active" /\ StatusOf(i)' = "Active"
    BY <1>5, <1>7 DEF StatusOf
  <2>2. i \in 0 .. id
    BY <1>13 DEF Published
  <2>3. CASE i < id
    <3>1. i \in Published
      BY <1>13, <2>2, <2>3
    <3>2. records'[i] = records[i]
      BY <1>13, <2>2, <2>3
    <3>3. QED
      BY <1>8, <2>1, <3>1, <3>2 DEF StatusOK
  <2>4. CASE ~(i < id)
    BY <1>13, <2>1, <2>2, <2>4
  <2>5. QED
    BY <2>3, <2>4
<1>17. EndOK'
  <2>1. ~(Seeding /\ script.at = N + 5)
    BY <1>5
  <2>2. QED
    BY <1>7, <1>8, <1>9, <2>1 DEF EndOK
<1>18. ~Bucket => SpoiledOK'
  <2>1. ~Tampering /\ ~Tampering'
    BY <1>5, <1>7 DEF Tampering
  <2>2. QED
    BY <1>1, <1>8, <2>1 DEF SpoiledOK, storeVars
<1>19. AnswerOK'
  BY <1>4, <1>6, <1>7 DEF AnswerOK, Expected, Mine
<1>20. QED
  BY <1>8, <1>9, <1>15, <1>16, <1>17, <1>18, <1>19 DEF TellInv

(* A seeding's submission is made; the agent's may be refused.             *)
LEMMA TellSubmit ==
    ASSUME TellInv, Alone, DataInv, TasksReady, ScriptOK, UNCHANGED script,
           Submit(TheSlot)
    PROVE  TellInv'
<1>1. Mine.stage = "submit" /\ UNCHANGED <<storeVars, deployed>>
      /\ SubmitMock(TheSlot)
  BY DEF Submit, SubmitPlaceholder, Alone, At, Mine
<1>2. /\ Serves(Mine) /\ script.at \in 1 .. Len(Program) /\ Ready(Mine)
      /\ Mine.by = "script"
  BY <1>1, MineServes DEF Alone
<1>3. ASSUME NEW a \in Attestors, NEW m \in ModelIds,
             Publish(a, m, Mine.payload), Return(TheSlot, "attested")
      PROVE  TellInv'
  BY <1>1, <1>3, TellAttested
<1>4. ASSUME StakeIsGiven(TheSlot), UNCHANGED records, NEW code \in Refusals,
             Return(TheSlot, code)
      PROVE  TellInv'
  <2>1. "cli" \in here.services
    BY <1>2, <1>4 DEF StakeIsGiven, Mine
  <2>2. ~Seeding
    BY <2>1, ScriptsAssumption DEF Seeding, here, DataInv
  <2>3. script.at = 1
    <3>1. Mine.job = "attest"
      BY <1>1, <1>2 DEF Ready, Proper
    <3>2. Step.what = "attest"
      BY <1>2, <3>1 DEF Serves
    <3>3. QED
      BY <1>2, <2>2, <3>2, StepAt DEF DataInv
  <2>4. code \notin {"attested", "challenged"}
    BY DEF Refusals
  <2>5. AtSubmission
    BY <2>2, <2>3 DEF AtSubmission
  <2>6. QED
    BY <1>1, <1>4, <2>4, <2>5, TellReturns
<1>5. QED
  BY <1>1, <1>3, <1>4 DEF SubmitMock, Mine, Refusals

(* The record challenged was active: it is the second, and is so now.      *)
LEMMA TellChallenge ==
    ASSUME TellInv, Alone, DataInv, TasksReady, ScriptOK, UNCHANGED script,
           Challenge(TheSlot)
    PROVE  TellInv'
<1>1. Mine.stage = "challenge" /\ UNCHANGED <<storeVars, deployed>>
  BY DEF Challenge, At, Mine
<1>2. /\ Serves(Mine) /\ script.at \in 1 .. Len(Program) /\ Ready(Mine)
  BY <1>1, MineServes DEF Alone
<1>3. Mine.job = "challenge"
  BY <1>1, <1>2 DEF Ready, Proper
<1>4. Step.what = "challenge" /\ Mine.id = Id
  BY <1>2, <1>3 DEF Serves
<1>5. /\ Made \in Nat /\ N \in Nat /\ script.at \in Nat
      /\ Seeding /\ script.at = N + 6
  BY <1>2, <1>4, MadeIs DEF DataInv
<1>6. Mine.id = 1 /\ 1 \in Published
  BY <1>2, <1>4, IdKnown
<1>7. MadeOK /\ StatusOK /\ EndOK
      /\ (~Bucket => script.told = Told /\ SpoiledOK)
  BY DEF TellInv
<1>8. ~Challenging /\ ~Pending
  BY <1>1 DEF Challenging, Pending
<1>9. records[1].status = "Active"
  BY <1>5, <1>6, <1>7, <1>8 DEF StatusOK, StatusOf
<1>10. Dispute(1) /\ Return(TheSlot, "challenged")
  BY <1>6, <1>9 DEF Challenge, ChallengePlaceholder, ChallengeMock, Alone, Mine
<1>11. /\ tasks'[TheSlot].stage = "returned"
       /\ tasks'[TheSlot].answer = "challenged"
  BY <1>10, TheSlotIs, ReturnStays
<1>12. /\ here' = here /\ Program' = Program /\ Step' = Step
       /\ Seeding' = Seeding
  BY <1>1, ScriptSame
<1>13. Made' = Made /\ Told' = Told /\ (Alone' <=> Alone) /\ (Bucket' <=> Bucket)
  BY <1>12 DEF Made, Told, Alone, Live, Bucket
<1>14. ~Pending' /\ Challenging'
  BY <1>11 DEF Pending, Challenging, Mine
<1>15. /\ Published' = Published
       /\ records'[1].status = "Challenged"
       /\ records'[1].commitment = records[1].commitment
       /\ \A i \in Published \ {1} : records'[i] = records[i]
  <2>1. records' = [records EXCEPT ![1].status = "Challenged"]
    BY <1>10 DEF Dispute, Advance
  <2>2. \E n \in 0 .. MaxAttestations : records \in [0 .. n - 1 -> OnRecord]
    BY DEF DataInv, RecordsOK
  <2>3. records[1] \in OnRecord
    BY <1>6, <2>2 DEF Published
  <2>4. QED
    BY <1>6, <2>1, <2>3 DEF Published, OnRecord
<1>16. MadeOK'
  <2>1. Count' = Count
    BY <1>8, <1>13, <1>14 DEF Count
  <2>2. QED
    BY <1>7, <1>13, <1>15, <2>1 DEF MadeOK
<1>17. StatusOK'
  <2> SUFFICES ASSUME NEW i \in Published
               PROVE  records'[i].status = StatusOf(i)'
    BY <1>15 DEF StatusOK
  <2>1. CASE i = 1
    BY <1>5, <1>12, <1>14, <1>15, <2>1 DEF StatusOf
  <2>2. CASE i # 1
    BY <1>7, <1>12, <1>15, <2>2 DEF StatusOK, StatusOf
  <2>3. QED
    BY <2>1, <2>2
<1>18. EndOK'
  BY <1>5, <1>7, <1>12, <1>13 DEF EndOK
<1>19. ~Bucket => SpoiledOK'
  <2>1. Tampering /\ Tampering'
    BY <1>5, <1>12 DEF Tampering
  <2>2. QED
    BY <1>1, <1>7, <1>15, <2>1 DEF SpoiledOK, storeVars
<1>20. AnswerOK'
  BY <1>4, <1>11, <1>12 DEF AnswerOK, Expected, Mine
<1>21. QED
  BY <1>7, <1>13, <1>16, <1>17, <1>18, <1>19, <1>20 DEF TellInv

(* Each step of the script's task keeps what the script tells.             *)
LEMMA TellTaskStep ==
    ASSUME TellInv, Alone, DataInv, TasksReady, ScriptOK, UNCHANGED script,
           NEW s \in Slots, TaskStep(s)
    PROVE  TellInv'
<1>1. tasks[s].stage # "free"
  BY DEF TaskStep, ReadAttestation, ReadPayload, ReadReputation, PutPayload,
         Submit, Challenge, At
<1>2. s = TheSlot
  BY <1>1 DEF ScriptOK, ScriptAlone, Alone
<1>3. QED
  BY <1>2, TellReadAttestation, TellReadPayload, TellReadReputation,
     TellPutPayload, TellSubmit, TellChallenge DEF TaskStep

(* A process stays in the environment it was deployed in.                  *)
LEMMA SameEnvironment ==
    ASSUME UNCHANGED deployed
    PROVE  /\ here' = here /\ Program' = Program /\ (Seeding' <=> Seeding)
           /\ (Alone' <=> Alone) /\ (Bucket' <=> Bucket) /\ (Live' <=> Live)
<1>1. here' = here
  BY DEF here
<1>2. Program' = Program /\ (Seeding' <=> Seeding)
  BY <1>1 DEF Program, Seeding
<1>3. QED
  BY <1>1, <1>2 DEF Alone, Live, Bucket

(* A script goes on to its next step with what it was told.                *)
LEMMA TellNext ==
    ASSUME TellInv, Alone, DataInv, TasksReady, ScriptOK,
           script.at \in 1 .. Len(Program), NEW ids, NEW told,
           NextStep(TheSlot, ids, told), UNCHANGED <<storeVars, deployed>>,
           Published' = Published,
           \A i \in Published : records'[i].status = StatusOf(i)',
           Seeding /\ script.at >= N + 5 =>
              records'[1].commitment = records[1].commitment,
           script.ids \o ids = [i \in 1 .. Made' |-> i - 1],
           Published = 0 .. Made' - 1,
           ~Bucket => script.told \o told = Told' /\ (Tampering' <=> Tampering),
           ~(Seeding /\ Bucket /\ script.at >= N + 5)
    PROVE  TellInv'
<1>1. /\ here' = here /\ Program' = Program /\ (Seeding' <=> Seeding)
      /\ (Alone' <=> Alone) /\ (Bucket' <=> Bucket)
  BY SameEnvironment
<1>2. /\ script'.at = script.at + 1
      /\ script'.ids = script.ids \o ids
      /\ script'.told = script.told \o told
      /\ script'.end = IF script.at = Len(Program) THEN "done" ELSE "running"
  <2>1. ScriptTyped
    BY DEF ScriptOK
  <2>2. PICK end : end = IF script.at = Len(Program) THEN "done" ELSE "running"
    OBVIOUS
  <2>3. script' = [at |-> script.at + 1, ids |-> script.ids \o ids,
                   told |-> script.told \o told, end |-> end]
    BY <2>1, <2>2, NextStepNow
  <2>4. QED
    BY <2>2, <2>3
<1>3. tasks'[TheSlot].stage = "free"
  BY TheSlotIs, BeginStays, FreeIs DEF NextStep
<1>4. ~Pending' /\ Count' = Made'
  BY <1>3 DEF Pending, Count, Mine
<1>5. MadeOK'
  BY <1>2, <1>4 DEF MadeOK
<1>6. StatusOK'
  BY DEF StatusOK
<1>7. script.at \in Nat /\ N \in Nat
  BY SeedSteps, ProgramLength DEF DataInv
<1>8. EndOK'
  BY <1>1, <1>2, <1>3, <1>7 DEF EndOK, Mine
<1>9. AnswerOK'
  BY <1>3 DEF AnswerOK, Mine
<1>10. ASSUME ~Bucket PROVE SpoiledOK'
  <2>1. SpoiledOK /\ (Tampering' <=> Tampering)
    BY <1>10 DEF TellInv
  <2>2. CASE Tampering
    <3>1. Seeding /\ script.at >= N + 5
      BY <1>7, <2>2 DEF Tampering
    <3>2. records'[1].commitment = records[1].commitment
      BY <3>1
    <3>3. PICK key \in Keys : /\ key = contentKey(records[1].commitment)
                              /\ spoiled = {key} /\ objects[key] = Tampered
      BY <2>1, <2>2 DEF SpoiledOK
    <3>4. QED
      BY <2>1, <2>2, <3>2, <3>3 DEF SpoiledOK, storeVars
  <2>3. CASE ~Tampering
    BY <2>1, <2>3 DEF SpoiledOK, storeVars
  <2>4. QED
    BY <2>2, <2>3
<1>11. QED
  BY <1>1, <1>2, <1>5, <1>6, <1>8, <1>9, <1>10 DEF TellInv

(* A script that breaks off has a bucket, or is at the agent's submission. *)
LEMMA TellEnds ==
    ASSUME TellInv, Alone, DataInv, TasksReady, ScriptOK,
           Bucket \/ AtSubmission,
           NEW how \in {"failed", "crashed"}, End(how),
           UNCHANGED <<records, storeVars, deployed>>,
           tasks'[TheSlot].stage = "free",
           Mine.stage = "free" \/ Mine.answer \notin {"attested", "challenged"}
    PROVE  TellInv'
<1>1. /\ here' = here /\ Program' = Program /\ (Seeding' <=> Seeding)
      /\ (Alone' <=> Alone) /\ (Bucket' <=> Bucket)
  BY SameEnvironment
<1>2. /\ script'.at = script.at /\ script'.ids = script.ids
      /\ script'.told = script.told /\ script'.end = how
  <2>1. script = [at |-> script.at, ids |-> script.ids, told |-> script.told,
                  end |-> script.end]
    BY DEF ScriptOK, ScriptTyped
  <2>2. PICK c : c = script
    OBVIOUS
  <2>3. [c EXCEPT !.end = how]
          = [at |-> c.at, ids |-> c.ids, told |-> c.told, end |-> how]
    BY <2>1, <2>2
  <2>4. script' = [at |-> c.at, ids |-> c.ids, told |-> c.told, end |-> how]
    BY <2>2, <2>3 DEF End
  <2>5. QED
    BY <2>2, <2>4
<1>3. /\ MadeOK /\ StatusOK /\ EndOK
  BY DEF TellInv
<1>4. ~Pending /\ ~Pending' /\ ~Challenging /\ ~Challenging'
  BY DEF Pending, Challenging, Mine
<1>5. Made' = Made
  BY <1>1, <1>2 DEF Made
<1>6. MadeOK'
  BY <1>2, <1>3, <1>4, <1>5 DEF MadeOK, Count, Published
<1>7. StatusOK'
  <2>1. \A id : StatusOf(id)' = StatusOf(id)
    BY <1>1, <1>2, <1>4 DEF StatusOf
  <2>2. QED
    BY <1>3, <2>1 DEF StatusOK, Published
<1>8. EndOK'
  BY <1>1, <1>2, <1>3 DEF EndOK, Mine, AtSubmission
<1>9. ASSUME ~Bucket PROVE script'.told = Told' /\ SpoiledOK' /\ AnswerOK'
  <2>1. ~Seeding /\ script.at = 1
    BY <1>9 DEF AtSubmission
  <2>2. ~Tampering /\ ~Tampering' /\ Told' = Told
    BY <1>1, <1>2, <2>1 DEF Tampering, Told
  <2>3. script.told = Told /\ SpoiledOK
    BY <1>9 DEF TellInv
  <2>4. QED
    BY <1>2, <2>2, <2>3 DEF SpoiledOK, storeVars, AnswerOK, Mine
<1>10. QED
  BY <1>1, <1>6, <1>7, <1>8, <1>9 DEF TellInv

(* A script's task is begun.                                               *)
LEMMA TellAsks ==
    ASSUME TellInv, Alone, DataInv, TasksReady, ScriptOK, Mine.stage = "free",
           NEW job, NEW stage, NEW id, NEW payload,
           Asks(TheSlot, job, stage, id, payload),
           stage \in {"put", "attestation", "challenge"},
           ~(Seeding /\ script.at = N + 5),
           UNCHANGED <<records, storeVars, deployed, script>>
    PROVE  TellInv'
<1>1. /\ here' = here /\ Step' = Step /\ Seeding' = Seeding
  BY ScriptSame
<1>2. tasks'[TheSlot].stage = stage
  <2>1. tasks'[TheSlot] = Begun("script", job, stage, id, payload, "none", 0, "none")
    BY TheSlotIs, BeginStays, TaskBegun DEF Asks
  <2>2. QED
    BY <2>1 DEF Begun
<1>3. /\ ~Pending /\ ~Pending' /\ ~Challenging /\ ~Challenging'
      /\ Tampering' <=> Tampering
      /\ AnswerOK'
  BY <1>1, <1>2 DEF Pending, Challenging, Tampering, AnswerOK, Mine
<1>4. QED
  BY <1>3, TellOn DEF storeVars

(* A step that makes nothing and is told nothing.                          *)
LEMMA NothingToAdd ==
    ASSUME ScriptOK
    PROVE  script.ids \o <<>> = script.ids /\ script.told \o <<>> = script.told
<1>1. PICK ids, told : /\ ids = script.ids /\ ids \in Seq(Int)
                       /\ told = script.told
                       /\ told \in Seq({"PASS", "FAIL", "error"})
  BY DEF ScriptOK, ScriptTyped
<1>2. ids \o <<>> = ids
  BY <1>1, ConcatEmptySeq
<1>3. told \o <<>> = told
  BY <1>1, ConcatEmptySeq
<1>4. QED
  BY <1>1, <1>2, <1>3

(* What the script is told of after the last step, by where it stands.     *)
LEMMA NextMadeAndTold ==
    ASSUME DataInv, script.at \in 1 .. Len(Program), UNCHANGED deployed,
           script'.at = script.at + 1, tasks'[TheSlot].stage = "free"
    PROVE  /\ Step.what = "attest" => Made' = Made + 1 /\ Told' = Told
           /\ Step.what \in {"insure", "get", "challenge", "resolve"} =>
                 Made' = Made /\ Told' = Told
           /\ Step.what \in {"verify", "corrupt"} => Made' = Made
           /\ Step.what = "verify" => Told = <<>> /\ Told' = <<"PASS">>
           /\ Step.what = "corrupt" =>
                 Told = <<"PASS">> /\ Told' = <<"PASS", "FAIL">>
           /\ Step.what \in {"challenge", "resolve"} => Tampering /\ Tampering'
           /\ Step.what = "corrupt" => Tampering'
           /\ Step.what \in {"attest", "verify", "insure", "get"} =>
                 ~Tampering /\ ~Tampering'
<1>1. Seeding' <=> Seeding
  BY SameEnvironment
<1>2. N \in Nat /\ N >= 2
  BY SeedSteps
<1>3. PICK at : at = script.at
  OBVIOUS
<1>4. CASE Seeding
  <2>1. \/ at \in 1 .. N /\ Step.what = "attest"
        \/ at = N + 1 /\ Step.what = "verify"
        \/ at = N + 2 /\ Step.what = "attest"
        \/ at = N + 3 /\ Step.what = "insure"
        \/ at = N + 4 /\ Step.what = "get"
        \/ at = N + 5 /\ Step.what = "corrupt"
        \/ at = N + 6 /\ Step.what = "challenge"
        \/ at = N + 7 /\ Step.what = "resolve"
    BY <1>3, <1>4, StepAt DEF DataInv
  <2>2. /\ Made = IF at <= N + 1 THEN at - 1 ELSE IF at = N + 2 THEN N ELSE N + 1
        /\ Made' = IF at + 1 <= N + 1 THEN at + 1 - 1
                   ELSE IF at + 1 = N + 2 THEN N ELSE N + 1
    BY <1>1, <1>3, <1>4 DEF Made
  <2>3. /\ Told = IF at <= N + 1 THEN <<>>
                  ELSE IF at <= N + 5 THEN <<"PASS">> ELSE <<"PASS", "FAIL">>
        /\ Told' = IF at + 1 <= N + 1 THEN <<>>
                   ELSE IF at + 1 <= N + 5 THEN <<"PASS">> ELSE <<"PASS", "FAIL">>
    BY <1>1, <1>3, <1>4 DEF Told
  <2>4. /\ Tampering <=> at > N + 5 \/ (at = N + 5 /\ Mine.stage # "free")
        /\ Tampering' <=> at + 1 > N + 5
    BY <1>1, <1>3, <1>4 DEF Tampering, Mine
  <2>5. at \in Nat
    BY <1>2, <2>1
  <2>6. /\ Step.what = "attest" => Made' = Made + 1
        /\ Step.what # "attest" => Made' = Made
    BY <1>2, <2>1, <2>2, <2>5
  <2>7. /\ Step.what = "verify" => Told = <<>> /\ Told' = <<"PASS">>
        /\ Step.what = "corrupt" =>
              Told = <<"PASS">> /\ Told' = <<"PASS", "FAIL">>
        /\ Step.what \notin {"verify", "corrupt"} => Told' = Told
    BY <1>2, <2>1, <2>3, <2>5
  <2>8. /\ Step.what \in {"challenge", "resolve"} => Tampering /\ Tampering'
        /\ Step.what = "corrupt" => Tampering'
        /\ Step.what \in {"attest", "verify", "insure", "get"} =>
              ~Tampering /\ ~Tampering'
    BY <1>2, <2>1, <2>4, <2>5
  <2>9. QED
    BY <2>6, <2>7, <2>8
<1>5. CASE ~Seeding
  <2>1. \/ at = 1 /\ Step.what = "attest"
        \/ at = 2 /\ Step.what = "verify"
    BY <1>3, <1>5, StepAt DEF DataInv
  <2>2. /\ Made = IF at = 1 THEN 0 ELSE 1
        /\ Made' = IF at + 1 = 1 THEN 0 ELSE 1
    BY <1>1, <1>3, <1>5 DEF Made
  <2>3. /\ Told = IF at <= 2 THEN <<>> ELSE <<"PASS">>
        /\ Told' = IF at + 1 <= 2 THEN <<>> ELSE <<"PASS">>
    BY <1>1, <1>3, <1>5 DEF Told
  <2>4. ~Tampering /\ ~Tampering'
    BY <1>1, <1>5 DEF Tampering
  <2>5. QED
    BY <2>1, <2>2, <2>3, <2>4
<1>6. QED
  BY <1>4, <1>5

(* Counting on by one.                                                     *)
LEMMA CountedOn ==
    ASSUME NEW n \in Nat
    PROVE  [i \in 1 .. n |-> i - 1] \o <<n>> = [i \in 1 .. n + 1 |-> i - 1]
<1> DEFINE short == [i \in 1 .. n |-> i - 1]
           long == [i \in 1 .. n + 1 |-> i - 1]
<1>1. short \in Seq(Int) /\ Len(short) = n /\ \A i \in 1 .. n : short[i] = i - 1
  OBVIOUS
<1>2. <<n>> \in Seq(Int) /\ Len(<<n>>) = 1 /\ <<n>>[1] = n
  OBVIOUS
<1>3. long \in Seq(Int) /\ Len(long) = n + 1
      /\ \A i \in 1 .. n + 1 : long[i] = i - 1
  OBVIOUS
<1> HIDE DEF short, long
<1>4. PICK one : one = <<n>>
  OBVIOUS
<1>5. PICK both : both = short \o one
  OBVIOUS
<1>6. /\ both \in Seq(Int) /\ Len(both) = n + 1
      /\ \A i \in 1 .. n + 1 :
           both[i] = IF i <= n THEN short[i] ELSE one[i - n]
  BY <1>1, <1>2, <1>4, <1>5, ConcatProperties
<1>7. ASSUME NEW i \in 1 .. n + 1 PROVE both[i] = long[i]
  <2>1. both[i] = IF i <= n THEN short[i] ELSE one[i - n]
    BY <1>6
  <2>2. long[i] = i - 1
    BY <1>3
  <2>3. CASE i <= n
    <3>1. i \in 1 .. n
      BY <2>3
    <3>2. short[i] = i - 1
      BY <1>1, <3>1
    <3>3. QED
      BY <2>1, <2>2, <2>3, <3>2
  <2>4. CASE i = n + 1
    <3>1. i - n = 1 /\ ~(i <= n)
      BY <2>4
    <3>2. one[i - n] = n
      BY <1>2, <1>4, <3>1
    <3>3. n = i - 1
      BY <2>4
    <3>4. QED
      BY <2>1, <2>2, <3>1, <3>2, <3>3
  <2>5. QED
    BY <2>3, <2>4
<1>8. both = long
  BY <1>3, <1>6, <1>7, SeqEqual
<1>9. QED
  BY <1>4, <1>5, <1>8 DEF short, long

(* A step without a task: the policy bought and claimed on, the verdict of *)
(* the arbiter.                                                            *)
LEMMA TellInsure ==
    ASSUME TellInv, Alone, DataInv, TasksReady, ScriptOK,
           script.at \in 1 .. Len(Program), Mine.stage = "free",
           Step.what = "insure", NextStep(TheSlot, <<>>, <<>>),
           UNCHANGED <<records, storeVars, deployed>>
    PROVE  TellInv'
<1>1. /\ N \in Nat /\ script.at \in Nat /\ (Seeding => script.at < N + 5)
  BY MadeIs DEF DataInv
<1>2. script'.at = script.at + 1 /\ tasks'[TheSlot].stage = "free"
  BY NextStepNow, TheSlotIs, BeginStays, FreeIs DEF NextStep, ScriptOK
<1>3. /\ Made' = Made /\ Told' = Told /\ ~Tampering /\ ~Tampering'
  BY <1>2, NextMadeAndTold
<1>4. MadeOK /\ StatusOK /\ (~Bucket => script.told = Told)
  BY DEF TellInv
<1>5. Count = Made
  BY DEF Count, Pending
<1>6. Seeding' <=> Seeding
  BY SameEnvironment
<1>7. \A i \in Published : records'[i].status = StatusOf(i)'
  <2>1. \A i : StatusOf(i) = "Active" /\ StatusOf(i)' = "Active"
    BY <1>1, <1>2, <1>6 DEF StatusOf, Challenging, Mine
  <2>2. QED
    BY <1>4, <2>1 DEF StatusOK
<1>8. script.ids \o <<>> = [i \in 1 .. Made' |-> i - 1]
  BY <1>3, <1>4, NothingToAdd DEF MadeOK
<1>9. Published = 0 .. Made' - 1 /\ Published' = Published
  BY <1>3, <1>4, <1>5 DEF MadeOK, Published
<1>10. ~Bucket => script.told \o <<>> = Told' /\ (Tampering' <=> Tampering)
  BY <1>3, <1>4, NothingToAdd
<1>11. ~(Seeding /\ script.at >= N + 5)
  BY <1>1
<1>12. QED
  BY <1>7, <1>8, <1>9, <1>10, <1>11, TellNext

(* Resolving the challenge slashes the second record.                      *)
LEMMA TellResolve ==
    ASSUME TellInv, Alone, DataInv, TasksReady, ScriptOK,
           script.at \in 1 .. Len(Program), Mine.stage = "free",
           Step.what = "resolve", ResolveFraudulent(TheSlot),
           UNCHANGED <<storeVars, deployed>>
    PROVE  TellInv'
<1>1. /\ N \in Nat /\ script.at = N + 7 /\ Seeding
  BY MadeIs DEF DataInv
<1>2. Id = 1 /\ 1 \in Published
  BY IdKnown
<1>3. Advance(1, "Challenged", "Slashed") /\ NextStep(TheSlot, <<>>, <<>>)
  BY <1>2 DEF ResolveFraudulent, Alone, Rule
<1>4. script'.at = script.at + 1 /\ tasks'[TheSlot].stage = "free"
  BY <1>3, NextStepNow, TheSlotIs, BeginStays, FreeIs DEF NextStep, ScriptOK
<1>5. /\ Made' = Made /\ Told' = Told /\ Tampering /\ Tampering'
  BY <1>4, NextMadeAndTold
<1>6. MadeOK /\ StatusOK /\ EndOK /\ (~Bucket => script.told = Told)
  BY DEF TellInv
<1>7. Count = Made
  BY DEF Count, Pending
<1>8. Seeding' <=> Seeding
  BY SameEnvironment
<1>9. /\ Published' = Published
      /\ records'[1].status = "Slashed"
      /\ records'[1].commitment = records[1].commitment
      /\ \A i \in Published \ {1} : records'[i] = records[i]
  <2>1. records' = [records EXCEPT ![1].status = "Slashed"]
    BY <1>3 DEF Advance
  <2>2. \E n \in 0 .. MaxAttestations : records \in [0 .. n - 1 -> OnRecord]
    BY DEF DataInv, RecordsOK
  <2>3. records[1] \in OnRecord
    BY <1>2, <2>2 DEF Published
  <2>4. QED
    BY <1>2, <2>1, <2>3 DEF Published, OnRecord
<1>10. \A i \in Published : records'[i].status = StatusOf(i)'
  <2> SUFFICES ASSUME NEW i \in Published
               PROVE  records'[i].status = StatusOf(i)'
    OBVIOUS
  <2>1. CASE i = 1
    BY <1>1, <1>4, <1>8, <1>9, <2>1 DEF StatusOf
  <2>2. CASE i # 1
    BY <1>6, <1>8, <1>9, <2>2 DEF StatusOK, StatusOf
  <2>3. QED
    BY <2>1, <2>2
<1>11. script.ids \o <<>> = [i \in 1 .. Made' |-> i - 1]
  BY <1>5, <1>6, NothingToAdd DEF MadeOK
<1>12. Published = 0 .. Made' - 1
  BY <1>5, <1>6, <1>7 DEF MadeOK
<1>13. ~Bucket => script.told \o <<>> = Told' /\ (Tampering' <=> Tampering)
  BY <1>5, <1>6, NothingToAdd
<1>14. ~(Seeding /\ Bucket /\ script.at >= N + 5)
  BY <1>1, <1>6 DEF EndOK
<1>15. QED
  BY <1>3, <1>9, <1>10, <1>11, <1>12, <1>13, <1>14, TellNext

(* corrupt finds an object to replace, or there is a bucket.               *)
LEMMA TellCorrupt ==
    ASSUME TellInv, Alone, DataInv, TasksReady, ScriptOK,
           script.at \in 1 .. Len(Program), Mine.stage = "free",
           Step.what = "corrupt", CorruptAndVerify(TheSlot),
           UNCHANGED <<records, deployed>>
    PROVE  TellInv'
<1>1. /\ N \in Nat /\ Seeding /\ script.at = N + 5
  BY MadeIs DEF DataInv
<1>2. Id = 1 /\ 1 \in Published
  BY IdKnown
<1>3. PICK committed, key : /\ committed = records[1].commitment
                            /\ key = contentKey(committed)
  OBVIOUS
<1>4. key \in Keys
  BY <1>2, <1>3, ObjectFound
<1>5. MadeOK /\ StatusOK /\ EndOK /\ (~Bucket => script.told = Told /\ SpoiledOK)
  BY DEF TellInv
<1>6. ~Tampering
  BY <1>1 DEF Tampering
<1>7. ASSUME ~Bucket PROVE objects[key] # Absent /\ spoiled = {}
  <2>1. spoiled = {}
    BY <1>5, <1>6, <1>7 DEF SpoiledOK
  <2>2. ~getJsonThrows(key)
    BY <1>2, <1>3, <2>1, ObjectFound DEF Alone
  <2>3. QED
    BY <2>1, <2>2 DEF getJsonThrows, getBytesThrows
<1>8. CASE Bucket
  <2>1. End("crashed") /\ UNCHANGED <<storeVars, tasks>>
    BY <1>2, <1>3, <1>8 DEF CorruptAndVerify
  <2>2. tasks'[TheSlot].stage = "free"
    BY <2>1 DEF Mine
  <2>3. QED
    BY <1>8, <2>1, <2>2, TellEnds
<1>9. CASE ~Bucket
  <2>1. /\ corrupt(key, Tampered) /\ UNCHANGED script
        /\ Asks(TheSlot, "verify", "attestation", 1, Absent)
    BY <1>2, <1>3, <1>7, <1>9 DEF CorruptAndVerify
  <2>2. /\ spoiled' = {key} /\ objects'[key] = Tampered
    BY <1>4, <1>7, <1>9, <2>1 DEF corrupt, tamper, putBytes, DataInv, StoreTypeOK
  <2>3. tasks'[TheSlot].stage = "attestation"
    <3>1. tasks'[TheSlot] = Begun("script", "verify", "attestation", 1, Absent, "none", 0, "none")
      BY <2>1, TheSlotIs, BeginStays, TaskBegun DEF Asks
    <3>2. QED
      BY <3>1 DEF Begun
  <2>4. /\ here' = here /\ Program' = Program /\ (Seeding' <=> Seeding)
        /\ (Alone' <=> Alone) /\ (Bucket' <=> Bucket)
    BY SameEnvironment
  <2>5. ~Pending /\ ~Pending' /\ ~Challenging /\ ~Challenging'
    BY <2>3 DEF Pending, Challenging, Mine
  <2>6. Made' = Made /\ Told' = Told
    BY <2>1, <2>4 DEF Made, Told
  <2>7. MadeOK'
    BY <1>5, <2>1, <2>5, <2>6 DEF MadeOK, Count, Published
  <2>8. StatusOK'
    <3>1. \A i : StatusOf(i)' = StatusOf(i)
      BY <2>1, <2>4, <2>5 DEF StatusOf
    <3>2. QED
      BY <1>5, <3>1 DEF StatusOK, Published
  <2>9. EndOK'
    BY <1>5, <1>9, <2>1, <2>4 DEF EndOK
  <2>10. Tampering'
    BY <1>1, <2>1, <2>3, <2>4 DEF Tampering, Mine
  <2>11. SpoiledOK'
    BY <1>3, <1>4, <2>2, <2>10 DEF SpoiledOK
  <2>12. AnswerOK'
    BY <2>3 DEF AnswerOK, Mine
  <2>13. script'.told = Told'
    BY <1>5, <1>9, <2>1, <2>6
  <2>14. QED
    BY <2>7, <2>8, <2>9, <2>11, <2>12, <2>13 DEF TellInv
<1>10. QED
  BY <1>8, <1>9

(* Each call of the script's keeps what it tells.                          *)
LEMMA TellCalls ==
    ASSUME TellInv, Alone, DataInv, TasksReady, ScriptOK,
           NEW s \in Slots, ScriptCalls(s)
    PROVE  TellInv'
<1>1. /\ Running /\ s = TheSlot /\ Mine.stage = "free"
      /\ UNCHANGED deployed
  BY DEF ScriptCalls, TheSlot, At, Mine
<1>2. script.at \in 1 .. Len(Program)
  BY <1>1, ProgramLength DEF Running, ScriptOK, ScriptTyped, DataInv
<1>3. PICK id, payload : id = Id /\ payload = Step.payload
  OBVIOUS
<1>4. \/ /\ \/ Step.what = "attest" /\ Asks(TheSlot, "attest", "put", 0, payload)
            \/ Step.what = "verify" /\ Asks(TheSlot, "verify", "attestation", id, Absent)
            \/ Step.what = "get" /\ Asks(TheSlot, "get", "attestation", id, Absent)
            \/ /\ Step.what = "challenge"
               /\ Asks(TheSlot, "challenge", "challenge", id, Absent)
         /\ UNCHANGED <<records, storeVars, script>>
      \/ Step.what = "corrupt" /\ CorruptAndVerify(TheSlot) /\ UNCHANGED records
      \/ Step.what = "insure" /\ NextStep(TheSlot, <<>>, <<>>)
         /\ UNCHANGED <<records, storeVars>>
      \/ Step.what = "resolve" /\ ResolveFraudulent(TheSlot) /\ UNCHANGED storeVars
  BY <1>1, <1>3 DEF ScriptCalls
<1>5. ASSUME NEW job, NEW stage \in {"put", "attestation", "challenge"}, NEW to,
             NEW what, Asks(TheSlot, job, stage, to, what),
             Step.what \in {"attest", "verify", "get", "challenge"},
             UNCHANGED <<records, storeVars, script>>
      PROVE  TellInv'
  <2>1. ~(Seeding /\ script.at = N + 5)
    BY <1>2, <1>5, MadeIs DEF DataInv
  <2>2. QED
    BY <1>1, <1>5, <2>1, TellAsks
<1>6. CASE /\ \/ Step.what = "attest" /\ Asks(TheSlot, "attest", "put", 0, payload)
              \/ Step.what = "verify" /\ Asks(TheSlot, "verify", "attestation", id, Absent)
              \/ Step.what = "get" /\ Asks(TheSlot, "get", "attestation", id, Absent)
              \/ /\ Step.what = "challenge"
                 /\ Asks(TheSlot, "challenge", "challenge", id, Absent)
           /\ UNCHANGED <<records, storeVars, script>>
  BY <1>5, <1>6
<1>7. CASE Step.what = "corrupt" /\ CorruptAndVerify(TheSlot) /\ UNCHANGED records
  BY <1>1, <1>2, <1>7, TellCorrupt
<1>8. CASE /\ Step.what = "insure" /\ NextStep(TheSlot, <<>>, <<>>)
           /\ UNCHANGED <<records, storeVars>>
  BY <1>1, <1>2, <1>8, TellInsure
<1>9. CASE Step.what = "resolve" /\ ResolveFraudulent(TheSlot) /\ UNCHANGED storeVars
  BY <1>1, <1>2, <1>9, TellResolve
<1>10. QED
  BY <1>4, <1>6, <1>7, <1>8, <1>9

(* So does its going on with the answer of its task.                       *)
LEMMA TellGoesOn ==
    ASSUME TellInv, Alone, DataInv, TasksReady, ScriptOK,
           NEW s \in Slots, ScriptGoesOn(s)
    PROVE  TellInv'
<1>1. /\ tasks[s].stage = "returned" /\ tasks[s].by = "script"
      /\ UNCHANGED <<records, storeVars, deployed>>
  BY DEF ScriptGoesOn, At
<1>2. s = TheSlot
  BY <1>1 DEF ScriptOK, ScriptAlone, Alone
<1>3. /\ Serves(Mine) /\ script.at \in 1 .. Len(Program) /\ Ready(Mine)
      /\ Mine.stage = "returned"
  BY <1>1, <1>2, MineServes DEF Alone, Mine
<1>4. PICK answer : answer = Mine.answer
  OBVIOUS
<1>5. answer \in ErrorCodes \cup Results(Mine.job)
  BY <1>3, <1>4 DEF Ready, Proper
<1>6. \/ /\ Step.what = "attest" /\ Results(Mine.job) = {"attested"}
      \/ /\ Step.what \in {"verify", "corrupt"}
         /\ Results(Mine.job) = {"PASS", "FAIL"}
      \/ /\ Step.what = "get" /\ Results(Mine.job) = {"attestation"}
      \/ /\ Step.what = "challenge" /\ Results(Mine.job) = {"challenged"}
  BY <1>3 DEF Serves, Results
<1>7. \/ /\ answer \in ErrorCodes
         /\ Step.what = "corrupt" \/ (End("failed") /\ Begin(TheSlot, Free))
      \/ answer = "attested" /\ NextStep(TheSlot, <<NewId>>, <<>>)
      \/ answer \in {"PASS", "FAIL"} /\ NextStep(TheSlot, <<>>, <<answer>>)
      \/ /\ answer \notin ErrorCodes \cup {"attested", "PASS", "FAIL"}
         /\ NextStep(TheSlot, <<>>, <<>>)
  BY <1>2, <1>4 DEF ScriptGoesOn, Mine
<1>8. /\ MadeOK /\ StatusOK /\ EndOK
      /\ ~Bucket => /\ script.told = Told
                    /\ answer = Expected \/ (AtSubmission /\ answer \in Refusals)
  BY <1>3, <1>4 DEF TellInv, AnswerOK
<1>9. /\ N \in Nat /\ script.at \in Nat /\ Made \in Nat
      /\ Step.what = "corrupt" <=> Seeding /\ script.at = N + 5
      /\ Step.what = "challenge" <=> Seeding /\ script.at = N + 6
      /\ Step.what \in {"attest", "verify", "get"} => ~Seeding \/ script.at < N + 5
  BY <1>3, MadeIs DEF DataInv
<1>10. ~(Seeding /\ Bucket /\ script.at >= N + 5)
  BY <1>3, <1>8, <1>9 DEF EndOK
<1>11. Expected \in {"attested", "PASS", "FAIL", "attestation", "challenged"}
  BY DEF Expected
<1>12. CASE answer \in ErrorCodes
  <2>1. Bucket \/ AtSubmission
    BY <1>8, <1>11, <1>12, CodesAre
  <2>2. Step.what # "corrupt"
    BY <1>9, <1>10, <2>1 DEF AtSubmission
  <2>3. answer \notin {"attested", "challenged", "PASS", "FAIL"}
    BY <1>12, CodesAre
  <2>4. End("failed") /\ Begin(TheSlot, Free)
    BY <1>7, <1>12, <2>2, <2>3
  <2>5. tasks'[TheSlot].stage = "free"
    BY <2>4, TheSlotIs, BeginStays, FreeIs
  <2>6. QED
    BY <1>1, <1>4, <2>1, <2>3, <2>4, <2>5, TellEnds
<1>13. ASSUME NEW ids, NEW told, NextStep(TheSlot, ids, told)
       PROVE  /\ script'.at = script.at + 1
              /\ tasks'[TheSlot].stage = "free" /\ Published' = Published
              /\ Seeding' <=> Seeding
  <2>1. ScriptTyped
    BY DEF ScriptOK
  <2>2. PICK end : end = IF script.at = Len(Program) THEN "done" ELSE "running"
    OBVIOUS
  <2>3. script' = [at |-> script.at + 1, ids |-> script.ids \o ids,
                   told |-> script.told \o told, end |-> end]
    BY <1>13, <2>1, <2>2, NextStepNow
  <2>4. script'.at = script.at + 1
    BY <2>3
  <2>5. Begin(TheSlot, Free)
    BY <1>13 DEF NextStep
  <2>6. tasks'[TheSlot].stage = "free"
    BY <2>5, TheSlotIs, BeginStays, FreeIs
  <2>7. Published' = Published
    BY <1>1 DEF Published
  <2>8. Seeding' <=> Seeding
    BY <1>1, SameEnvironment
  <2>9. QED
    BY <2>4, <2>6, <2>7, <2>8
<1>14. CASE answer = "attested"
  <2>1. Step.what = "attest" /\ NextStep(TheSlot, <<NewId>>, <<>>)
    BY <1>5, <1>6, <1>7, <1>14, CodesAre
  <2>2. /\ script'.at = script.at + 1 /\ tasks'[TheSlot].stage = "free"
        /\ Published' = Published /\ (Seeding' <=> Seeding)
    BY <1>13, <2>1
  <2>3. Made' = Made + 1 /\ Told' = Told /\ ~Tampering /\ ~Tampering'
    BY <1>1, <1>3, <2>1, <2>2, NextMadeAndTold
  <2>4. Count = Made + 1
    BY <1>3, <1>4, <1>14 DEF Count, Pending
  <2>5. Published = 0 .. Made' - 1
    BY <1>8, <1>9, <2>3, <2>4 DEF MadeOK
  <2>6. NewId = Made
    <3>1. Published = 0 .. Made
      BY <1>9, <2>3, <2>5
    <3>2. Cardinality(0 .. Made) = Made + 1
      BY <1>9, FS_Interval
    <3>3. QED
      BY <1>9, <3>1, <3>2 DEF NewId, Alone
  <2>7. script.ids \o <<NewId>> = [i \in 1 .. Made' |-> i - 1]
    BY <1>8, <1>9, <2>3, <2>6, CountedOn DEF MadeOK
  <2>8. \A i \in Published : records'[i].status = StatusOf(i)'
    <3>1. \A i : StatusOf(i) = "Active" /\ StatusOf(i)' = "Active"
      BY <1>9, <2>1, <2>2 DEF StatusOf
    <3>2. QED
      BY <1>1, <1>8, <3>1 DEF StatusOK
  <2>9. ~Bucket => script.told \o <<>> = Told' /\ (Tampering' <=> Tampering)
    BY <1>8, <2>3, NothingToAdd
  <2>10. ~(Seeding /\ script.at >= N + 5)
    BY <1>9, <2>1
  <2>11. QED
    BY <1>1, <1>3, <2>1, <2>2, <2>5, <2>7, <2>8, <2>9, <2>10, TellNext
<1>15. ASSUME Step.what \in {"verify", "corrupt", "get", "challenge"},
              answer \notin ErrorCodes, NEW told, NextStep(TheSlot, <<>>, told),
              ~Bucket => script.told \o told = Told'
       PROVE  TellInv'
  <2>1. /\ script'.at = script.at + 1 /\ tasks'[TheSlot].stage = "free"
        /\ Published' = Published /\ (Seeding' <=> Seeding)
    BY <1>13, <1>15
  <2>2. /\ Made' = Made
        /\ Step.what \in {"challenge"} => Tampering /\ Tampering'
        /\ Step.what = "corrupt" => Tampering'
        /\ Step.what \in {"verify", "get"} => ~Tampering /\ ~Tampering'
    BY <1>1, <1>3, <1>15, <2>1, NextMadeAndTold
  <2>3. Step.what = "corrupt" => Tampering
    BY <1>3, <1>9 DEF Tampering
  <2>4. Tampering' <=> Tampering
    BY <1>15, <2>2, <2>3
  <2>5. answer # "attested"
    BY <1>5, <1>6, <1>15
  <2>6. Count = Made
    BY <1>4, <2>5 DEF Count, Pending
  <2>7. script.ids \o <<>> = [i \in 1 .. Made' |-> i - 1]
    BY <1>8, <2>2, NothingToAdd DEF MadeOK
  <2>8. Published = 0 .. Made' - 1
    BY <1>8, <2>2, <2>6 DEF MadeOK
  <2>9. \A i \in Published : records'[i].status = StatusOf(i)'
    <3>1. ~Challenging'
      BY <2>1 DEF Challenging, Mine
    <3>2. Step.what = "challenge" => Challenging
      BY <1>3, <1>4, <1>5, <1>6, <1>15 DEF Challenging
    <3>3. \A i : StatusOf(i)' = StatusOf(i)
      <4>1. CASE Step.what = "challenge"
        BY <1>9, <2>1, <3>2, <4>1 DEF StatusOf
      <4>2. CASE Step.what = "corrupt"
        BY <1>9, <2>1, <3>1, <4>2 DEF StatusOf
      <4>3. CASE Step.what \in {"verify", "get"}
        BY <1>9, <2>1, <4>3 DEF StatusOf
      <4>4. QED
        BY <1>15, <4>1, <4>2, <4>3
    <3>4. QED
      BY <1>1, <1>8, <3>3 DEF StatusOK
  <2>10. QED
    BY <1>1, <1>3, <1>10, <1>15, <2>1, <2>4, <2>7, <2>8, <2>9, TellNext
<1>16. CASE answer \in {"PASS", "FAIL"}
  <2>1. Step.what \in {"verify", "corrupt"} /\ NextStep(TheSlot, <<>>, <<answer>>)
    BY <1>5, <1>6, <1>7, <1>16, CodesAre
  <2>2. answer \notin ErrorCodes
    BY <1>16, CodesAre
  <2>3. script'.at = script.at + 1 /\ tasks'[TheSlot].stage = "free"
    BY <1>13, <2>1
  <2>4. /\ Step.what = "verify" => Told = <<>> /\ Told' = <<"PASS">>
        /\ Step.what = "corrupt" => Told = <<"PASS">> /\ Told' = <<"PASS", "FAIL">>
    BY <1>1, <1>3, <2>3, NextMadeAndTold
  <2>5. ASSUME ~Bucket PROVE script.told \o <<answer>> = Told'
    <3>1. script.told = Told /\ answer = Expected
      BY <1>8, <1>16, <2>5 DEF Refusals
    <3>2. CASE Step.what = "verify"
      <4>1. answer = "PASS"
        BY <3>1, <3>2 DEF Expected
      <4>2. <<>> \o <<"PASS">> = <<"PASS">>
        OBVIOUS
      <4>3. QED
        BY <2>4, <3>1, <3>2, <4>1, <4>2
    <3>3. CASE Step.what = "corrupt"
      <4>1. answer = "FAIL"
        BY <3>1, <3>3 DEF Expected
      <4>2. <<"PASS">> \o <<"FAIL">> = <<"PASS", "FAIL">>
        <5>1. <<"PASS">> \in Seq({"PASS", "FAIL"})
          OBVIOUS
        <5>2. Append(<<"PASS">>, "FAIL") = <<"PASS">> \o <<"FAIL">>
          BY <5>1, AppendIsConcat
        <5>3. Append(<<"PASS">>, "FAIL") = <<"PASS", "FAIL">>
          <6>1. PICK one, two : one = <<"PASS">> /\ two = <<"PASS", "FAIL">>
            OBVIOUS
          <6>2. /\ one \in Seq({"PASS", "FAIL"}) /\ two \in Seq({"PASS", "FAIL"})
                /\ Len(one) = 1 /\ Len(two) = 2 /\ one[1] = "PASS"
                /\ two[1] = "PASS" /\ two[2] = "FAIL"
            BY <6>1
          <6>3. /\ Append(one, "FAIL") \in Seq({"PASS", "FAIL"})
                /\ Len(Append(one, "FAIL")) = 2
                /\ Append(one, "FAIL")[1] = "PASS" /\ Append(one, "FAIL")[2] = "FAIL"
            <7>1. PICK S, last : S = {"PASS", "FAIL"} /\ last = "FAIL"
              OBVIOUS
            <7>2. one \in Seq(S) /\ last \in S
              BY <6>2, <7>1
            <7>3. /\ Append(one, last) \in Seq(S)
                  /\ Len(Append(one, last)) = Len(one) + 1
                  /\ \A i \in 1 .. Len(one) : Append(one, last)[i] = one[i]
                  /\ Append(one, last)[Len(one) + 1] = last
              BY <7>2, AppendProperties
            <7>4. Len(one) = 1 /\ 1 \in 1 .. Len(one) /\ Len(one) + 1 = 2
              BY <6>2
            <7>5. /\ Append(one, last) \in Seq(S) /\ Len(Append(one, last)) = 2
                  /\ Append(one, last)[1] = one[1] /\ Append(one, last)[2] = last
              BY <7>3, <7>4
            <7>6. QED
              BY <6>2, <7>1, <7>5, Zenon
          <6>4. PICK more : more = Append(one, "FAIL")
            OBVIOUS
          <6>5. \A i \in 1 .. 2 : more[i] = two[i]
            BY <6>2, <6>3, <6>4
          <6>6. more = two
            BY <6>2, <6>3, <6>4, <6>5, SeqEqual
          <6>7. QED
            BY <6>1, <6>4, <6>6
        <5>4. QED
          BY <5>2, <5>3
      <4>3. QED
        BY <2>4, <3>1, <3>3, <4>1, <4>2
    <3>4. QED
      BY <2>1, <3>2, <3>3
  <2>6. QED
    BY <1>15, <2>1, <2>2, <2>5
<1>17. CASE answer \notin ErrorCodes \cup {"attested", "PASS", "FAIL"}
  <2>1. Step.what \in {"get", "challenge"} /\ NextStep(TheSlot, <<>>, <<>>)
    BY <1>5, <1>6, <1>7, <1>17
  <2>2. script'.at = script.at + 1 /\ tasks'[TheSlot].stage = "free"
    BY <1>13, <2>1
  <2>3. Told' = Told
    BY <1>1, <1>3, <2>1, <2>2, NextMadeAndTold
  <2>4. ~Bucket => script.told \o <<>> = Told'
    BY <1>8, <2>3, NothingToAdd
  <2>5. QED
    BY <1>15, <1>17, <2>1, <2>4
<1>18. QED
  BY <1>12, <1>14, <1>16, <1>17

(* Nothing else happens to a process that runs a script of its own.        *)
LEMMA TellStep ==
    ASSUME ServInv, TellInv, [ServicesNext]_servicesVars
    PROVE  TellInv'
<1> USE DEF ServInv
<1>1. UNCHANGED deployed
  BY ServInvStep DEF Kept
<1>2. CASE ~Alone
  <2>1. ~Alone'
    BY <1>1, <1>2, SameEnvironment
  <2>2. QED
    BY <2>1 DEF TellInv
<1>3. CASE Alone
  <2>1. ASSUME NEW s \in Slots, SlotStep(s) PROVE TellInv'
    <3>1. CASE TaskStep(s) /\ UNCHANGED script
      BY <1>3, <3>1, TellTaskStep
    <3>2. CASE ScriptStep(s)
      BY <1>3, <3>2, TellCalls, TellGoesOn DEF ScriptStep
    <3>3. CASE X402Step(s) \/ PolicyStep(s) \/ guard(s) \/ RuntimeStep(s)
      <4>1. tasks[s].stage # "free" /\ tasks[s].by # "script"
        BY <3>3, ServerForeign
      <4>2. QED
        BY <1>3, <4>1 DEF ScriptOK, ScriptAlone, Alone
    <3>4. QED
      BY <2>1, <3>1, <3>2, <3>3 DEF SlotStep
  <2>2. ASSUME NEW s \in Slots, BeginTask(s) PROVE TellInv'
    <3>1. Program = <<>>
      BY <2>2, BeginsNoScript DEF DataInv
    <3>2. QED
      BY <1>3, <3>1 DEF Alone
  <2>3. ASSUME NEW s \in Slots, Dismiss(s) PROVE TellInv'
    <3>1. tasks[s].stage = "answered"
      BY <2>3 DEF Dismiss, At
    <3>2. QED
      BY <1>3, <3>1 DEF ScriptOK, ScriptAlone, Serves, Alone
  <2>4. CASE stop /\ UNCHANGED <<script, policies, apartVars>>
    BY <2>4, TellRests DEF stop
  <2>5. CASE OthersWrite
    BY <1>3, <2>5 DEF OthersWrite, Alone
  <2>6. CASE OthersSpoil
    <3>1. Bucket /\ UNCHANGED <<records, tasks, deployed, script>>
      BY <1>3, <2>6 DEF OthersSpoil, Alone
    <3>2. /\ Pending' <=> Pending
          /\ Challenging' <=> Challenging
      BY <3>1 DEF Pending, Challenging, Mine
    <3>3. Seeding /\ script.at = N + 5 => tasks'[TheSlot].stage = "free"
      BY <1>3, <3>1 DEF TellInv, EndOK, Mine
    <3>4. QED
      BY <3>1, <3>2, <3>3, TellOn
  <2>7. CASE Apart
    BY <2>7, TellRests DEF Apart
  <2>8. CASE UNCHANGED servicesVars
    BY <2>8, TellRests DEF servicesVars
  <2>9. QED
    BY <2>1, <2>2, <2>3, <2>4, <2>5, <2>6, <2>7, <2>8 DEF ServicesNext
<1>4. QED
  BY <1>2, <1>3

(* What was told, made and left behind when a script is through.           *)
LEMMA TellsState == ServInv /\ TellInv => SeedTellsState
<1> SUFFICES ASSUME ServInv, TellInv, Program # <<>>, ~Live
             PROVE  SeedTellsState
  BY DEF SeedTellsState
<1> USE DEF ServInv
<1>1. DataInv /\ MadeOK /\ StatusOK /\ EndOK
      /\ (~Bucket => script.told = Told /\ SpoiledOK)
  BY DEF TellInv, Alone
<1>2. N \in Nat /\ N >= 2
  BY SeedSteps
<1>3. /\ \/ Seeding /\ Program = SeedProgram
         \/ ~Seeding /\ Program = CliProgram
      /\ Seeding => Len(Program) = N + 7
      /\ ~Seeding => Len(Program) = 2
  BY <1>1, ProgramIs, SeedSteps, CliSteps DEF DataInv
<1>4. DEFINE slashed == {id \in Published : records[id].status # "Active"}
<1>5. ASSUME script.end = "done", Seeding
      PROVE  /\ script.told = <<"PASS", "FAIL">>
             /\ slashed = {script.ids[2]}
             /\ records[script.ids[2]].status = "Slashed"
             /\ Cardinality(Published) = Len(Attested) + 1
             /\ spoiled = {contentKey(records[script.ids[2]].commitment)}
  <2>1. script.at = N + 8
    BY <1>1, <1>2, <1>3, <1>5 DEF EndOK
  <2>2. ~Bucket
    BY <1>1, <1>2, <1>5, <2>1 DEF EndOK
  <2>3. Made = N + 1
    BY <1>2, <1>5, <2>1 DEF Made
  <2>4. Mine.stage = "free"
    <3>1. ~Running
      BY <1>5 DEF Running
    <3>2. QED
      BY <1>1, <3>1, MineServes
  <2>5. Count = N + 1
    BY <2>3, <2>4 DEF Count, Pending
  <2>6. script.ids[2] = 1 /\ Published = 0 .. N
    BY <1>1, <1>2, <2>3, <2>5 DEF MadeOK
  <2>7. \A id \in Published : records[id].status = IF id = 1 THEN "Slashed" ELSE "Active"
    BY <1>1, <1>2, <1>5, <2>1 DEF StatusOK, StatusOf
  <2>8. 1 \in Published
    BY <1>2, <2>6
  <2>9. slashed = {1}
    BY <2>7, <2>8
  <2>10. Cardinality(0 .. N) = N + 1
    BY <1>2, FS_Interval
  <2>11. script.told = <<"PASS", "FAIL">>
    BY <1>1, <1>2, <1>5, <2>1, <2>2 DEF Told
  <2>12. Tampering
    BY <1>2, <1>5, <2>1 DEF Tampering
  <2>13. spoiled = {contentKey(records[1].commitment)}
    BY <1>1, <2>2, <2>12 DEF SpoiledOK
  <2>14. QED
    BY <2>6, <2>7, <2>8, <2>9, <2>10, <2>11, <2>13 DEF N
<1>6. ASSUME script.end = "done", ~Seeding, ~Bucket
      PROVE  script.told = <<"PASS">>
  BY <1>1, <1>3, <1>6 DEF EndOK, Told
<1>7. ASSUME script.end \in {"failed", "crashed"}
      PROVE  slashed = {} /\ (Bucket \/ (~Seeding /\ Published = {}))
  <2>1. Bucket \/ (~Seeding /\ script.at = 1)
    BY <1>1, <1>7 DEF EndOK
  <2>2. Seeding => script.at < N + 6
    <3>1. Seeding => script.at <= N + 5
      BY <1>1, <2>1 DEF EndOK
    <3>2. script.at \in Nat
      BY <1>2, <1>3 DEF ScriptOK, ScriptTyped
    <3>3. QED
      BY <1>2, <3>1, <3>2
  <2>3. \A id \in Published : records[id].status = "Active"
    BY <1>1, <2>2 DEF StatusOK, StatusOf
  <2>4. CASE ~Bucket
    <3>1. ~Seeding /\ Made = 0
      BY <2>1, <2>4 DEF Made
    <3>2. ~Running
      BY <1>7 DEF Running
    <3>3. Mine.stage = "free"
      BY <1>1, <3>2, MineServes
    <3>4. Published = 0 .. 0 - 1
      BY <1>1, <3>1, <3>3 DEF MadeOK, Count, Pending
    <3>5. QED
      BY <2>3, <3>1, <3>4
  <2>5. QED
    BY <2>3, <2>4
<1>8. QED
  BY <1>5, <1>6, <1>7 DEF SeedTellsState, Seeding

(* The seeding and the agent's cycle tell what they leave behind, however  *)
(* many payloads are attested, and also when the agent's stake is refused; *)
(* so does the deployment.                                                 *)
THEOREM ScriptsTell == ServicesSpec => []ScriptsTellState
<1>1. ServInv /\ TellInv /\ [ServicesNext]_servicesVars => ServInv' /\ TellInv'
  BY ServInvStep, TellStep
<1>2. ServicesInit => ServInv /\ TellInv
  BY InitServInv, TellInit
<1>3. ServInv /\ TellInv => ScriptsTellState
  BY TellsState DEF ScriptsTellState, ServInv, DeployOK
<1>4. QED
  BY <1>1, <1>2, <1>3, PTL DEF ServicesSpec
=============================================================================
