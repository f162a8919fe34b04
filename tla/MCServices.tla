----------------------------- MODULE MCServices -----------------------------
(***************************************************************************)
(* Instances for TLC: an attested payload, what may be found in its place, *)
(* the answers of the API, and the environments.                           *)
(***************************************************************************)
EXTENDS Services

CONSTANTS a1, malformed

MCNames == <<"10", "9", "__proto__", "a", "b">>     \* in code unit order
MCKeyRank == [k \in {MCNames[i] : i \in DOMAIN MCNames} |->
                CHOOSE i \in DOMAIN MCNames : MCNames[i] = k]
MCKeyIndex == [k \in {"9", "10"} |-> IF k = "9" THEN 9 ELSE 10]

Two(k, v, l, w) == Obj(<<Member(k, v), Member(l, w)>>)
Yes == Atom("true")
No == Atom("false")

Wrapped(output, rest) == [output |-> output, rest |-> rest]

(* Three payloads and the claim's, which has no timestamp; the first one's *)
(* value written otherwise, alone with a member that gets lost and in      *)
(* another call's wrapper; another value in its wrapper, a number that     *)
(* throws, in the output or the rest, what corrupt writes.                 *)
ContentTable ==
    [o \in {"safe", "risky", "third", "decision", "reordered", "moved",
            "altered", "fraction", "untimely", "tampered"} |->
        CASE o = "safe" -> Wrapped(Two("b", Yes, "a", No), "call")
          [] o = "risky" -> Wrapped(Two("b", No, "a", No), "call 2")
          [] o = "third" -> Wrapped(Two("b", No, "a", Yes), "call 3")
          [] o = "decision" -> Wrapped(Number(5), "none")
          [] o = "reordered" ->
                Wrapped(Obj(<<Member("a", No), Member("b", Yes),
                              Member("__proto__", No)>>), "none")
          [] o = "moved" -> Wrapped(Two("a", No, "b", Yes), "call 2")
          [] o = "altered" -> Wrapped(Two("b", No, "a", No), "call")
          [] o = "fraction" -> Wrapped(Fraction, "call")
          [] o = "untimely" -> Wrapped(Two("b", Yes, "a", No), "unusable")
          [] o = "tampered" -> Wrapped(Obj(<<Member("a", Yes)>>), "none")]

MCAttested == <<"safe", "risky", "third">>

(* Values in pairs that differ by the order of members, one that gets      *)
(* lost, the kind or the nesting, and model ids and times whose bytes run  *)
(* into each other.                                                        *)
MCValues ==
    {Yes, Number(0), Number(7), Number(8), Fraction, Items(<<Number(0), Yes>>),
     Items(<<Items(<<Number(0)>>), Yes>>), Two("a", Yes, "b", No),
     Two("b", No, "a", Yes), Two("a", No, "b", Yes),
     Two("9", Yes, "10", No), Two("10", No, "9", Yes),
     Obj(<<Member("a", Yes)>>), Two("a", Yes, "__proto__", No),
     Two("__proto__", Two("b", No, "a", Yes), "a", Yes),
     Obj(<<Member("a", Two("b", No, "a", Yes))>>),
     Obj(<<Member("a", Two("a", Yes, "b", No))>>)}

(* These, the outputs of the payloads, and their parts.                     *)
MCOutputs == {ContentTable[o].output : o \in DOMAIN ContentTable}
WithParts(values) == values \cup UNION {Parts(v) : v \in values}
JsonSet == WithParts(WithParts(MCValues \cup MCOutputs))
NestingTable ==
    LET depth[v \in JsonSet] == IF Parts(v) = {} THEN 0
                               ELSE 1 + depth[CHOOSE deepest \in Parts(v) :
                                    \A part \in Parts(v) : depth[part] <= depth[deepest]]
    IN  depth

Call(input, output, modelId, timestamp) ==
    [input |-> input, output |-> output, modelId |-> modelId,
     timestamp |-> timestamp]

CallSet ==
    {Call(v, Yes, <<>>, 0) : v \in MCValues}
    \cup {Call(Yes, v, <<>>, 0) : v \in MCValues}
    \cup {Call(Yes, v, id, t) : v \in {Yes, Number(0)},
                                id \in {<<>>, <<0>>, <<1>>, <<1, 1>>},
                                t \in -1 .. 4}

Says(status, body) == [status |-> status, body |-> body]

MCReplies ==
    {Says(0, "none"), Says(200, "json"), Says(200, "html"),
     Says(404, "none"), Says(403, "none"), Says(502, "PAYLOAD_UNAVAILABLE")}

EnvOf(named, services, payloads, room) ==
    [token |-> "token" \in named, s3 |-> "s3" \in named,
     facilitator |-> "facilitator" \in named, x402Mock |-> "mock" \in named,
     production |-> "production" \in named, ollama |-> "ollama" \in named,
     services |-> services, payloads |-> payloads, room |-> room,
     spoilt |->
        CASE "s3" \in named /\ "x402" \in services ->
                {"moved", "altered", "fraction", Garbled, Absent}
          [] "s3" \in named /\ "x402" \notin services ->
                {"reordered", "altered", "untimely", Garbled, Absent}
          [] "s3" \notin named /\ "runtime" \in services -> {Tampered}
          [] OTHER -> {Tampered, Garbled}]

Env(named, services) == EnvOf(named, services, {"safe"}, 1)
Scripted(named, service) == EnvOf(named, {service}, {"safe", "risky"}, 4)

MCLosses == {4, 12, NoLoss}

EnvironmentTable ==
    [laptop |-> Env({}, {"x402", "attest"}), tools |-> Env({}, {"mcp", "attest"}),
     agent |-> Env({"ollama"}, {"runtime"}),
     live |-> Env({"token", "s3", "facilitator", "production"}, {"x402"}),
     live_tools |-> Env({"token", "s3"}, {"mcp", "attest"}),
     live_agent |-> Env({"token"}, {"runtime"}),
     insurer |-> Env({}, {"attest", "policies"}), insurer_live |-> Env({"token"}, {"policies"}),
     closed |-> Env({"production"}, {"x402"}),
     seed |-> Scripted({}, "seed"), seed_s3 |-> Scripted({"s3"}, "seed"),
     seed_live |-> Env({"token"}, {"seed"}),
     cli |-> Scripted({}, "cli"), cli_s3 |-> Env({"s3"}, {"cli"}),
     cli_live |-> Env({"token", "s3"}, {"cli"}),
     claims |-> Env({}, {"claims"}), commitments |-> Env({}, {"commitments"}),
     deploy |-> Env({}, {"deploy"})]

(* TLC evaluates a definition without parameters once, but what stands for *)
(* a constant whenever that is used.                                       *)
MCContent == ContentTable
MCJson == JsonSet
MCNesting == NestingTable
MCCalls == CallSet
MCEnvironments == EnvironmentTable

MCDeployments == DOMAIN EnvironmentTable
=============================================================================
