----------------------------- MODULE Commitment -----------------------------
(***************************************************************************)
(* packages/commitment: the canonical text of a JSON value, its hash, and  *)
(* the commitment to a call of a model; with the mirror of the text in     *)
(* contracts/src/commitment.rs.  A JSON value is a record by its kind, an  *)
(* object keeps its members in the order they were inserted.  A text is a  *)
(* sequence of tokens, the marks of JSON and what has no parts as a token  *)
(* each, and the hash is perfect: one unit, its text.                      *)
(***************************************************************************)
EXTENDS Integers, Sequences, FiniteSets, TLC

CONSTANTS
    KeyRank,    \* name of a member -> its place in code unit order
    KeyIndex,   \* the names that spell an array index -> that index
    Json,       \* the JSON values there are, parts of values included
    Nesting,    \* how deep each of them nests
    MaxSafe,    \* the largest safe integer
    Base,       \* values of a byte
    Width,      \* bytes of a u64
    Calls       \* the calls whose commitments are compared, the id of the
                \* model in bytes

VARIABLE compared   \* two calls, <<>> before

Atom(text) == [kind |-> "atom", atom |-> text]      \* null, a Boolean, a string
Number(n) == [kind |-> "number", number |-> n]
Fraction == [kind |-> "fraction"]                   \* any number that is not whole
Items(values) == [kind |-> "array", items |-> values]
Member(key, v) == [key |-> key, val |-> v]
Obj(members) == [kind |-> "object", members |-> members]

Mark(m) == [kind |-> "mark", mark |-> m]            \* a token of a text

Parts(v) ==
    CASE v.kind = "array" -> {v.items[i] : i \in DOMAIN v.items}
      [] v.kind = "object" -> {v.members[i].val : i \in DOMAIN v.members}
      [] OTHER -> {}

MemberNames(v) == {v.members[i].key : i \in DOMAIN v.members}

Held(v, name) ==
    v.members[CHOOSE i \in DOMAIN v.members : v.members[i].key = name].val

OneToOne(f) == \A x, y \in DOMAIN f : f[x] = f[y] => x = y

ASSUME CommitmentAssumption ==
    /\ \A call \in Calls : /\ {call.input, call.output} \subseteq Json
                            /\ call.modelId \in Seq(0 .. Base - 1)
    /\ Base \in Nat /\ Base > 1 /\ Width \in Nat

(* JSON has these values and no others, each name once in an object, and   *)
(* nothing is a part of itself.                                            *)
ASSUME JsonAssumption ==
    /\ KeyRank \in [DOMAIN KeyRank -> Nat] /\ OneToOne(KeyRank)
    /\ KeyIndex \in [DOMAIN KeyIndex -> Nat] /\ OneToOne(KeyIndex)
    /\ \A v \in Json :
          CASE v.kind = "atom" -> v = Atom(v.atom)
            [] v.kind = "number" -> v = Number(v.number)
            [] v.kind = "fraction" -> v = Fraction
            [] v.kind = "array" -> v = Items(v.items) /\ v.items \in Seq(Json)
            [] v.kind = "object" ->
                  /\ v = Obj(v.members)
                  /\ v.members \in Seq([key : DOMAIN KeyRank, val : Json])
                  /\ \A i, j \in DOMAIN v.members :
                        v.members[i].key = v.members[j].key => i = j
            [] OTHER -> FALSE
    /\ Nesting \in [Json -> Nat]
    /\ \A v \in Json : \A part \in Parts(v) : Nesting[part] < Nesting[v]

(* assertCanonicalNumber throws unless every number is whole and safe.     *)
Canonicalizable[v \in Json] ==
    CASE v.kind = "atom" -> TRUE
      [] v.kind = "fraction" -> FALSE
      [] v.kind = "number" -> v.number \in -MaxSafe .. MaxSafe
      [] OTHER -> \A part \in Parts(v) : Canonicalizable[part]

(* The names sorted[key] becomes a member for: "__proto__" sets the        *)
(* prototype, or nothing, and what it held is lost from the text.          *)
Written(names, language) ==
    IF language = "js" THEN names \ {"__proto__"} ELSE names

(* The names are inserted sorted, but JSON.stringify enumerates those that *)
(* are array indices first, by their values.                               *)
Precedes(k, l, language) ==
    LET IsIndex(name) == language = "js" /\ name \in DOMAIN KeyIndex
    IN  \/ IsIndex(k) /\ ~IsIndex(l)
        \/ IsIndex(k) /\ IsIndex(l) /\ KeyIndex[k] < KeyIndex[l]
        \/ ~IsIndex(k) /\ ~IsIndex(l) /\ KeyRank[k] < KeyRank[l]

InOrder(names, language) ==
    CHOOSE s \in [1 .. Cardinality(names) -> names] :
        \A i, j \in DOMAIN s : i < j => Precedes(s[i], s[j], language)

(* Texts in brackets, with commas: rest[n] as n of them are to come.       *)
Enclosed(open, texts, close) ==
    LET rest[n \in 0 .. Len(texts)] ==
          IF n = 0 THEN <<Mark(close)>>
          ELSE (IF n = Len(texts) THEN <<>> ELSE <<Mark(",")>>)
               \o texts[Len(texts) - n + 1] \o rest[n - 1]
    IN  <<Mark(open)>> \o rest[Len(texts)]

(* JSON.stringify of what was normalized.                                  *)
Text(language) ==
    LET text[v \in Json] ==
          CASE v.kind = "array" ->
                  Enclosed("[", [i \in DOMAIN v.items |-> text[v.items[i]]], "]")
            [] v.kind = "object" ->
                  LET names == InOrder(Written(MemberNames(v), language), language)
                  IN  Enclosed("{", [i \in DOMAIN names |->
                                        <<Atom(names[i]), Mark(":")>>
                                        \o text[Held(v, names[i])]], "}")
            [] OTHER -> <<v>>
    IN  text

canonicalize(v) == Text("js")[v]
canonical(v) == Text("rust")[v]

hashPayload(v) == canonicalize(v)

(* How many numbers there are of so many bytes.                            *)
Span[i \in 0 .. Width] == IF i = 0 THEN 1 ELSE Base * Span[i - 1]

(* leU64 throws below zero and above its width.                            *)
IsU64(n) == n \in 0 .. Span[Width] - 1

(* What is left of a number as its bytes are shifted out.                  *)
Remaining(n) ==
    LET left[i \in 0 .. Width] == IF i = 0 THEN n ELSE left[i - 1] \div Base
    IN  left

(* Mutation: the encoding ends with the highest byte that is not zero.     *)
leU64Trimmed(n) ==
    [i \in 1 .. Cardinality({j \in 0 .. Width - 1 : Remaining(n)[j] > 0}) |->
        Remaining(n)[i - 1] % Base]

leU64(n) == [i \in 1 .. Width |-> Remaining(n)[i - 1] % Base]

(* The preimage, whose hash is perfect as well: two digests of fixed       *)
(* length, the bytes of the model id, the time.                            *)
commitmentFromHashes(inputHash, outputHash, modelId, timestamp) ==
    <<inputHash, outputHash>> \o modelId \o leU64(timestamp)

computeCommitment(call) ==
    commitmentFromHashes(hashPayload(call.input), hashPayload(call.output),
                         call.modelId, call.timestamp)

verifyOutputHash(recomputed, onchain) == recomputed = onchain

Committable(call) ==
    Canonicalizable[call.input] /\ Canonicalizable[call.output]
    /\ IsU64(call.timestamp)

CompareCalls ==
    \/ /\ compared = <<>>
       /\ \E a, b \in {call \in Calls : Committable(call)} : compared' = <<a, b>>
    \/ compared # <<>> /\ compared' = <<>>
-----------------------------------------------------------------------------
(* The values that are the same as one, whatever the order of their        *)
(* members, but for the members whose name canonicalize does not write.    *)
Alike[v \in Json] ==
    {w \in Json :
        /\ w.kind = v.kind
        /\ CASE v.kind = "array" ->
                  /\ DOMAIN w.items = DOMAIN v.items
                  /\ \A i \in DOMAIN v.items : w.items[i] \in Alike[v.items[i]]
             [] v.kind = "object" ->
                  /\ Written(MemberNames(w), "js") = Written(MemberNames(v), "js")
                  /\ \A name \in Written(MemberNames(v), "js") :
                        Held(w, name) \in Alike[Held(v, name)]
             [] OTHER -> w = v}

SameValue(v, w) == w \in Alike[v]

(* Two calls have one commitment exactly if they have the same input and   *)
(* output as JSON values, in whatever order the members of their objects   *)
(* were written and but for members named __proto__, which canonicalize    *)
(* loses, the same model and the same time.                                *)
CommitmentFaithful ==
    compared # <<>> =>
        LET a == compared[1]
            b == compared[2]
        IN  computeCommitment(a) = computeCommitment(b) <=>
               /\ SameValue(a.input, b.input)
               /\ SameValue(a.output, b.output)
               /\ a.modelId = b.modelId
               /\ a.timestamp = b.timestamp

(* canonical.ts:12: the Rust side produces identical output for the same   *)
(* value.                                                                  *)
RustAgrees ==
    compared # <<>> =>
        \A i \in 1 .. 2 : canonicalize(compared[i].input) = canonical(compared[i].input)
=============================================================================
