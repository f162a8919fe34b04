---------------------------- MODULE PayloadStore ----------------------------
(***************************************************************************)
(* packages/agent/src/store.ts, the content-addressed payload store, and   *)
(* what verifier.ts makes of an object in it.  An object has a name here;  *)
(* its content is an output, a JSON value, and the rest of the attestor's  *)
(* wrapper (input, model id, timestamp), "none" where there is no wrapper  *)
(* and "unusable" where the input has a number, or the time is one, that   *)
(* cannot be hashed.                                                       *)
(***************************************************************************)
EXTENDS Commitment

CONSTANTS
    Content,    \* object -> its output and the rest
    Payloads,   \* the objects that are attested
    Absent,     \* nothing at the key
    Garbled     \* bytes that are not JSON

VARIABLES
    objects,    \* key -> the object there
    spoiled     \* the keys others have written to (history)

storeVars == <<objects, spoiled>>

(* hashPayload throws on a number that is not canonical, leU64 on a time   *)
(* below zero or not whole.                                                *)
Hashable(object) ==
    Canonicalizable[Content[object].output] /\ Content[object].rest # "unusable"

(* Names of objects are no marks of their absence, and what is attested    *)
(* was hashed.                                                             *)
ASSUME StoreAssumption ==
    /\ Payloads \subseteq DOMAIN Content
    /\ {Absent, Garbled} \cap DOMAIN Content = {}
    /\ \A object \in DOMAIN Content : Content[object].output \in Json
    /\ \A payload \in Payloads : Hashable(payload)

(* What hashPayload returns for the output of an object.                   *)
outputHash == [o \in DOMAIN Content |-> hashPayload(Content[o].output)]

(* The key stands for the canonical bytes: one payload of those with them. *)
contentKey(payload) ==
    CHOOSE p \in Payloads : /\ outputHash[p] = outputHash[payload]
                            /\ Content[p].rest = Content[payload].rest

Keys == {contentKey(payload) : payload \in Payloads}

StoreTypeOK ==
    /\ objects \in [Keys -> DOMAIN Content \cup {Absent, Garbled}]
    /\ spoiled \subseteq Keys

getBytesThrows(key) == objects[key] = Absent

getJsonThrows(key) == getBytesThrows(key) \/ objects[key] = Garbled

putBytes(key, object) == objects' = [objects EXCEPT ![key] = object]

(* put: the same payload is the same object, so putting it again restores  *)
(* what it says.                                                           *)
Put(payload) ==
    /\ putBytes(contentKey(payload), payload)
    /\ UNCHANGED spoiled

(* The in-memory backend only: there must be an object, the key stays.     *)
tamper(key, object) ==
    /\ ~getBytesThrows(key)
    /\ putBytes(key, object)

corrupt(key, object) ==
    /\ tamper(key, object)
    /\ spoiled' = spoiled \cup {key}

(* Somebody else writes to the bucket, or deletes from it.                 *)
WriteToBucket(key, object) ==
    /\ putBytes(key, object)
    /\ spoiled' = spoiled \cup {key}

(* Mutation: a wrapper is held to its other fields alone.                  *)
validByWrapper(object, committed) ==
    IF Content[object].rest = "none"
    THEN verifyOutputHash(outputHash[object], outputHash[committed])
    ELSE Content[object].rest = Content[committed].rest

(* verify of packages/agent: the output of the object against the hash on  *)
(* record and, where it is a whole wrapper, the rest of it too.            *)
valid(object, committed) ==
    /\ verifyOutputHash(outputHash[object], outputHash[committed])
    /\ Content[object].rest \in {"none", Content[committed].rest}
=============================================================================
