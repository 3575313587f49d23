---------------------------- MODULE WriteOnceStore ----------------------------
(***************************************************************************)
(* What every artifact store promises its callers (ArtifactStore.java):    *)
(* keys are written once and an answer is the truth.  A caller that is not *)
(* told STORED, REPLAY or REJECTED knows nothing: its bytes may be there,  *)
(* may never be, and may still appear after the answer.  ArtifactStore     *)
(* implements this module; EvidenceIngest is built on it.                  *)
(***************************************************************************)
EXTENDS Naturals

CONSTANTS
  Puts,      \* invocations of put(), one per POST /artifact-bytes request
  Keys,      \* artifact keys
  Contents,  \* artifact bytes
  Nothing    \* the value of a key without an object

ASSUME NothingAssumption == Nothing \notin Contents

NoRequest == [key |-> Nothing, content |-> Nothing]

VARIABLES
  object,   \* the object under each key
  request,  \* what each put was asked to store
  reply     \* what it answered, "NONE" until then

storeVars == <<object, request, reply>>

Replies == {"STORED",     \* written by this put: alreadyExists = false
            "REPLAY",     \* the same bytes were there: alreadyExists = true
            "REJECTED",   \* ARTIFACT_OVERWRITE_REJECTED
            "UNCERTAIN"}  \* any other error, or the process stopped

StoreInit ==
  /\ object = [k \in Keys |-> Nothing]
  /\ request = [p \in Puts |-> NoRequest]
  /\ reply = [p \in Puts |-> "NONE"]

Stored(p) == object[request[p].key]
Waiting(p) == request[p] # NoRequest /\ reply[p] = "NONE"

Put(p, key, content) ==
  /\ request[p] = NoRequest
  /\ request' = [request EXCEPT ![p] = [key |-> key, content |-> content]]
  /\ UNCHANGED <<object, reply>>

\* The bytes of a put appear: told to its caller at once, or to nobody.
Write(p) ==
  /\ request[p] # NoRequest
  /\ Stored(p) = Nothing
  /\ object' = [object EXCEPT ![request[p].key] = request[p].content]
  /\ \/ UNCHANGED reply
     \/ Waiting(p) /\ \E r \in {"STORED", "UNCERTAIN"} : reply' = [reply EXCEPT ![p] = r]
  /\ UNCHANGED request

Reply(p) ==
  /\ Waiting(p)
  /\ \E r \in Replies \ {"STORED"} :
       /\ r = "REPLAY" => Stored(p) = request[p].content
       /\ r = "REJECTED" => Stored(p) \notin {Nothing, request[p].content}
       /\ reply' = [reply EXCEPT ![p] = r]
  /\ UNCHANGED <<object, request>>

StoreNext ==
  \E p \in Puts :
    \/ \E key \in Keys, content \in Contents : Put(p, key, content)
    \/ Write(p)
    \/ Reply(p)

StoreSpec == StoreInit /\ [][StoreNext]_storeVars
=============================================================================
