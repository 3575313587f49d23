---------------------------- MODULE ArtifactStore ----------------------------
(***************************************************************************)
(* The S3-compatible artifact store of the Control Plane                   *)
(* (S3ArtifactStore.java): immutable bytes by key, written by handlers     *)
(* that run put() concurrently.  A put is a conditional PutObject; when    *)
(* its outcome is unknown the key is read back and the put is tried once   *)
(* more.  The SDK client retries nothing itself, so every request to the   *)
(* backend is a step of the handler.                                       *)
(*                                                                         *)
(* The backend is external: it reads and writes one key atomically, may    *)
(* refuse or lose any request, may lose a reply, and may execute a request *)
(* after its sender gave up on it.                                         *)
(*                                                                         *)
(* The module shows that the handlers keep the contract WriteOnceStore.    *)
(***************************************************************************)
EXTENDS Naturals

CONSTANTS
  Puts,      \* invocations of put(), one per POST /artifact-bytes request
  Keys,      \* artifact keys
  Contents,  \* artifact bytes
  Nothing    \* the value of a key without an object

ASSUME NothingAssumption == Nothing \notin Contents

UNKNOWN_OUTCOME_RETRIES == 1

Replies ==
  {"STORED", "REPLAY", "REJECTED", "UNKNOWN_OUTCOME", "UNAVAILABLE", "LOST"}

VARIABLES
  object,  \* the object under each key
  late,    \* puts with a request that its sender gave up and may still run
  call     \* the progress of each put

storeVars == <<object, late, call>>

NoCall == [at |-> "idle", key |-> Nothing, content |-> Nothing,
           retry |-> 0, reply |-> "NONE"]

StoreInit ==
  /\ object = [k \in Keys |-> Nothing]
  /\ late = {}
  /\ call = [p \in Puts |-> NoCall]

At(p, stage) == call[p].at = stage
Stored(p) == object[call[p].key]
Advance(p, stage) == call' = [call EXCEPT ![p].at = stage]
Answer(p, reply) ==
  call' = [call EXCEPT ![p].at = "done", ![p].reply = reply]

\* Mutant of Create: a PutObject without If-None-Match.
CreateUnconditionally(key, content) == object' = [object EXCEPT ![key] = content]

\* A conditional PutObject (If-None-Match: *) that the backend executes.
Create(key, content) ==
  object' = IF object[key] = Nothing
            THEN [object EXCEPT ![key] = content] ELSE object

-----------------------------------------------------------------------------
\* put(artifactKey, content) is entered.
Put(p, key, content) ==
  /\ At(p, "idle")
  /\ call' = [call EXCEPT ![p] = [at |-> "put", key |-> key, content |-> content,
                                  retry |-> 0, reply |-> "NONE"]]
  /\ UNCHANGED <<object, late>>

PutSucceeds(p) ==
  /\ At(p, "put")
  /\ Stored(p) = Nothing
  /\ Create(call[p].key, call[p].content)
  /\ Answer(p, "STORED")
  /\ UNCHANGED late

\* 412 when the key has an object; 409 while another request for it runs.
Contended(p) ==
  \E q \in Puts : /\ call[q].key = call[p].key
                  /\ q \in late \/ (q # p /\ At(q, "put"))

PutConditionFails(p) ==
  /\ At(p, "put")
  /\ Stored(p) # Nothing \/ Contended(p)
  /\ Advance(p, "conflict")
  /\ UNCHANGED <<object, late>>

\* The fate of a request whose sender hears nothing: never executed, executed
\* now, or left to be executed later.
Unheard(p) ==
  \/ UNCHANGED <<object, late>>
  \/ Create(call[p].key, call[p].content) /\ UNCHANGED late
  \/ late' = late \cup {p} /\ UNCHANGED object

PutUnanswered(p) ==
  /\ At(p, "put")
  /\ Unheard(p)
  /\ Advance(p, "unknown")

\* 403: final for the first request; a refused retry is read back like any other.
PutDenied(p) ==
  /\ At(p, "put")
  /\ call[p].retry = 0
  /\ Answer(p, "UNAVAILABLE")
  /\ UNCHANGED <<object, late>>

\* Mutant of ReadExisting: a failed condition is taken for a replay without
\* reading the object.
ReadExistingBlindly(p) ==
  /\ call[p].at \in {"conflict", "unknown"}
  /\ Stored(p) # Nothing
  /\ Answer(p, "REPLAY")
  /\ UNCHANGED <<object, late>>

\* tryReadExisting finds an object: classifyExisting.
ReadExisting(p) ==
  /\ call[p].at \in {"conflict", "unknown"}
  /\ Stored(p) # Nothing
  /\ Answer(p, IF Stored(p) = call[p].content THEN "REPLAY" ELSE "REJECTED")
  /\ UNCHANGED <<object, late>>

\* Mutant of ReadMissing: the loop forgets to count its retries.
ReadMissingUncounted(p) ==
  /\ call[p].at \in {"conflict", "unknown"}
  /\ Stored(p) = Nothing
  /\ IF At(p, "conflict") THEN Answer(p, "UNKNOWN_OUTCOME") ELSE Advance(p, "put")
  /\ UNCHANGED <<object, late>>

\* It finds none: final after a failed condition and after the last retry.
ReadMissing(p) ==
  /\ call[p].at \in {"conflict", "unknown"}
  /\ Stored(p) = Nothing
  /\ IF At(p, "conflict") \/ call[p].retry = UNKNOWN_OUTCOME_RETRIES
     THEN Answer(p, "UNKNOWN_OUTCOME")
     ELSE call' = [call EXCEPT ![p].at = "put", ![p].retry = @ + 1]
  /\ UNCHANGED <<object, late>>

ReadFails(p) ==
  /\ call[p].at \in {"conflict", "unknown"}
  /\ Answer(p, "UNAVAILABLE")
  /\ UNCHANGED <<object, late>>

\* The Control Plane stops in the middle of a put.
PutStops(p) ==
  /\ call[p].at \in {"put", "conflict", "unknown"}
  /\ IF At(p, "put") THEN Unheard(p) ELSE UNCHANGED <<object, late>>
  /\ Answer(p, "LOST")

\* The backend runs, or drops, a request its sender gave up.
LateSettles(p) ==
  /\ p \in late
  /\ Create(call[p].key, call[p].content) \/ UNCHANGED object
  /\ late' = late \ {p}
  /\ UNCHANGED call

PutStep(p) ==
  \/ PutSucceeds(p)
  \/ PutConditionFails(p)
  \/ ReadExisting(p)
  \/ ReadMissing(p)

PutFault(p) ==
  \/ PutUnanswered(p)
  \/ PutDenied(p)
  \/ ReadFails(p)
  \/ PutStops(p)

StoreNext ==
  \E p \in Puts :
    \/ \E key \in Keys, content \in Contents : Put(p, key, content)
    \/ PutStep(p)
    \/ PutFault(p)
    \/ LateSettles(p)

\* Every SDK request has a timeout, so a handler always takes its next step.
StoreSpec ==
  /\ StoreInit /\ [][StoreNext]_storeVars
  /\ \A p \in Puts : WF_storeVars(PutStep(p) \/ PutFault(p))

-----------------------------------------------------------------------------
Calls ==
  [at : {"put", "conflict", "unknown", "done"}, key : Keys, content : Contents,
   retry : 0 .. UNKNOWN_OUTCOME_RETRIES, reply : Replies \cup {"NONE"}]

\* The store's variables stay in their types.
StoreTypeOK ==
  /\ object \in [Keys -> Contents \cup {Nothing}]
  /\ late \subseteq {p \in Puts : ~At(p, "idle")}
  /\ call \in [Puts -> Calls \cup {NoCall}]

\* What put() answered stays true: after STORED or REPLAY the key holds exactly
\* the caller's bytes, after REJECTED it holds other bytes.
ReplyIsTrue ==
  \A p \in Puts :
    /\ call[p].reply \in {"STORED", "REPLAY"} => Stored(p) = call[p].content
    /\ call[p].reply = "REJECTED" => Stored(p) \notin {Nothing, call[p].content}

\* At most one put of a key is told that it created the object
\* (PathWriteResult.alreadyExists = false), also when writes race or repeat.
OneCreator ==
  \A p, q \in Puts :
    call[p].reply = "STORED" /\ call[q].reply = "STORED"
      /\ call[p].key = call[q].key => p = q

\* A put is asked for, writes its key once or not at all, and answers: every
\* step is a step of the contract, whatever requests are lost, repeated or
\* executed after the answer.  In particular no object is ever replaced.
Contract == INSTANCE WriteOnceStore WITH
  request <- [p \in Puts |-> [key |-> call[p].key, content |-> call[p].content]],
  reply <- [p \in Puts |->
              IF call[p].reply \in {"UNKNOWN_OUTCOME", "UNAVAILABLE", "LOST"}
              THEN "UNCERTAIN" ELSE call[p].reply]
ImplementsWriteOnceStore == Contract!StoreSpec

\* Every put ends: the retry loop of reconcileUnknownOutcome is bounded.
PutsEnd == \A p \in Puts : At(p, "put") ~> At(p, "done")

=============================================================================
