---------------------------- MODULE EvidenceIngest ----------------------------
(***************************************************************************)
(* How evidence becomes canonical: a client uploads the bytes of an        *)
(* artifact through the Control Plane, whose store keeps the contract      *)
(* WriteOnceStore (ArtifactStore shows that it does), then ingests its     *)
(* manifest and, when it cannot tell what became of the request, looks the *)
(* entity up and repeats the ingest once (control_plane_client.py,         *)
(* ingest_file and ingest_with_reconcile).  On the other side each ingest  *)
(* request is one READ COMMITTED transaction over canonical_metadata       *)
(* (CanonicalMetadataService.ingest): a statement sees the rows committed  *)
(* before it, and an insert waits for a transaction that has inserted a    *)
(* row with one of the same unique values.                                 *)
(*                                                                         *)
(* Data kept abstract: a manifest is the entity it registers, the bytes of *)
(* its artifact (equal hashes are equal bytes, and every other part of the *)
(* compared fingerprint is derived from them), its idempotency key and the *)
(* entity it supersedes.  Validation of a manifest's layout, schema, key    *)
(* references and statistics is left out: the manifests here pass it.      *)
(***************************************************************************)
EXTENDS WriteOnceStore

CONSTANTS
  Clients,    \* calls of ingest_file, one per process that makes one
  Uploads,    \* POST /artifact-bytes requests of other principals
  Entities,   \* (entity_type, entity_id) pairs
  IdempotencyKeys,
  Manifests,  \* the manifests clients build
  NoEntity,   \* supersedes_entity_id is NULL
  NoManifest, \* no row; a client that has not started
  MaxFaults   \* bound: ingest requests that fail or whose reply is lost

ManifestRecords ==
  [entity : Entities, content : Contents, idempotency_key : IdempotencyKeys,
   supersedes : Entities \cup {NoEntity}]

ASSUME IngestAssumption ==
  /\ Puts = Clients \cup Uploads
  /\ Keys \subseteq Entities \X Contents
  /\ Manifests \subseteq ManifestRecords
  /\ \A m \in Manifests : <<m.entity, m.content>> \in Keys
  /\ MaxFaults \in Nat
  /\ NoManifest \notin ManifestRecords
  /\ NoEntity \notin Entities

Requests == Clients \X {1, 2}    \* a client's first ingest request and its retry

VARIABLES
  row,     \* the committed row of each entity
  txn,     \* the transaction of each ingest request, and its reply
  client,  \* each client's position in ingest_file
  faults   \* failures so far

ingestVars == <<row, txn, client>>
vars == <<object, request, reply, row, txn, client, faults>>

IngestInit ==
  /\ StoreInit
  /\ row = [e \in Entities |-> NoManifest]
  /\ txn = [r \in Requests |-> [at |-> "none", reply |-> "NONE"]]
  /\ client = [c \in Clients |->
                 [at |-> "idle", manifest |-> NoManifest, result |-> "NONE"]]
  /\ faults = 0

ManifestOf(r) == client[r[1]].manifest
Registered == {e \in Entities : row[e] # NoManifest}

\* artifact_key = <entity type>/<entity id>/<content hash>.json
ArtifactKey(m) == <<m.entity, m.content>>

-----------------------------------------------------------------------------
(* The transaction of one ingest request. *)

TxnAt(r, stage) == txn[r].at = stage
TxnAdvance(r, stage) == txn' = [txn EXCEPT ![r].at = stage]
Respond(r, outcome) ==
  txn' = [txn EXCEPT ![r] = [at |-> "done", reply |-> outcome]]

\* Mutant of Verify: the artifact is looked for, its hash is not compared.
VerifyExists(r) ==
  /\ TxnAt(r, "verify")
  /\ IF object[ArtifactKey(ManifestOf(r))] # Nothing
     THEN TxnAdvance(r, "entity") ELSE Respond(r, "INVALID")
  /\ UNCHANGED <<row, client>>

\* readVerifiedArtifact: one GET, then the body's hash against the reference.
Verify(r) ==
  LET m == ManifestOf(r) IN
  /\ TxnAt(r, "verify")
  /\ IF object[ArtifactKey(m)] = m.content
     THEN TxnAdvance(r, "entity") ELSE Respond(r, "INVALID")
  /\ UNCHANGED <<row, client>>

\* replayOrConflict, on the row of the manifest's own entity.
ReplayOrConflict(r) ==
  IF row[ManifestOf(r).entity].content = ManifestOf(r).content
  THEN TxnAdvance(r, "replay") ELSE Respond(r, "CONFLICT")

\* Mutant of FindEntity: the superseded decision need not be registered.
FindEntityOnly(r) ==
  /\ TxnAt(r, "entity")
  /\ IF ManifestOf(r).entity \in Registered THEN ReplayOrConflict(r)
     ELSE TxnAdvance(r, "owner")
  /\ UNCHANGED <<row, client>>

\* has(superseded decision), then find(entity).  Rows never disappear, so
\* reading both at the time of the second statement loses no outcome.
FindEntity(r) ==
  LET m == ManifestOf(r) IN
  /\ TxnAt(r, "entity")
  /\ IF m.supersedes \notin Registered \cup {NoEntity} THEN Respond(r, "INVALID")
     ELSE IF m.entity \in Registered THEN ReplayOrConflict(r)
     ELSE TxnAdvance(r, "owner")
  /\ UNCHANGED <<row, client>>

KeyOwners(m) == {e \in Registered : row[e].idempotency_key = m.idempotency_key}

FindByIdempotency(r) ==
  /\ TxnAt(r, "owner")
  /\ IF KeyOwners(ManifestOf(r)) # {} THEN Respond(r, "CONFLICT")
     ELSE TxnAdvance(r, "insert")
  /\ UNCHANGED <<row, client>>

\* Two manifests that cannot both have a row (the table's unique constraints).
SameUnique(m, n) ==
  m.entity = n.entity \/ m.idempotency_key = n.idempotency_key

\* INSERT ... ON CONFLICT DO NOTHING, and what follows when nothing was inserted.
Insert(r) ==
  LET m == ManifestOf(r) IN
  /\ TxnAt(r, "insert")
  /\ ~\E q \in Requests : TxnAt(q, "inserted") /\ SameUnique(ManifestOf(q), m)
  /\ IF m.entity \in Registered THEN ReplayOrConflict(r)
     ELSE IF KeyOwners(m) # {} THEN Respond(r, "CONFLICT")
     ELSE TxnAdvance(r, "inserted")
  /\ UNCHANGED <<row, client>>

Commit(r) == row' = [row EXCEPT ![ManifestOf(r).entity] = ManifestOf(r)]

\* The view of the new row is built (a missing or corrupt artifact only marks
\* it unavailable) and the transaction commits.
Created(r) ==
  /\ TxnAt(r, "inserted")
  /\ Commit(r)
  /\ Respond(r, "INGESTED")
  /\ UNCHANGED client

Replayed(r) ==
  /\ TxnAt(r, "replay")
  /\ Respond(r, "IDEMPOTENT_REPLAY")
  /\ UNCHANGED <<row, client>>

\* The artifact store or the database fails at some statement: 503 and a
\* rollback, except that a commit may have gone through unheard.
Unavailable(r) ==
  /\ txn[r].at \in {"verify", "entity", "owner", "insert", "inserted", "replay"}
  /\ \/ UNCHANGED row
     \/ TxnAt(r, "inserted") /\ Commit(r)
  /\ Respond(r, "UNAVAILABLE")
  /\ UNCHANGED client

TxnStep(r) ==
  \/ Verify(r) \/ FindEntity(r) \/ FindByIdempotency(r) \/ Insert(r)
  \/ Created(r) \/ Replayed(r)

-----------------------------------------------------------------------------
(* The client. *)

ClientAt(c, stage) == client[c].at = stage
Finish(c, result) ==
  client' = [client EXCEPT ![c].at = "done", ![c].result = result]

\* ingest_file with the s3 backend: build the manifest and send its bytes
\* (put_artifact_bytes).
IngestFile(c, m) ==
  /\ ClientAt(c, "idle")
  /\ client' = [client EXCEPT ![c].at = "upload", ![c].manifest = m]
  /\ Put(c, ArtifactKey(m), m.content)
  /\ UNCHANGED <<row, txn>>

\* ingest(manifest): request n of the client reaches the Control Plane.
SendIngest(c, n, stage) ==
  /\ client' = [client EXCEPT ![c].at = stage]
  /\ txn' = [txn EXCEPT ![<<c, n>>].at = "verify"]
  /\ UNCHANGED <<row, object, request, reply>>

\* ingest_file with the local backend sends no bytes: the Control Plane finds
\* in its own store what it finds there.
IngestUnsent(c, m) ==
  /\ ClientAt(c, "idle")
  /\ client' = [client EXCEPT ![c].at = "ingest", ![c].manifest = m]
  /\ txn' = [txn EXCEPT ![<<c, 1>>].at = "verify"]
  /\ UNCHANGED <<row, object, request, reply>>

UploadAnswered(c) ==
  /\ ClientAt(c, "upload")
  /\ reply[c] \in {"STORED", "REPLAY"}
  /\ SendIngest(c, 1, "ingest")

\* Any other answer, and an answer that does not come, raises.
UploadRaises(c) ==
  /\ ClientAt(c, "upload")
  /\ Finish(c, "RAISED")
  /\ UNCHANGED <<row, txn, object, request, reply>>

Pending(c) == IF ClientAt(c, "ingest") THEN <<c, 1>> ELSE <<c, 2>>

\* A success or an error that must not be retried ends the call; a retriable
\* error of the first request (a 503) leads to the look-up.
IngestAnswered(c) ==
  /\ client[c].at \in {"ingest", "again"}
  /\ TxnAt(Pending(c), "done")
  /\ IF ClientAt(c, "ingest") /\ txn[<<c, 1>>].reply = "UNAVAILABLE"
     THEN client' = [client EXCEPT ![c].at = "look"]
     ELSE Finish(c, txn[Pending(c)].reply)
  /\ UNCHANGED <<row, txn, object, request, reply>>

\* TransportUncertainError: the client stops waiting; its request lives on.
IngestUncertain(c) ==
  /\ client[c].at \in {"ingest", "again"}
  /\ IF ClientAt(c, "ingest") THEN client' = [client EXCEPT ![c].at = "look"]
     ELSE Finish(c, "RAISED")
  /\ UNCHANGED <<row, txn, object, request, reply>>

\* Mutant of LookUp: the look-up after an uncertain reply takes any row for its own.
LookUpAnyRow(c) ==
  /\ ClientAt(c, "look")
  /\ IF client[c].manifest.entity \notin Registered THEN SendIngest(c, 2, "again")
     ELSE Finish(c, "RECONCILED") /\ UNCHANGED <<row, txn, object, request, reply>>

\* get(entity): compare what is registered, or send the ingest once more.
LookUp(c) ==
  LET m == client[c].manifest IN
  /\ ClientAt(c, "look")
  /\ IF m.entity \notin Registered THEN SendIngest(c, 2, "again")
     ELSE /\ Finish(c, IF row[m.entity].content = m.content
                       THEN "RECONCILED" ELSE "CONFLICT")
          /\ UNCHANGED <<row, txn, object, request, reply>>

LookUpFails(c) ==
  /\ ClientAt(c, "look")
  /\ Finish(c, "RAISED")
  /\ UNCHANGED <<row, txn, object, request, reply>>

ClientStep(c) ==
  \/ \E m \in Manifests : IngestFile(c, m) \/ IngestUnsent(c, m)
  \/ UploadAnswered(c) \/ UploadRaises(c)
  \/ IngestAnswered(c)
  \/ LookUp(c) \/ LookUpFails(c)

-----------------------------------------------------------------------------
\* The answers to uploads of others are left out: nobody here hears them.
StoreStep ==
  \/ \E p \in Puts : Write(p) /\ (p \in Uploads => UNCHANGED reply)
  \/ \E c \in Clients : Reply(c)
  \/ \E p \in Uploads, k \in Keys, x \in Contents : Put(p, k, x)

Step ==
  \/ StoreStep /\ UNCHANGED ingestVars
  \/ \E r \in Requests : TxnStep(r) /\ UNCHANGED storeVars
  \/ \E c \in Clients : ClientStep(c)

Fault ==
  \/ \E r \in Requests : Unavailable(r) /\ UNCHANGED storeVars
  \/ \E c \in Clients : IngestUncertain(c)

IngestNext ==
  \/ Step /\ UNCHANGED faults
  \/ Fault /\ faults < MaxFaults /\ faults' = faults + 1

IngestSpec == IngestInit /\ [][IngestNext]_vars

-----------------------------------------------------------------------------
TxnStages ==
  {"none", "verify", "entity", "owner", "insert", "inserted", "replay", "done"}
TxnReplies ==
  {"NONE", "INGESTED", "IDEMPOTENT_REPLAY", "CONFLICT", "INVALID", "UNAVAILABLE"}
ClientStages == {"idle", "upload", "ingest", "look", "again", "done"}
Results == TxnReplies \cup {"RECONCILED", "RAISED"}

\* All variables stay in their types.
IngestTypeOK ==
  /\ object \in [Keys -> Contents \cup {Nothing}]
  /\ request \in [Puts -> [key : Keys, content : Contents] \cup {NoRequest}]
  /\ reply \in [Puts -> Replies \cup {"NONE"}]
  /\ row \in [Entities -> Manifests \cup {NoManifest}]
  /\ txn \in [Requests -> [at : TxnStages, reply : TxnReplies]]
  /\ client \in [Clients -> [at : ClientStages, manifest : Manifests \cup {NoManifest},
                             result : Results]]
  /\ \A c \in Clients : ClientAt(c, "done") <=> client[c].result # "NONE"
  /\ faults \in 0 .. MaxFaults

\* Every canonical row points at an object with exactly the bytes it was
\* registered for, whoever else writes to the store and whatever is lost:
\* artifacts before metadata, and verified (ingest reads before it inserts).
RowIsBacked ==
  \A e \in Registered : object[ArtifactKey(row[e])] = row[e].content

\* A canonical row never changes and never goes away: of two ingests of one
\* entity that both pass the look-up, one inserts (ON CONFLICT DO NOTHING).
RowIsImmutable ==
  [][\A e \in Registered : row'[e] = row[e]]_row

\* An idempotency key names one entity, also when two inserts race past the
\* look-up of its owner.
KeyNamesOneEntity ==
  \A e, f \in Registered :
    row[e].idempotency_key = row[f].idempotency_key => e = f

\* A client that was told its evidence is registered finds it so: the row of
\* its entity holds its bytes and the store has them.
SuccessIsTrue ==
  \A c \in Clients :
    client[c].result \in {"INGESTED", "IDEMPOTENT_REPLAY", "RECONCILED"} =>
      LET m == client[c].manifest IN
      /\ m.entity \in Registered
      /\ row[m.entity].content = m.content
      /\ object[ArtifactKey(m)] = m.content

\* A release decision supersedes only what is registered, so that the history
\* of decisions has no cycle, also when two of them are ingested at once.
HistoryIsAcyclic ==
  \A S \in (SUBSET Registered) \ {{}} : \E e \in S : row[e].supersedes \notin S
=============================================================================
