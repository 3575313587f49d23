------------------------ MODULE EvidenceIngestProofs ------------------------
(***************************************************************************)
(* Proofs about EvidenceIngest, for any number of clients, entities,       *)
(* manifests and faults.                                                   *)
(*                                                                         *)
(* IngestInv is inductive.  It carries what a transaction has established  *)
(* and must still be true when it inserts: the artifact it verified (it    *)
(* cannot change: the store is write-once), the decision it found          *)
(* superseded (rows do not go away), and the exclusive claim of its        *)
(* uncommitted row on its entity and idempotency key.                      *)
(***************************************************************************)
EXTENDS EvidenceIngest, TLAPS

Verified == {"entity", "owner", "insert", "inserted", "replay"}
Successes == {"INGESTED", "IDEMPOTENT_REPLAY", "RECONCILED"}

\* The row of a manifest's entity holds the manifest's bytes.
HasRow(m) == m.entity \in Registered /\ row[m.entity].content = m.content

TxnInv(r) ==
  LET m == ManifestOf(r) IN
  /\ txn[r].at # "none" => m \in Manifests
  /\ txn[r].at = "done" => txn[r].reply # "NONE"
  /\ txn[r].at \in Verified => object[ArtifactKey(m)] = m.content
  /\ txn[r].at \in {"owner", "insert", "inserted"} =>
       m.supersedes \in Registered \cup {NoEntity}
  /\ txn[r].at = "inserted" => m.entity \notin Registered /\ KeyOwners(m) = {}
  /\ txn[r].at = "replay" \/ txn[r].reply \in Successes => m \in Manifests /\ HasRow(m)

InsertsApart ==
  \A r, q \in Requests :
    TxnAt(r, "inserted") /\ TxnAt(q, "inserted") /\ r # q =>
      ~SameUnique(ManifestOf(r), ManifestOf(q))

RowInv(e) ==
  /\ row[e] \in Manifests /\ row[e].entity = e
  /\ row[e].supersedes \in Registered \cup {NoEntity}
  /\ object[ArtifactKey(row[e])] = row[e].content

ClientInv(c) ==
  /\ ClientAt(c, "idle") => \A n \in {1, 2} : txn[<<c, n>>] = [at |-> "none", reply |-> "NONE"]
  /\ ~ClientAt(c, "idle") => client[c].manifest \in Manifests
  /\ client[c].result \in Successes => HasRow(client[c].manifest)

IngestInv ==
  /\ IngestTypeOK
  /\ \A r \in Requests : TxnInv(r)
  /\ InsertsApart
  /\ \A e \in Registered : RowInv(e)
  /\ KeyNamesOneEntity
  /\ HistoryIsAcyclic
  /\ \A c \in Clients : ClientInv(c)

\* A manifest's parts have their types, and its key is a key of the store.
LEMMA ManifestParts ==
  ASSUME NEW m \in Manifests
  PROVE  /\ m \in ManifestRecords
         /\ m # NoManifest
         /\ m.entity \in Entities /\ m.content \in Contents
         /\ m.supersedes \in Entities \cup {NoEntity}
         /\ ArtifactKey(m) \in Keys
BY IngestAssumption DEF ManifestRecords, ArtifactKey

\* Objects that appear do not disturb what was established about others.
LEMMA StoreGrows ==
  ASSUME IngestInv, UNCHANGED <<row, txn, client, faults>>,
         IngestTypeOK',
         \A k \in Keys : object[k] # Nothing => object'[k] = object[k]
  PROVE  IngestInv'
<1>1. ASSUME NEW m \in Manifests, object[ArtifactKey(m)] = m.content
      PROVE  object'[ArtifactKey(m)] = m.content
  BY <1>1, ManifestParts, NothingAssumption
<1>2. \A r \in Requests : TxnInv(r)'
  BY <1>1 DEF IngestInv, TxnInv, HasRow, ManifestOf, Registered, KeyOwners, ArtifactKey, Verified
<1>3. \A e \in Registered' : RowInv(e)'
  BY <1>1 DEF IngestInv, RowInv, Registered, ArtifactKey
<1>4. InsertsApart' /\ KeyNamesOneEntity' /\ HistoryIsAcyclic'
  BY DEF IngestInv, InsertsApart, KeyNamesOneEntity, HistoryIsAcyclic, Registered,
         TxnAt, SameUnique, ManifestOf
<1>5. \A c \in Clients : ClientInv(c)'
  BY DEF IngestInv, ClientInv, ClientAt, HasRow, Registered
<1> QED BY <1>2, <1>3, <1>4, <1>5 DEF IngestInv

\* A client that has not begun has no request at the Control Plane.
LEMMA IdleClientHasNoTxn ==
  ASSUME IngestInv, NEW c \in Clients, ClientAt(c, "idle"), NEW n \in {1, 2}
  PROVE  txn[<<c, n>>].at = "none"
<1>1. ClientInv(c)
  BY DEF IngestInv
<1> QED BY <1>1 DEF ClientInv

\* A transaction moves on without a change of the table.
LEMMA TxnMoves ==
  ASSUME IngestInv, NEW r \in Requests,
         NEW t \in [at : TxnStages, reply : TxnReplies],
         txn' = [txn EXCEPT ![r] = t],
         UNCHANGED <<object, request, reply, row, client>>,
         faults' \in 0 .. MaxFaults,
         txn[r].at # "none",
         t.at = "done" => t.reply # "NONE",
         LET m == ManifestOf(r) IN
         /\ t.at \in Verified => object[ArtifactKey(m)] = m.content
         /\ t.at \in {"owner", "insert", "inserted"} =>
              m.supersedes \in Registered \cup {NoEntity}
         /\ t.at = "inserted" => m.entity \notin Registered /\ KeyOwners(m) = {}
         /\ t.at = "replay" \/ t.reply \in Successes => HasRow(m)
         /\ t.at = "inserted" => \A q \in Requests :
              TxnAt(q, "inserted") => ~SameUnique(ManifestOf(q), m)
  PROVE  IngestInv'
<1>1. \A q \in Requests : txn'[q] = IF q = r THEN t ELSE txn[q]
  BY DEF IngestInv, IngestTypeOK
<1>2. IngestTypeOK'
  BY DEF IngestInv, IngestTypeOK, ClientAt
<1>3. ASSUME NEW q \in Requests
      PROVE  TxnInv(q)'
  <2>1. CASE q = r
    BY <1>1, <2>1 DEF IngestInv, TxnInv, HasRow, ManifestOf, Registered, KeyOwners,
                      ArtifactKey
  <2>2. CASE q # r
    BY <1>1, <2>2 DEF IngestInv, TxnInv, HasRow, ManifestOf, Registered, KeyOwners,
                      ArtifactKey
  <2> QED BY <2>1, <2>2
<1>4. InsertsApart'
  BY <1>1 DEF IngestInv, InsertsApart, TxnAt, SameUnique, ManifestOf
<1>5. /\ \A e \in Registered' : RowInv(e)'
      /\ KeyNamesOneEntity' /\ HistoryIsAcyclic'
  BY DEF IngestInv, RowInv, KeyNamesOneEntity, HistoryIsAcyclic, Registered, ArtifactKey
<1>6. ASSUME NEW c \in Clients
      PROVE  ClientInv(c)'
  <2>1. \A n \in {1, 2} : <<c, n>> \in Requests
    BY DEF Requests
  <2>2. ClientAt(c, "idle") => \A n \in {1, 2} : <<c, n>> # r
    BY IdleClientHasNoTxn
  <2>3. ClientAt(c, "idle") => \A n \in {1, 2} : txn'[<<c, n>>] = txn[<<c, n>>]
    BY <1>1, <2>1, <2>2
  <2> QED BY <2>3 DEF IngestInv, ClientInv, ClientAt, HasRow, Registered
<1> QED BY <1>2, <1>3, <1>4, <1>5, <1>6 DEF IngestInv

\* A transaction commits its row and ends.
LEMMA CommitKeeps ==
  ASSUME IngestInv, NEW r \in Requests, TxnAt(r, "inserted"), Commit(r),
         NEW outcome \in {"INGESTED", "UNAVAILABLE"}, Respond(r, outcome),
         UNCHANGED <<object, request, reply, client>>, faults' \in 0 .. MaxFaults
  PROVE  IngestInv'
<1> PICK m : m = ManifestOf(r)
  OBVIOUS
<1> DEFINE new == m.entity
<1>1. /\ m \in Manifests /\ object[ArtifactKey(m)] = m.content
      /\ m.supersedes \in Registered \cup {NoEntity}
      /\ new \notin Registered /\ KeyOwners(m) = {}
  BY DEF IngestInv, TxnInv, TxnAt, Verified
<1>2. /\ m # NoManifest /\ new \in Entities /\ m.supersedes # new
  BY <1>1, ManifestParts, IngestAssumption
<1>3. /\ \A e \in Entities : row'[e] = IF e = new THEN m ELSE row[e]
      /\ \A q \in Requests :
           txn'[q] = IF q = r THEN [at |-> "done", reply |-> outcome] ELSE txn[q]
      /\ UNCHANGED <<object, client>>
  BY <1>2 DEF Commit, Respond, IngestInv, IngestTypeOK
<1>4. Registered' = Registered \cup {new}
  BY <1>2, <1>3 DEF Registered
<1>5. /\ \A e \in Registered : e \in Entities /\ e # new /\ row'[e] = row[e]
      /\ row'[new] = m
  BY <1>1, <1>2, <1>3 DEF Registered
<1>6. IngestTypeOK'
  BY <1>1, <1>2 DEF IngestInv, IngestTypeOK, Commit, Respond, TxnStages, TxnReplies, ClientAt
<1>7. \A q \in Requests : ManifestOf(q)' = ManifestOf(q)
  BY <1>3 DEF ManifestOf
<1>8. ASSUME NEW n, HasRow(n)
      PROVE  n.entity \in Registered' /\ row'[n.entity].content = n.content
  BY <1>4, <1>5, <1>8 DEF HasRow
<1>9. m.entity \in Registered' /\ row'[m.entity].content = m.content
  BY <1>4, <1>5
<1>10. ASSUME NEW n, n.idempotency_key # m.idempotency_key, KeyOwners(n) = {},
              NEW e \in Registered'
       PROVE  row'[e].idempotency_key # n.idempotency_key
  BY <1>4, <1>5, <1>10 DEF KeyOwners
<1>11. \A q \in Requests : TxnInv(q)'
  <2> SUFFICES ASSUME NEW q \in Requests PROVE TxnInv(q)'
    OBVIOUS
  <2>1. CASE q = r
    <3>1. ManifestOf(q)' = m /\ txn'[q] = [at |-> "done", reply |-> outcome]
      BY <1>3, <1>7, <2>1
    <3> QED BY <1>1, <1>9, <3>1 DEF TxnInv, HasRow, Verified
  <2>2. CASE q # r
    <3> PICK n : n = ManifestOf(q)
      OBVIOUS
    <3>1. TxnInv(q) /\ txn'[q] = txn[q] /\ ManifestOf(q)' = n
      BY <1>3, <1>7, <2>2 DEF IngestInv
    <3>2. txn[q].at = "inserted" => ~SameUnique(m, n)
      BY <2>2 DEF IngestInv, InsertsApart, TxnAt
    <3>3. ASSUME txn[q].at = "inserted"
          PROVE  n.entity \notin Registered' /\ KeyOwners(n)' = {}
      <4>1. n.entity \notin Registered /\ KeyOwners(n) = {}
        BY <3>1, <3>3 DEF TxnInv
      <4>2. n.entity # new /\ n.idempotency_key # m.idempotency_key
        BY <3>2, <3>3 DEF SameUnique
      <4> QED BY <1>4, <1>10, <4>1, <4>2 DEF KeyOwners
    <3>4. /\ txn[q].at # "none" => n \in Manifests
          /\ txn[q].at = "done" => txn[q].reply # "NONE"
      BY <3>1 DEF TxnInv
    <3>5. txn[q].at \in Verified => object'[ArtifactKey(n)] = n.content
      BY <1>3, <3>1 DEF TxnInv
    <3>6. txn[q].at \in {"owner", "insert", "inserted"} =>
            n.supersedes \in Registered' \cup {NoEntity}
      BY <1>4, <3>1 DEF TxnInv
    <3>7. txn[q].at = "replay" \/ txn[q].reply \in Successes =>
            /\ n \in Manifests
            /\ n.entity \in Registered' /\ row'[n.entity].content = n.content
      BY <1>8, <3>1 DEF TxnInv
    <3> QED BY <3>1, <3>3, <3>4, <3>5, <3>6, <3>7 DEF TxnInv, HasRow, ArtifactKey
  <2> QED BY <2>1, <2>2
<1>12. InsertsApart'
  BY <1>3, <1>7 DEF IngestInv, InsertsApart, TxnAt, SameUnique
<1>13. ASSUME NEW e \in Registered'
       PROVE  RowInv(e)'
  <2>1. CASE e = new
    BY <1>1, <1>3, <1>4, <1>5, <2>1 DEF RowInv, ArtifactKey
  <2>2. CASE e # new
    <3>1. e \in Registered /\ row'[e] = row[e] /\ RowInv(e)
      BY <1>4, <1>5, <2>2 DEF IngestInv
    <3> QED BY <1>3, <1>4, <3>1 DEF RowInv, ArtifactKey
  <2> QED BY <2>1, <2>2
<1>14. KeyNamesOneEntity'
  <2>1. \A e \in Registered : row[e].idempotency_key # m.idempotency_key
    BY <1>1 DEF KeyOwners
  <2>2. \A e, f \in Registered :
          row[e].idempotency_key = row[f].idempotency_key => e = f
    BY DEF IngestInv, KeyNamesOneEntity
  <2> SUFFICES ASSUME NEW e \in Registered', NEW f \in Registered',
                      row'[e].idempotency_key = row'[f].idempotency_key
               PROVE  e = f
    BY DEF KeyNamesOneEntity
  <2> QED BY <1>4, <1>5, <2>1, <2>2
<1>15. HistoryIsAcyclic'
  <2> SUFFICES ASSUME NEW S \in SUBSET Registered', S # {}
               PROVE  \E e \in S : row'[e].supersedes \notin S
    BY DEF HistoryIsAcyclic
  <2>1. CASE S \subseteq {new}
    BY <1>2, <1>5, <2>1
  <2>2. CASE ~(S \subseteq {new})
    <3>1. S \ {new} \in SUBSET Registered /\ S \ {new} # {}
      BY <1>4, <2>2
    <3>2. PICK e \in S \ {new} : row[e].supersedes \notin S \ {new}
      BY <3>1 DEF IngestInv, HistoryIsAcyclic
    <3>3. row[e].supersedes # new
      BY <1>1, <1>2, <3>1, IngestAssumption DEF IngestInv, RowInv
    <3>4. row'[e] = row[e]
      BY <1>5, <3>1
    <3> QED BY <3>2, <3>3, <3>4
  <2> QED BY <2>1, <2>2
<1>16. \A c \in Clients : ClientInv(c)'
  <2> SUFFICES ASSUME NEW c \in Clients PROVE ClientInv(c)'
    OBVIOUS
  <2>1. \A n \in {1, 2} : <<c, n>> \in Requests
    BY DEF Requests
  <2>2. ClientAt(c, "idle") => \A n \in {1, 2} : <<c, n>> # r
    BY IdleClientHasNoTxn DEF TxnAt
  <2>3. ClientAt(c, "idle") => \A n \in {1, 2} : txn'[<<c, n>>] = txn[<<c, n>>]
    BY <1>3, <2>1, <2>2
  <2>4. ClientInv(c) /\ client'[c] = client[c]
    BY <1>3 DEF IngestInv
  <2>5. client[c].result \in Successes =>
          /\ client[c].manifest.entity \in Registered'
          /\ row'[client[c].manifest.entity].content = client[c].manifest.content
    BY <1>8, <2>4 DEF ClientInv
  <2> QED BY <2>3, <2>4, <2>5 DEF ClientInv, ClientAt, HasRow
<1> QED BY <1>6, <1>11, <1>12, <1>13, <1>14, <1>15, <1>16 DEF IngestInv

\* A client moves on, or starts with a manifest, and may send a request.
LEMMA ClientMoves ==
  ASSUME IngestInv, NEW c \in Clients,
         NEW k \in [at : ClientStages, manifest : Manifests, result : Results],
         client' = [client EXCEPT ![c] = k],
         k.at # "idle", k.at = "done" <=> k.result # "NONE",
         ClientAt(c, "idle") \/ k.manifest = client[c].manifest,
         k.result \in Successes => HasRow(k.manifest),
         \/ UNCHANGED txn
         \/ \E n \in {1, 2} : txn' = [txn EXCEPT ![<<c, n>>].at = "verify"],
         request' \in [Puts -> [key : Keys, content : Contents] \cup {NoRequest}],
         UNCHANGED <<object, reply, row>>, faults' \in 0 .. MaxFaults
  PROVE  IngestInv'
<1>1. \A n \in {1, 2} : <<c, n>> \in Requests /\ <<c, n>>[1] = c
  BY DEF Requests
<1>2. \A d \in Clients : client'[d] = IF d = c THEN k ELSE client[d]
  BY DEF IngestInv, IngestTypeOK
<1>3. \A q \in Requests : q[1] \in Clients
  BY DEF Requests
<1>4. \A q \in Requests :
        \/ txn'[q] = txn[q]
        \/ q[1] = c /\ txn'[q].at = "verify" /\ txn'[q].reply = txn[q].reply
  <2>1. txn \in [Requests -> [at : TxnStages, reply : TxnReplies]]
    BY DEF IngestInv, IngestTypeOK
  <2>2. CASE UNCHANGED txn
    BY <2>2
  <2>3. ASSUME NEW n \in {1, 2}, txn' = [txn EXCEPT ![<<c, n>>].at = "verify"],
               NEW q \in Requests
        PROVE  \/ txn'[q] = txn[q]
               \/ q[1] = c /\ txn'[q].at = "verify" /\ txn'[q].reply = txn[q].reply
    <3>1. txn'[q] = IF q = <<c, n>> THEN [txn[q] EXCEPT !.at = "verify"] ELSE txn[q]
      BY <2>1, <2>3
    <3>2. txn[q] \in [at : TxnStages, reply : TxnReplies]
      BY <2>1
    <3> QED BY <1>1, <3>1, <3>2
  <2> QED BY <2>2, <2>3
<1>5. \A q \in Requests : txn'[q].at = "inserted" => txn'[q] = txn[q]
  BY <1>4
<1>6. ASSUME NEW q \in Requests, q[1] = c, ClientAt(c, "idle")
      PROVE  txn[q] = [at |-> "none", reply |-> "NONE"]
  <2>1. PICK n \in {1, 2} : q = <<c, n>>
    BY <1>6 DEF Requests
  <2>2. ClientInv(c)
    BY DEF IngestInv
  <2> QED BY <1>6, <2>1, <2>2 DEF ClientInv
<1>7. \A q \in Requests :
        \/ ManifestOf(q)' = ManifestOf(q)
        \/ q[1] = c /\ txn[q] = [at |-> "none", reply |-> "NONE"]
  BY <1>2, <1>3, <1>6 DEF ManifestOf
<1>8. IngestTypeOK'
  <2>1. txn' \in [Requests -> [at : TxnStages, reply : TxnReplies]]
    BY <1>1 DEF IngestInv, IngestTypeOK, TxnStages
  <2>2. \A d \in Clients : ClientAt(d, "done")' <=> client'[d].result # "NONE"
    <3>1. \A d \in Clients : ClientAt(d, "done") <=> client[d].result # "NONE"
      BY DEF IngestInv, IngestTypeOK
    <3> QED BY <1>2, <3>1 DEF ClientAt
  <2>3. client' \in [Clients -> [at : ClientStages, manifest : Manifests \cup {NoManifest},
                               result : Results]]
    BY DEF IngestInv, IngestTypeOK
  <2> QED BY <2>1, <2>2, <2>3 DEF IngestInv, IngestTypeOK
<1>9. ASSUME NEW q \in Requests
      PROVE  TxnInv(q)'
  <2>1. TxnInv(q)
    BY DEF IngestInv
  <2>2. CASE ManifestOf(q)' = ManifestOf(q)
    <3>1. txn'[q].at # "none" => ManifestOf(q) \in Manifests
      <4>1. CASE txn'[q] = txn[q]
        BY <2>1, <4>1 DEF TxnInv
      <4>2. CASE q[1] = c
        BY <1>2, <2>2, <4>2 DEF ManifestOf
      <4> QED BY <1>4, <4>1, <4>2
    <3>2. /\ txn'[q].at = txn[q].at \/ txn'[q].at = "verify"
          /\ txn'[q].reply = txn[q].reply
      BY <1>4
    <3>3. KeyOwners(ManifestOf(q))' = KeyOwners(ManifestOf(q)) /\ Registered' = Registered
      BY <2>2 DEF KeyOwners, Registered
    <3> QED BY <2>1, <2>2, <3>1, <3>2, <3>3 DEF TxnInv, HasRow, Verified, ArtifactKey
  <2>3. CASE q[1] = c /\ txn[q] = [at |-> "none", reply |-> "NONE"]
    <3>1. txn'[q].at \in {"none", "verify"} /\ txn'[q].reply = "NONE"
      BY <1>4, <2>3
    <3>2. ManifestOf(q)' \in Manifests
      BY <1>2, <2>3 DEF ManifestOf
    <3> QED BY <3>1, <3>2 DEF TxnInv, Verified, Successes
  <2> QED BY <1>7, <2>2, <2>3
<1>10. InsertsApart'
  <2> SUFFICES ASSUME NEW r \in Requests, NEW q \in Requests, r # q,
                      txn'[r].at = "inserted", txn'[q].at = "inserted"
               PROVE  ~SameUnique(ManifestOf(r), ManifestOf(q))'
    BY DEF InsertsApart, TxnAt
  <2>1. /\ txn[r].at = "inserted" /\ ManifestOf(r)' = ManifestOf(r)
        /\ txn[q].at = "inserted" /\ ManifestOf(q)' = ManifestOf(q)
    BY <1>5, <1>7
  <2>2. ~SameUnique(ManifestOf(r), ManifestOf(q))
    BY <2>1 DEF IngestInv, InsertsApart, TxnAt
  <2> QED BY <2>1, <2>2 DEF SameUnique
<1>11. /\ \A e \in Registered' : RowInv(e)'
       /\ KeyNamesOneEntity' /\ HistoryIsAcyclic'
  BY DEF IngestInv, RowInv, KeyNamesOneEntity, HistoryIsAcyclic, Registered, ArtifactKey
<1>12. ASSUME NEW d \in Clients
       PROVE  ClientInv(d)'
  <2>1. CASE d = c
    BY <1>2, <2>1 DEF ClientInv, ClientAt, HasRow, Registered
  <2>2. CASE d # c
    <3>1. ClientInv(d) /\ client'[d] = client[d]
      BY <1>2, <2>2 DEF IngestInv
    <3>2. \A n \in {1, 2} : <<d, n>> \in Requests /\ <<d, n>>[1] # c
      BY <2>2 DEF Requests
    <3>3. \A n \in {1, 2} : txn'[<<d, n>>] = txn[<<d, n>>]
      BY <1>4, <3>2
    <3> QED BY <3>1, <3>3 DEF ClientInv, ClientAt, HasRow, Registered
  <2> QED BY <2>1, <2>2
<1> QED BY <1>8, <1>9, <1>10, <1>11, <1>12 DEF IngestInv

-----------------------------------------------------------------------------
\* One step of a transaction that does not commit.
LEMMA AdvanceKeeps ==
  ASSUME IngestInv, NEW r \in Requests, NEW stage \in TxnStages \ {"none", "done"},
         TxnAdvance(r, stage), txn[r].at # "none",
         UNCHANGED <<object, request, reply, row, client>>,
         faults' \in 0 .. MaxFaults,
         LET m == ManifestOf(r) IN
         /\ stage \in Verified => object[ArtifactKey(m)] = m.content
         /\ stage \in {"owner", "insert", "inserted"} =>
              m.supersedes \in Registered \cup {NoEntity}
         /\ stage = "replay" => HasRow(m)
         /\ stage = "inserted" =>
              /\ m.entity \notin Registered /\ KeyOwners(m) = {}
              /\ \A q \in Requests :
                   TxnAt(q, "inserted") => ~SameUnique(ManifestOf(q), m)
  PROVE  IngestInv'
<1> PICK t : t = [txn[r] EXCEPT !.at = stage]
  OBVIOUS
<1>1. txn \in [Requests -> [at : TxnStages, reply : TxnReplies]]
  BY DEF IngestInv, IngestTypeOK
<1>2. txn[r] \in [at : TxnStages, reply : TxnReplies]
  BY <1>1
<1>3. /\ t \in [at : TxnStages, reply : TxnReplies]
      /\ t.at = stage /\ t.reply = txn[r].reply
  BY <1>2
<1>4. txn' = [txn EXCEPT ![r] = t]
  BY <1>1 DEF TxnAdvance
<1>5. t.reply \in Successes => HasRow(ManifestOf(r))
  BY <1>3 DEF IngestInv, TxnInv
<1> QED BY <1>3, <1>4, <1>5, TxnMoves

LEMMA RespondKeeps ==
  ASSUME IngestInv, NEW r \in Requests, NEW outcome \in TxnReplies \ {"NONE"},
         Respond(r, outcome), txn[r].at # "none",
         outcome \in Successes => HasRow(ManifestOf(r)),
         UNCHANGED <<object, request, reply, row, client>>,
         faults' \in 0 .. MaxFaults
  PROVE  IngestInv'
<1> PICK t : t = [at |-> "done", reply |-> outcome]
  OBVIOUS
<1>1. t \in [at : TxnStages, reply : TxnReplies] /\ t.at = "done" /\ t.reply = outcome
  BY DEF TxnStages
<1>2. txn' = [txn EXCEPT ![r] = t]
  BY DEF Respond
<1>3. t.at \notin Verified
  BY <1>1 DEF Verified
<1> QED BY <1>1, <1>2, <1>3, TxnMoves

LEMMA ReplayOrConflictKeeps ==
  ASSUME IngestInv, NEW r \in Requests, ReplayOrConflict(r),
         txn[r].at \in {"entity", "insert"}, ManifestOf(r).entity \in Registered,
         UNCHANGED <<object, request, reply, row, client>>,
         faults' \in 0 .. MaxFaults
  PROVE  IngestInv'
<1>1. object[ArtifactKey(ManifestOf(r))] = ManifestOf(r).content
  BY DEF IngestInv, TxnInv, Verified
<1>2. CASE row[ManifestOf(r).entity].content = ManifestOf(r).content
  BY <1>1, <1>2, AdvanceKeeps DEF ReplayOrConflict, HasRow, TxnStages
<1>3. CASE row[ManifestOf(r).entity].content # ManifestOf(r).content
  BY <1>3, RespondKeeps DEF ReplayOrConflict, TxnReplies, Successes
<1> QED BY <1>2, <1>3

LEMMA TxnStepKeeps ==
  ASSUME IngestInv, NEW r \in Requests, TxnStep(r), UNCHANGED storeVars, UNCHANGED faults
  PROVE  IngestInv'
<1>1. UNCHANGED <<object, request, reply>> /\ faults' \in 0 .. MaxFaults
  BY DEF storeVars, IngestInv, IngestTypeOK
<1>2. TxnInv(r)
  BY DEF IngestInv
<1>3. CASE Verify(r)
  <2>1. CASE object[ArtifactKey(ManifestOf(r))] = ManifestOf(r).content
    BY <1>1, <1>3, <2>1, AdvanceKeeps DEF Verify, TxnAt, TxnStages
  <2>2. CASE object[ArtifactKey(ManifestOf(r))] # ManifestOf(r).content
    BY <1>1, <1>3, <2>2, RespondKeeps DEF Verify, TxnAt, TxnReplies, Successes
  <2> QED BY <2>1, <2>2
<1>4. CASE FindEntity(r)
  <2>1. CASE ManifestOf(r).supersedes \notin Registered \cup {NoEntity}
    BY <1>1, <1>4, <2>1, RespondKeeps DEF FindEntity, TxnAt, TxnReplies, Successes
  <2>2. CASE /\ ManifestOf(r).supersedes \in Registered \cup {NoEntity}
             /\ ManifestOf(r).entity \in Registered
    BY <1>1, <1>4, <2>2, ReplayOrConflictKeeps DEF FindEntity, TxnAt
  <2>3. CASE /\ ManifestOf(r).supersedes \in Registered \cup {NoEntity}
             /\ ManifestOf(r).entity \notin Registered
    <3>1. object[ArtifactKey(ManifestOf(r))] = ManifestOf(r).content
      BY <1>2, <1>4 DEF FindEntity, TxnAt, TxnInv, Verified
    <3> QED BY <1>1, <1>4, <2>3, <3>1, AdvanceKeeps DEF FindEntity, TxnAt, TxnStages
  <2> QED BY <2>1, <2>2, <2>3
<1>5. CASE FindByIdempotency(r)
  <2>1. CASE KeyOwners(ManifestOf(r)) # {}
    BY <1>1, <1>5, <2>1, RespondKeeps DEF FindByIdempotency, TxnAt, TxnReplies, Successes
  <2>2. CASE KeyOwners(ManifestOf(r)) = {}
    <3>1. /\ object[ArtifactKey(ManifestOf(r))] = ManifestOf(r).content
          /\ ManifestOf(r).supersedes \in Registered \cup {NoEntity}
      BY <1>2, <1>5 DEF FindByIdempotency, TxnAt, TxnInv, Verified
    <3> QED BY <1>1, <1>5, <2>2, <3>1, AdvanceKeeps
            DEF FindByIdempotency, TxnAt, TxnStages
  <2> QED BY <2>1, <2>2
<1>6. CASE Insert(r)
  <2>1. CASE ManifestOf(r).entity \in Registered
    BY <1>1, <1>6, <2>1, ReplayOrConflictKeeps DEF Insert, TxnAt
  <2>2. CASE ManifestOf(r).entity \notin Registered /\ KeyOwners(ManifestOf(r)) # {}
    BY <1>1, <1>6, <2>2, RespondKeeps DEF Insert, TxnAt, TxnReplies, Successes
  <2>3. CASE ManifestOf(r).entity \notin Registered /\ KeyOwners(ManifestOf(r)) = {}
    <3>1. /\ object[ArtifactKey(ManifestOf(r))] = ManifestOf(r).content
          /\ ManifestOf(r).supersedes \in Registered \cup {NoEntity}
      BY <1>2, <1>6 DEF Insert, TxnAt, TxnInv, Verified
    <3>2. \A q \in Requests : TxnAt(q, "inserted") =>
            ~SameUnique(ManifestOf(q), ManifestOf(r))
      BY <1>6 DEF Insert
    <3>3. /\ TxnAdvance(r, "inserted") /\ UNCHANGED <<row, client>>
          /\ txn[r].at = "insert"
      BY <1>6, <2>3 DEF Insert, TxnAt
    <3> QED BY <1>1, <2>3, <3>1, <3>2, <3>3, AdvanceKeeps DEF TxnStages
  <2> QED BY <2>1, <2>2, <2>3
<1>7. CASE Created(r)
  BY <1>1, <1>7, CommitKeeps DEF Created
<1>8. CASE Replayed(r)
  <2>1. HasRow(ManifestOf(r))
    BY <1>2, <1>8 DEF Replayed, TxnAt, TxnInv
  <2> QED BY <1>1, <1>8, <2>1, RespondKeeps DEF Replayed, TxnAt, TxnReplies
<1> QED BY <1>3, <1>4, <1>5, <1>6, <1>7, <1>8 DEF TxnStep

LEMMA UnavailableKeeps ==
  ASSUME IngestInv, NEW r \in Requests, Unavailable(r), UNCHANGED storeVars,
         faults' \in 0 .. MaxFaults
  PROVE  IngestInv'
<1>1. UNCHANGED <<object, request, reply>>
  BY DEF storeVars
<1>2. CASE UNCHANGED row
  BY <1>1, <1>2, RespondKeeps DEF Unavailable, TxnReplies, Successes
<1>3. CASE TxnAt(r, "inserted") /\ Commit(r)
  BY <1>1, <1>3, CommitKeeps DEF Unavailable
<1> QED BY <1>2, <1>3 DEF Unavailable

-----------------------------------------------------------------------------
\* A client goes on to another stage, or ends.
LEMMA GoOnKeeps ==
  ASSUME IngestInv, NEW c \in Clients, NEW stage \in ClientStages \ {"idle", "done"},
         ~ClientAt(c, "idle"), ~ClientAt(c, "done"),
         client' = [client EXCEPT ![c].at = stage],
         \/ UNCHANGED txn
         \/ \E n \in {1, 2} : txn' = [txn EXCEPT ![<<c, n>>].at = "verify"],
         UNCHANGED <<object, request, reply, row>>, faults' \in 0 .. MaxFaults
  PROVE  IngestInv'
<1> PICK k : k = [client[c] EXCEPT !.at = stage]
  OBVIOUS
<1>1. client \in [Clients -> [at : ClientStages, manifest : Manifests \cup {NoManifest},
                             result : Results]]
  BY DEF IngestInv, IngestTypeOK
<1>2. client[c] \in [at : ClientStages, manifest : Manifests \cup {NoManifest},
                    result : Results]
  BY <1>1
<1>3. client[c].manifest \in Manifests /\ client[c].result = "NONE"
  BY DEF IngestInv, IngestTypeOK, ClientInv
<1>4. /\ k \in [at : ClientStages, manifest : Manifests, result : Results]
      /\ k.at = stage /\ k.manifest = client[c].manifest /\ k.result = "NONE"
  BY <1>2, <1>3
<1>5. client' = [client EXCEPT ![c] = k]
  BY <1>1
<1>6. request' \in [Puts -> [key : Keys, content : Contents] \cup {NoRequest}]
  BY DEF IngestInv, IngestTypeOK
<1>7. k.result \notin Successes /\ k.at \notin {"idle", "done"}
  BY <1>4 DEF Successes
<1> QED BY <1>4, <1>5, <1>6, <1>7, ClientMoves

LEMMA FinishKeeps ==
  ASSUME IngestInv, NEW c \in Clients, NEW result \in Results \ {"NONE"},
         ~ClientAt(c, "idle"), Finish(c, result),
         result \in Successes => HasRow(client[c].manifest),
         UNCHANGED <<row, txn, object, request, reply>>, faults' \in 0 .. MaxFaults
  PROVE  IngestInv'
<1> PICK k : k = [client[c] EXCEPT !.at = "done", !.result = result]
  OBVIOUS
<1>1. client \in [Clients -> [at : ClientStages, manifest : Manifests \cup {NoManifest},
                             result : Results]]
  BY DEF IngestInv, IngestTypeOK
<1>2. client[c] \in [at : ClientStages, manifest : Manifests \cup {NoManifest},
                    result : Results]
  BY <1>1
<1>3. client[c].manifest \in Manifests
  BY DEF IngestInv, ClientInv
<1>4. /\ k \in [at : ClientStages, manifest : Manifests, result : Results]
      /\ k.at = "done" /\ k.manifest = client[c].manifest /\ k.result = result
  BY <1>2, <1>3 DEF ClientStages
<1>5. client' = [client EXCEPT ![c] = k]
  BY <1>1 DEF Finish
<1>6. request' \in [Puts -> [key : Keys, content : Contents] \cup {NoRequest}]
  BY DEF IngestInv, IngestTypeOK
<1> QED BY <1>4, <1>5, <1>6, ClientMoves

\* A client starts: its manifest's bytes are sent, or its manifest is.
LEMMA StartKeeps ==
  ASSUME IngestInv, NEW c \in Clients, NEW m \in Manifests,
         IngestFile(c, m) \/ IngestUnsent(c, m), UNCHANGED faults
  PROVE  IngestInv'
<1>1. client \in [Clients -> [at : ClientStages, manifest : Manifests \cup {NoManifest},
                             result : Results]]
  BY DEF IngestInv, IngestTypeOK
<1>2. /\ client[c] \in [at : ClientStages, manifest : Manifests \cup {NoManifest},
                       result : Results]
      /\ ClientAt(c, "idle") /\ client[c].result = "NONE"
  <2>1. client[c] \in [at : ClientStages, manifest : Manifests \cup {NoManifest},
                      result : Results]
    BY <1>1
  <2>2. ClientAt(c, "idle")
    BY DEF IngestFile, IngestUnsent
  <2> QED BY <2>1, <2>2 DEF IngestInv, IngestTypeOK, ClientAt
<1> PICK stage \in {"upload", "ingest"} :
         client' = [client EXCEPT ![c].at = stage, ![c].manifest = m]
  BY DEF IngestFile, IngestUnsent
<1> PICK k : k = [client[c] EXCEPT !.at = stage, !.manifest = m]
  OBVIOUS
<1>3. /\ k \in [at : ClientStages, manifest : Manifests, result : Results]
      /\ k.at = stage /\ k.result = "NONE"
  BY <1>2 DEF ClientStages
<1>4. client' = [client EXCEPT ![c] = k]
  BY <1>1
<1>5. request' \in [Puts -> [key : Keys, content : Contents] \cup {NoRequest}]
  <2>1. request \in [Puts -> [key : Keys, content : Contents] \cup {NoRequest}]
    BY DEF IngestInv, IngestTypeOK
  <2>2. [key |-> ArtifactKey(m), content |-> m.content] \in [key : Keys, content : Contents]
    BY ManifestParts
  <2>3. \/ UNCHANGED request
        \/ request' = [request EXCEPT
             ![c] = [key |-> ArtifactKey(m), content |-> m.content]]
    BY DEF IngestFile, IngestUnsent, Put
  <2> QED BY <2>1, <2>2, <2>3
<1>6. /\ UNCHANGED <<object, reply, row>>
      /\ \/ UNCHANGED txn
         \/ \E n \in {1, 2} : txn' = [txn EXCEPT ![<<c, n>>].at = "verify"]
  BY DEF IngestFile, IngestUnsent, Put
<1>7. faults' \in 0 .. MaxFaults
  BY DEF IngestInv, IngestTypeOK
<1> QED BY <1>2, <1>3, <1>4, <1>5, <1>6, <1>7, ClientMoves DEF Successes

LEMMA ClientStepKeeps ==
  ASSUME IngestInv, NEW c \in Clients, ClientStep(c), UNCHANGED faults
  PROVE  IngestInv'
<1>1. faults' \in 0 .. MaxFaults
  BY DEF IngestInv, IngestTypeOK
<1>2. CASE \E m \in Manifests : IngestFile(c, m) \/ IngestUnsent(c, m)
  BY <1>2, StartKeeps
<1>3. CASE UploadAnswered(c)
  BY <1>1, <1>3, GoOnKeeps DEF UploadAnswered, SendIngest, ClientAt, ClientStages
<1>4. CASE UploadRaises(c)
  BY <1>1, <1>4, FinishKeeps DEF UploadRaises, ClientAt, Results, Successes
<1>5. CASE IngestAnswered(c)
  <2>1. CASE ClientAt(c, "ingest") /\ txn[<<c, 1>>].reply = "UNAVAILABLE"
    BY <1>1, <1>5, <2>1, GoOnKeeps DEF IngestAnswered, ClientAt, ClientStages
  <2>2. CASE ~(ClientAt(c, "ingest") /\ txn[<<c, 1>>].reply = "UNAVAILABLE")
    <3>1. PICK r \in Requests : r = Pending(c) /\ r[1] = c
      <4>1. <<c, 1>> \in Requests /\ <<c, 1>>[1] = c /\ <<c, 2>> \in Requests /\ <<c, 2>>[1] = c
        BY DEF Requests
      <4> QED BY <4>1 DEF Pending
    <3>2. /\ txn[r].reply \in Results \ {"NONE"}
          /\ txn[r].reply \in Successes => HasRow(client[c].manifest)
      <4>1. TxnInv(r) /\ txn[r].at = "done" /\ txn[r].reply \in TxnReplies
        BY <1>5, <3>1 DEF IngestInv, IngestTypeOK, IngestAnswered, TxnAt
      <4> QED BY <3>1, <4>1 DEF TxnInv, ManifestOf, Results
    <3>3. Finish(c, txn[r].reply)
      BY <1>5, <2>2, <3>1 DEF IngestAnswered
    <3> QED BY <1>1, <1>5, <3>2, <3>3, FinishKeeps DEF IngestAnswered, ClientAt
  <2> QED BY <2>1, <2>2
<1>6. CASE LookUp(c)
  <2>1. CASE client[c].manifest.entity \notin Registered
    BY <1>1, <1>6, <2>1, GoOnKeeps DEF LookUp, SendIngest, ClientAt, ClientStages
  <2>2. CASE /\ client[c].manifest.entity \in Registered
             /\ row[client[c].manifest.entity].content = client[c].manifest.content
    BY <1>1, <1>6, <2>2, FinishKeeps DEF LookUp, ClientAt, HasRow, Results
  <2>3. CASE /\ client[c].manifest.entity \in Registered
             /\ row[client[c].manifest.entity].content # client[c].manifest.content
    BY <1>1, <1>6, <2>3, FinishKeeps DEF LookUp, ClientAt, Results, TxnReplies, Successes
  <2> QED BY <2>1, <2>2, <2>3
<1>7. CASE LookUpFails(c)
  BY <1>1, <1>7, FinishKeeps DEF LookUpFails, ClientAt, Results, Successes
<1> QED BY <1>2, <1>3, <1>4, <1>5, <1>6, <1>7 DEF ClientStep

LEMMA UncertainKeeps ==
  ASSUME IngestInv, NEW c \in Clients, IngestUncertain(c), faults' \in 0 .. MaxFaults
  PROVE  IngestInv'
<1>1. CASE ClientAt(c, "ingest")
  BY <1>1, GoOnKeeps DEF IngestUncertain, ClientAt, ClientStages
<1>2. CASE ~ClientAt(c, "ingest")
  BY <1>2, FinishKeeps DEF IngestUncertain, ClientAt, Results, Successes
<1> QED BY <1>1, <1>2

-----------------------------------------------------------------------------
LEMMA StoreStepKeeps ==
  ASSUME IngestInv, StoreStep, UNCHANGED ingestVars, UNCHANGED faults
  PROVE  IngestInv'
<1>1. \A p \in Puts : request[p] # NoRequest =>
        request[p].key \in Keys /\ request[p].content \in Contents
  BY DEF IngestInv, IngestTypeOK
<1>2. /\ object' \in [Keys -> Contents \cup {Nothing}]
      /\ request' \in [Puts -> [key : Keys, content : Contents] \cup {NoRequest}]
      /\ reply' \in [Puts -> Replies \cup {"NONE"}]
      /\ \A k \in Keys : object[k] # Nothing => object'[k] = object[k]
  <2>1. CASE \E p \in Puts : Write(p)
    BY <1>1, <2>1 DEF Write, Stored, Replies, IngestInv, IngestTypeOK
  <2>2. CASE \E c \in Clients : Reply(c)
    BY <2>2, IngestAssumption DEF Reply, IngestInv, IngestTypeOK
  <2>3. CASE \E p \in Uploads, k \in Keys, x \in Contents : Put(p, k, x)
    <3>1. PICK p \in Uploads, k \in Keys, x \in Contents : Put(p, k, x)
      BY <2>3
    <3>2. [key |-> k, content |-> x] \in [key : Keys, content : Contents]
      OBVIOUS
    <3> QED BY <3>1, <3>2 DEF Put, IngestInv, IngestTypeOK
  <2> QED BY <2>1, <2>2, <2>3 DEF StoreStep
<1>3. UNCHANGED <<row, txn, client, faults>>
  BY DEF ingestVars
<1>4. IngestTypeOK'
  BY <1>2, <1>3 DEF IngestInv, IngestTypeOK, ClientAt
<1> QED BY <1>2, <1>3, <1>4, StoreGrows

LEMMA InitSafe == IngestInit => IngestInv
<1> SUFFICES ASSUME IngestInit PROVE IngestInv
  OBVIOUS
<1>1. IngestTypeOK
  BY IngestAssumption DEF IngestInit, StoreInit, IngestTypeOK, Replies, TxnStages,
     TxnReplies, ClientStages, Results, ClientAt
<1>2. Registered = {}
  BY DEF IngestInit, Registered
<1>3. \A r \in Requests : txn[r] = [at |-> "none", reply |-> "NONE"]
  BY DEF IngestInit
<1>4. (\A r \in Requests : TxnInv(r)) /\ InsertsApart
  BY <1>3 DEF TxnInv, InsertsApart, TxnAt, Verified, Successes
<1>5. KeyNamesOneEntity /\ HistoryIsAcyclic
  BY <1>2 DEF KeyNamesOneEntity, HistoryIsAcyclic
<1>6. \A c \in Clients : ClientInv(c)
  BY <1>3 DEF ClientInv, ClientAt, IngestInit, Requests, Successes
<1> QED BY <1>1, <1>2, <1>4, <1>5, <1>6 DEF IngestInv

LEMMA NextSafe == IngestInv /\ [IngestNext]_vars => IngestInv'
<1> SUFFICES ASSUME IngestInv, [IngestNext]_vars PROVE IngestInv'
  OBVIOUS
<1>1. CASE Step /\ UNCHANGED faults
  BY <1>1, StoreStepKeeps, TxnStepKeeps, ClientStepKeeps DEF Step
<1>2. CASE Fault /\ faults < MaxFaults /\ faults' = faults + 1
  <2>1. faults' \in 0 .. MaxFaults
    BY <1>2, IngestAssumption DEF IngestInv, IngestTypeOK
  <2> QED BY <1>2, <2>1, UnavailableKeeps, UncertainKeeps DEF Fault
<1>3. CASE UNCHANGED vars
  <2>1. UNCHANGED <<object, request, reply, row, txn, client, faults>>
    BY <1>3 DEF vars
  <2>2. IngestTypeOK'
    BY <2>1 DEF IngestInv, IngestTypeOK, ClientAt
  <2> QED BY <2>1, <2>2, StoreGrows
<1> QED BY <1>1, <1>2, <1>3 DEF IngestNext

\* IngestInv holds in every state: what is canonical is backed, unique and
\* acyclic, and no transaction or client believes otherwise.
THEOREM IngestSafe == IngestSpec => []IngestInv
BY InitSafe, NextSafe, PTL DEF IngestSpec

\* All variables stay in their types.
THEOREM IngestTypeCorrect == IngestSpec => []IngestTypeOK
<1>1. IngestInv => IngestTypeOK
  BY DEF IngestInv
<1> QED BY <1>1, IngestSafe, PTL

\* Every canonical row points at an object with the bytes it was registered
\* for, whatever else is written and whatever is lost.
THEOREM RowsBacked == IngestSpec => []RowIsBacked
<1>1. IngestInv => RowIsBacked
  BY DEF IngestInv, RowIsBacked, RowInv
<1> QED BY <1>1, IngestSafe, PTL

\* An idempotency key names one entity, however many inserts race.
THEOREM KeysUnique == IngestSpec => []KeyNamesOneEntity
<1>1. IngestInv => KeyNamesOneEntity
  BY DEF IngestInv
<1> QED BY <1>1, IngestSafe, PTL

\* A release decision's history never runs in a circle.
THEOREM HistoryAcyclic == IngestSpec => []HistoryIsAcyclic
<1>1. IngestInv => HistoryIsAcyclic
  BY DEF IngestInv
<1> QED BY <1>1, IngestSafe, PTL

\* A client is told of success only when its evidence is registered, and it
\* stays so.
THEOREM SuccessTrue == IngestSpec => []SuccessIsTrue
<1>1. ASSUME IngestInv PROVE SuccessIsTrue
  <2> SUFFICES ASSUME NEW c \in Clients, client[c].result \in Successes
               PROVE  LET m == client[c].manifest IN
                      HasRow(m) /\ object[ArtifactKey(m)] = m.content
    BY DEF SuccessIsTrue, Successes, HasRow
  <2> PICK m : m = client[c].manifest
    OBVIOUS
  <2>1. HasRow(m)
    BY <1>1 DEF IngestInv, ClientInv
  <2>2. RowInv(m.entity)
    BY <1>1, <2>1 DEF IngestInv, HasRow
  <2>3. ArtifactKey(row[m.entity]) = ArtifactKey(m)
    BY <2>1, <2>2 DEF ArtifactKey, RowInv, HasRow
  <2> QED BY <2>1, <2>2, <2>3 DEF RowInv, HasRow
<1> QED BY <1>1, IngestSafe, PTL

\* A canonical row never changes and never goes away.
THEOREM RowsImmutable == IngestSpec => RowIsImmutable
<1>1. ASSUME IngestInv, [IngestNext]_vars
      PROVE  [\A e \in Registered : row'[e] = row[e]]_row
  <2>1. CASE UNCHANGED row
    BY <2>1
  <2>2. ASSUME NEW r \in Requests, TxnAt(r, "inserted"), Commit(r)
        PROVE  \A e \in Registered : row'[e] = row[e]
    <3>1. ManifestOf(r).entity \notin Registered
      <4>1. TxnInv(r)
        BY <1>1 DEF IngestInv
      <4> QED BY <2>2, <4>1 DEF TxnInv, TxnAt
    <3>2. \A e \in Registered : e \in Entities /\ e # ManifestOf(r).entity
      BY <3>1 DEF Registered
    <3> QED BY <1>1, <2>2, <3>2 DEF Commit, IngestInv, IngestTypeOK
  <2>3. \/ UNCHANGED row
        \/ \E r \in Requests : TxnAt(r, "inserted") /\ Commit(r)
    <3>1. CASE Step
      BY <3>1 DEF Step, ingestVars, TxnStep, Verify, FindEntity, FindByIdempotency, Insert,
         Created, Replayed, ClientStep, IngestFile, IngestUnsent, UploadAnswered,
         UploadRaises, IngestAnswered, LookUp, LookUpFails, SendIngest
    <3>2. CASE Fault
      BY <3>2 DEF Fault, Unavailable, IngestUncertain
    <3>3. CASE UNCHANGED vars
      BY <3>3 DEF vars
    <3> QED BY <1>1, <3>1, <3>2, <3>3 DEF IngestNext
  <2> QED BY <2>1, <2>2, <2>3
<1> QED BY <1>1, IngestSafe, PTL DEF IngestSpec, RowIsImmutable
=============================================================================
