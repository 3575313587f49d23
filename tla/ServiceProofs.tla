---------------------------- MODULE ServiceProofs -----------------------------
(***************************************************************************)
(* Proofs about two components that run on their own, share no variable    *)
(* and serve whoever calls them: the artifact store of the Control Plane   *)
(* (ArtifactStore) and the span queue of the runtime (TelemetryQueue).     *)
(* Each theorem is about one of them, for every value of its constants.    *)
(*                                                                         *)
(* ArtifactStore, for any number of concurrent puts, keys and contents and *)
(* any pattern of lost, late and refused requests: StoreInv is inductive.  *)
(* An answer is only given at the end of a put, and what it says about the *)
(* key is true.  It stays true because Create never touches a key that has *)
(* an object (lemma CreateKeeps), and with it every step of the handlers   *)
(* is a step of the contract.                                              *)
(*                                                                         *)
(* TelemetryQueue, for any number of spans and product threads and any     *)
(* queue and batch size: TelemetryInd is inductive.  It adds to            *)
(* TelemetryInv what a thread between the read and the write of a counter  *)
(* will write (ExportedExact, DroppedBehind, FailuresBehind), because      *)
(* there the counter and the spans disagree, and what the flush has seen   *)
(* so far (FlushSettles).                                                  *)
(***************************************************************************)
EXTENDS ArtifactStore, TelemetryQueue, FiniteSetTheorems, WellFoundedInduction, TLAPS

Unanswered == \A p \in Puts : call[p].reply # "NONE" => At(p, "done")

StoreInv == StoreTypeOK /\ Unanswered /\ ReplyIsTrue /\ OneCreator

\* A request the backend executes writes an empty key or changes nothing.
LEMMA CreateKeeps ==
  ASSUME StoreTypeOK, NEW key \in Keys, NEW content \in Contents,
         Create(key, content)
  PROVE  /\ object' \in [Keys -> Contents \cup {Nothing}]
         /\ object'[key] # Nothing
         /\ \A k \in Keys : object[k] # Nothing => object'[k] = object[k]
BY NothingAssumption DEF StoreTypeOK, Create

\* A put that has begun is a record with a key and contents.
LEMMA BegunIsCall ==
  ASSUME StoreTypeOK, NEW p \in Puts, ~At(p, "idle")
  PROVE  call[p] \in Calls
BY DEF StoreTypeOK, At, NoCall

\* What a request without an audience does to the store.
LEMMA UnheardKeeps ==
  ASSUME StoreTypeOK, NEW p \in Puts, ~At(p, "idle"), Unheard(p)
  PROVE  /\ object' \in [Keys -> Contents \cup {Nothing}]
         /\ late' \subseteq late \cup {p}
         /\ \A k \in Keys : object[k] # Nothing => object'[k] = object[k]
<1>1. call[p].key \in Keys /\ call[p].content \in Contents
  BY BegunIsCall DEF Calls
<1>2. CASE UNCHANGED <<object, late>>
  BY <1>2 DEF StoreTypeOK
<1>3. CASE Create(call[p].key, call[p].content) /\ UNCHANGED late
  BY <1>1, <1>3, CreateKeeps
<1>4. CASE late' = late \cup {p} /\ UNCHANGED object
  BY <1>4 DEF StoreTypeOK
<1> QED BY <1>2, <1>3, <1>4 DEF Unheard

\* A step that moves one begun put on, keeps every object and answers the truth
\* preserves the invariant.
LEMMA MoveKeeps ==
  ASSUME StoreInv, NEW p \in Puts, ~At(p, "idle"), ~At(p, "done"),
         NEW c \in Calls, c.key = call[p].key, c.content = call[p].content,
         call' = [call EXCEPT ![p] = c],
         c.reply # "NONE" => c.at = "done",
         object' \in [Keys -> Contents \cup {Nothing}],
         late' \subseteq late \cup {p},
         \A k \in Keys : object[k] # Nothing => object'[k] = object[k],
         c.reply \in {"STORED", "REPLAY"} => object'[c.key] = c.content,
         c.reply = "REJECTED" => object'[c.key] \notin {Nothing, c.content},
         c.reply = "STORED" => object[c.key] = Nothing
  PROVE  StoreInv'
<1>1. call \in [Puts -> Calls \cup {NoCall}]
  BY DEF StoreInv, StoreTypeOK
<1>2. call' \in [Puts -> Calls \cup {NoCall}]
  BY <1>1
<1>3. \A q \in Puts : call'[q] = IF q = p THEN c ELSE call[q]
  BY <1>1
<1>4. c.at # "idle"
  BY DEF Calls
<1>5. StoreTypeOK'
  <2>1. \A q \in late' : q \in Puts /\ call'[q].at # "idle"
    BY <1>3, <1>4 DEF StoreInv, StoreTypeOK, At
  <2> QED BY <1>2, <2>1 DEF StoreTypeOK, At
<1>6. Unanswered'
  BY <1>3 DEF StoreInv, Unanswered, At
<1>7. ReplyIsTrue'
  <2> SUFFICES ASSUME NEW q \in Puts
               PROVE  /\ call'[q].reply \in {"STORED", "REPLAY"} =>
                           object'[call'[q].key] = call'[q].content
                      /\ call'[q].reply = "REJECTED" =>
                           object'[call'[q].key] \notin {Nothing, call'[q].content}
    BY DEF ReplyIsTrue, Stored
  <2>1. CASE q = p
    BY <1>3, <2>1
  <2>2. CASE q # p /\ call[q] = NoCall
    BY <1>3, <2>2 DEF NoCall
  <2>3. CASE q # p /\ call[q] \in Calls
    <3>1. call[q].key \in Keys /\ call[q].content \in Contents
      BY <2>3 DEF Calls
    <3> QED BY <1>3, <2>3, <3>1, NothingAssumption DEF StoreInv, ReplyIsTrue, Stored
  <2> QED BY <1>1, <2>1, <2>2, <2>3
<1>8. OneCreator'
  <2> SUFFICES ASSUME NEW q \in Puts, NEW r \in Puts,
                      call'[q].reply = "STORED", call'[r].reply = "STORED",
                      call'[q].key = call'[r].key, q # r
               PROVE  FALSE
    BY DEF OneCreator
  <2>1. \A s \in Puts : call[s].reply = "STORED" => object[call[s].key] # Nothing
    <3> SUFFICES ASSUME NEW s \in Puts, call[s].reply = "STORED"
                 PROVE  object[call[s].key] # Nothing
      OBVIOUS
    <3>1. call[s] \in Calls
      BY <1>1 DEF NoCall
    <3>2. call[s].content \in Contents
      BY <3>1 DEF Calls
    <3> QED BY <3>2, NothingAssumption DEF StoreInv, ReplyIsTrue, Stored
  <2>2. CASE q = p
    BY <1>3, <2>1, <2>2
  <2>3. CASE r = p
    BY <1>3, <2>1, <2>3
  <2>4. CASE q # p /\ r # p
    BY <1>3, <2>4 DEF StoreInv, OneCreator
  <2> QED BY <2>2, <2>3, <2>4
<1> QED BY <1>5, <1>6, <1>7, <1>8 DEF StoreInv

LEMMA PutKeeps ==
  ASSUME StoreInv, NEW p \in Puts, NEW key \in Keys, NEW content \in Contents,
         Put(p, key, content)
  PROVE  StoreInv'
<1> DEFINE c == [at |-> "put", key |-> key, content |-> content,
                 retry |-> 0, reply |-> "NONE"]
<1>1. call[p] = NoCall /\ call \in [Puts -> Calls \cup {NoCall}]
  BY DEF StoreInv, StoreTypeOK, Put, At, Calls
<1>2. call' = [call EXCEPT ![p] = c]
  BY DEF Put
<1>3. c \in Calls /\ c.reply = "NONE" /\ c.at = "put"
  BY DEF Calls, UNKNOWN_OUTCOME_RETRIES
<1>4. \A q \in Puts : call'[q] = IF q = p THEN c ELSE call[q]
  BY <1>1, <1>2
<1>5. UNCHANGED <<object, late>>
  BY DEF Put
<1> HIDE DEF c
<1>6. StoreTypeOK'
  <2>1. call' \in [Puts -> Calls \cup {NoCall}]
    BY <1>1, <1>2, <1>3
  <2>2. \A q \in late' : q \in Puts /\ call'[q].at # "idle"
    BY <1>3, <1>4, <1>5 DEF StoreInv, StoreTypeOK, At
  <2> QED BY <1>5, <2>1, <2>2 DEF StoreInv, StoreTypeOK, At
<1>7. Unanswered' /\ ReplyIsTrue' /\ OneCreator'
  BY <1>3, <1>4, <1>5 DEF StoreInv, Unanswered, ReplyIsTrue, OneCreator, Stored, At
<1> QED BY <1>6, <1>7 DEF StoreInv

LEMMA StepKeeps ==
  ASSUME StoreInv, NEW p \in Puts, PutStep(p) \/ PutFault(p)
  PROVE  StoreInv'
<1> DEFINE After(stage, retry, r) ==
             [call[p] EXCEPT !.at = stage, !.retry = retry, !.reply = r]
<1>1. ~At(p, "idle") /\ ~At(p, "done")
  BY DEF PutStep, PutFault, PutSucceeds, PutConditionFails, PutUnanswered, PutDenied,
         ReadExisting, ReadMissing, ReadFails, PutStops, At
<1>2. /\ call[p] \in Calls
      /\ call \in [Puts -> Calls \cup {NoCall}]
      /\ call[p].reply = "NONE"
      /\ call[p].key \in Keys /\ call[p].content \in Contents
      /\ call[p].retry \in 0 .. 1
      /\ object \in [Keys -> Contents \cup {Nothing}]
  BY <1>1, BegunIsCall DEF StoreInv, StoreTypeOK, Unanswered, Calls, UNKNOWN_OUTCOME_RETRIES
<1>3. \A stage \in {"put", "conflict", "unknown", "done"}, retry \in 0 .. 1,
         r \in Replies \cup {"NONE"} :
        /\ After(stage, retry, r) \in Calls
        /\ After(stage, retry, r).key = call[p].key
        /\ After(stage, retry, r).content = call[p].content
        /\ After(stage, retry, r).at = stage
        /\ After(stage, retry, r).reply = r
  BY <1>2 DEF Calls, UNKNOWN_OUTCOME_RETRIES
<1>4. \A stage \in {"put", "conflict", "unknown"} :
        Advance(p, stage) => call' = [call EXCEPT ![p] = After(stage, call[p].retry, "NONE")]
  BY <1>2 DEF Advance, Calls
<1>5. \A r \in Replies :
        Answer(p, r) => call' = [call EXCEPT ![p] = After("done", call[p].retry, r)]
  BY <1>2 DEF Answer, Calls
<1>6. StoreTypeOK
  BY DEF StoreInv
<1> HIDE DEF After
<1> USE <1>1, <1>2, <1>3, <1>6
<1>7. ASSUME UNCHANGED object, late' \subseteq late \cup {p},
             NEW stage \in {"put", "conflict", "unknown", "done"}, NEW retry \in 0 .. 1,
             NEW r \in {"NONE", "UNKNOWN_OUTCOME", "UNAVAILABLE", "LOST"},
             call' = [call EXCEPT ![p] = After(stage, retry, r)],
             r # "NONE" => stage = "done"
      PROVE  StoreInv'
  <2> DEFINE c == After(stage, retry, r)
  <2>1. /\ c \in Calls /\ c.key = call[p].key /\ c.content = call[p].content
        /\ c.at = stage /\ c.reply = r
    BY DEF Replies
  <2>2. call' = [call EXCEPT ![p] = c]
    BY <1>7
  <2>3. c.reply \notin {"STORED", "REPLAY", "REJECTED"} /\ (c.reply # "NONE" => c.at = "done")
    BY <1>7, <2>1
  <2>4. /\ object' \in [Keys -> Contents \cup {Nothing}]
        /\ late' \subseteq late \cup {p}
        /\ \A k \in Keys : object[k] # Nothing => object'[k] = object[k]
    BY <1>7
  <2> HIDE DEF c
  <2> QED BY <2>1, <2>2, <2>3, <2>4, MoveKeeps
<1>8. ASSUME Unheard(p), NEW stage \in {"unknown", "done"}, NEW r \in {"NONE", "LOST"},
             call' = [call EXCEPT ![p] = After(stage, call[p].retry, r)],
             r # "NONE" => stage = "done"
      PROVE  StoreInv'
  <2> DEFINE c == After(stage, call[p].retry, r)
  <2>1. /\ c \in Calls /\ c.key = call[p].key /\ c.content = call[p].content
        /\ c.at = stage /\ c.reply = r
    BY DEF Replies
  <2>2. call' = [call EXCEPT ![p] = c]
    BY <1>8
  <2>3. /\ object' \in [Keys -> Contents \cup {Nothing}]
        /\ late' \subseteq late \cup {p}
        /\ \A k \in Keys : object[k] # Nothing => object'[k] = object[k]
    BY <1>8, UnheardKeeps
  <2>4. c.reply \notin {"STORED", "REPLAY", "REJECTED"} /\ (c.reply # "NONE" => c.at = "done")
    BY <1>8, <2>1
  <2> HIDE DEF c
  <2> QED BY <2>1, <2>2, <2>3, <2>4, MoveKeeps
<1>9. CASE PutSucceeds(p)
  <2> DEFINE c == After("done", call[p].retry, "STORED")
  <2>1. /\ c \in Calls /\ c.key = call[p].key /\ c.content = call[p].content
        /\ c.at = "done" /\ c.reply = "STORED"
    BY DEF Replies
  <2>2. call' = [call EXCEPT ![p] = c]
    BY <1>5, <1>9 DEF PutSucceeds, Replies
  <2>3. /\ object[c.key] = Nothing
        /\ object' \in [Keys -> Contents \cup {Nothing}]
        /\ object'[c.key] = c.content
        /\ \A k \in Keys : object[k] # Nothing => object'[k] = object[k]
    BY <1>9, <2>1, CreateKeeps DEF PutSucceeds, Stored, Create
  <2>4. late' = late
    BY <1>9 DEF PutSucceeds
  <2> HIDE DEF c
  <2> QED BY <2>1, <2>2, <2>3, <2>4, MoveKeeps
<1>10. CASE PutConditionFails(p)
  BY <1>4, <1>7, <1>10 DEF PutConditionFails
<1>11. CASE PutUnanswered(p)
  BY <1>4, <1>8, <1>11 DEF PutUnanswered
<1>12. CASE PutDenied(p)
  BY <1>5, <1>7, <1>12 DEF PutDenied, Replies
<1>13. CASE ReadExisting(p)
  <2> DEFINE r == IF Stored(p) = call[p].content THEN "REPLAY" ELSE "REJECTED"
             c == After("done", call[p].retry, r)
  <2>1. /\ c \in Calls /\ c.key = call[p].key /\ c.content = call[p].content
        /\ c.at = "done" /\ c.reply = r
    BY DEF Replies
  <2>2. call' = [call EXCEPT ![p] = c]
    BY <1>5, <1>13 DEF ReadExisting, Replies
  <2>3. /\ c.reply \in {"STORED", "REPLAY"} => object[c.key] = c.content
        /\ c.reply = "REJECTED" => object[c.key] \notin {Nothing, c.content}
        /\ c.reply # "STORED"
    BY <1>13, <2>1 DEF ReadExisting, Stored
  <2>4. UNCHANGED <<object, late>>
    BY <1>13 DEF ReadExisting
  <2> HIDE DEF c
  <2> QED BY <2>1, <2>2, <2>3, <2>4, MoveKeeps
<1>14. CASE ReadMissing(p)
  <2>1. CASE At(p, "conflict") \/ call[p].retry = UNKNOWN_OUTCOME_RETRIES
    BY <1>5, <1>7, <1>14, <2>1 DEF ReadMissing, Replies
  <2>2. CASE ~(At(p, "conflict") \/ call[p].retry = UNKNOWN_OUTCOME_RETRIES)
    <3>1. call' = [call EXCEPT ![p].at = "put", ![p].retry = @ + 1]
      BY <1>14, <2>2 DEF ReadMissing
    <3>2. call[p].retry + 1 \in 0 .. 1
      BY <2>2 DEF UNKNOWN_OUTCOME_RETRIES
    <3>3. After("put", call[p].retry + 1, "NONE") =
            [call[p] EXCEPT !.at = "put", !.retry = call[p].retry + 1]
      <4> DEFINE d == [call[p] EXCEPT !.at = "put", !.retry = call[p].retry + 1]
      <4>1. d \in [at : {"put"}, key : Keys, content : Contents,
                   retry : {call[p].retry + 1}, reply : {"NONE"}]
        BY DEF Calls
      <4>2. After("put", call[p].retry + 1, "NONE") \in
              [at : {"put"}, key : Keys, content : Contents,
               retry : {call[p].retry + 1}, reply : {"NONE"}]
        BY DEF After, Calls
      <4>3. /\ d.key = After("put", call[p].retry + 1, "NONE").key
            /\ d.content = After("put", call[p].retry + 1, "NONE").content
        BY DEF After, Calls
      <4> HIDE DEF d
      <4>4. d = After("put", call[p].retry + 1, "NONE")
        BY <4>1, <4>2, <4>3
      <4> QED BY <4>4 DEF d
    <3>4. call' = [call EXCEPT ![p] = After("put", call[p].retry + 1, "NONE")]
      BY <3>1, <3>3
    <3> QED BY <1>7, <1>14, <3>2, <3>4 DEF ReadMissing
  <2> QED BY <2>1, <2>2
<1>15. CASE ReadFails(p)
  BY <1>5, <1>7, <1>15 DEF ReadFails, Replies
<1>16. CASE PutStops(p)
  <2>1. call' = [call EXCEPT ![p] = After("done", call[p].retry, "LOST")]
    BY <1>5, <1>16 DEF PutStops, Replies
  <2>2. CASE At(p, "put")
    BY <1>8, <1>16, <2>1, <2>2 DEF PutStops
  <2>3. CASE ~At(p, "put")
    BY <1>7, <1>16, <2>1, <2>3 DEF PutStops
  <2> QED BY <2>2, <2>3
<1> QED
  BY <1>9, <1>10, <1>11, <1>12, <1>13, <1>14, <1>15, <1>16 DEF PutStep, PutFault

\* A late request finds the key empty or leaves it as it is.
LEMMA LateKeeps ==
  ASSUME StoreInv, NEW p \in Puts, LateSettles(p)
  PROVE  StoreInv'
<1>1. /\ ~At(p, "idle") /\ StoreTypeOK
      /\ UNCHANGED call
      /\ late' \subseteq late
  BY DEF LateSettles, StoreInv, StoreTypeOK
<1>2. call[p].key \in Keys /\ call[p].content \in Contents
  BY <1>1, BegunIsCall DEF Calls
<1>3. /\ object' \in [Keys -> Contents \cup {Nothing}]
      /\ \A k \in Keys : object[k] # Nothing => object'[k] = object[k]
  BY <1>1, <1>2, CreateKeeps DEF LateSettles, StoreTypeOK
<1>4. StoreTypeOK' /\ Unanswered' /\ OneCreator'
  BY <1>1, <1>3 DEF StoreInv, StoreTypeOK, Unanswered, OneCreator, At
<1>5. ReplyIsTrue'
  <2> SUFFICES ASSUME NEW q \in Puts
               PROVE  /\ call[q].reply \in {"STORED", "REPLAY"} =>
                           object'[call[q].key] = call[q].content
                      /\ call[q].reply = "REJECTED" =>
                           object'[call[q].key] \notin {Nothing, call[q].content}
    BY <1>1 DEF ReplyIsTrue, Stored
  <2>1. CASE call[q] = NoCall
    BY <2>1 DEF NoCall
  <2>2. CASE call[q] \in Calls
    <3>1. call[q].key \in Keys /\ call[q].content \in Contents
      BY <2>2 DEF Calls
    <3> QED BY <1>3, <3>1, NothingAssumption DEF StoreInv, ReplyIsTrue, Stored
  <2> QED BY <2>1, <2>2 DEF StoreInv, StoreTypeOK
<1> QED BY <1>4, <1>5 DEF StoreInv

\* The handlers' answers are true, and stay true, in every reachable state: one
\* creator per key, and nobody told of bytes that are not there.
THEOREM StoreSafe == StoreSpec => []StoreInv
<1>1. StoreInit => StoreInv
  BY DEF StoreInit, StoreInv, StoreTypeOK, Unanswered, ReplyIsTrue, OneCreator,
         NoCall, At
<1>2. ASSUME StoreInv, [StoreNext]_storeVars
      PROVE  StoreInv'
  <2>1. CASE UNCHANGED storeVars
    BY <1>2, <2>1 DEF storeVars, StoreInv, StoreTypeOK, Unanswered, ReplyIsTrue,
                      OneCreator, Stored, At
  <2>2. CASE StoreNext
    BY <1>2, <2>2, PutKeeps, StepKeeps, LateKeeps DEF StoreNext
  <2> QED BY <1>2, <2>1, <2>2
<1> QED BY <1>1, <1>2, PTL DEF StoreSpec

\* Every type is kept.
THEOREM StoreTypeCorrect == StoreSpec => []StoreTypeOK
BY StoreSafe, PTL DEF StoreInv

\* After STORED or REPLAY the key holds the caller's bytes, after REJECTED others.
THEOREM RepliesTrue == StoreSpec => []ReplyIsTrue
BY StoreSafe, PTL DEF StoreInv

\* No two puts are told that they created one object.
THEOREM CreatorUnique == StoreSpec => []OneCreator
BY StoreSafe, PTL DEF StoreInv

-----------------------------------------------------------------------------
(* The handlers keep the contract. *)

\* The contract's view of a record of the handlers.
Asked(f) == [q \in Puts |-> [key |-> f[q].key, content |-> f[q].content]]
Told(f) == [q \in Puts |->
              IF f[q].reply \in {"UNKNOWN_OUTCOME", "UNAVAILABLE", "LOST"}
              THEN "UNCERTAIN" ELSE f[q].reply]

\* A put that has begun has asked for something.
LEMMA BegunHasAsked ==
  ASSUME StoreInv, NEW p \in Puts, ~At(p, "idle")
  PROVE  /\ Asked(call)[p] = [key |-> call[p].key, content |-> call[p].content]
         /\ Asked(call)[p] # Contract!NoRequest
         /\ call[p].key \in Keys /\ call[p].content \in Contents
<1>1. call[p] \in Calls
  BY BegunIsCall DEF StoreInv
<1> QED BY <1>1, NothingAssumption DEF Asked, Calls, Contract!NoRequest

\* What the contract sees of an answer, and of a step without one.
LEMMA ViewOfAnswer ==
  ASSUME StoreInv, NEW p \in Puts, NEW r \in Replies, Answer(p, r)
  PROVE  /\ Asked(call') = Asked(call)
         /\ Told(call') = [Told(call) EXCEPT ![p] =
              IF r \in {"UNKNOWN_OUTCOME", "UNAVAILABLE", "LOST"}
              THEN "UNCERTAIN" ELSE r]
<1>1. call \in [Puts -> Calls \cup {NoCall}]
  BY DEF StoreInv, StoreTypeOK
<1>2. \A q \in Puts : /\ call'[q].key = call[q].key /\ call'[q].content = call[q].content
                      /\ call'[q].reply = IF q = p THEN r ELSE call[q].reply
  BY <1>1 DEF Answer, Calls, NoCall
<1> QED BY <1>2 DEF Asked, Told

\* A put that only goes on shows nothing to its caller.
LEMMA ViewOfAdvance ==
  ASSUME StoreInv, NEW p \in Puts,
         \/ \E stage \in {"put", "conflict", "unknown"} : Advance(p, stage)
         \/ call' = [call EXCEPT ![p].at = "put", ![p].retry = @ + 1]
  PROVE  Asked(call') = Asked(call) /\ Told(call') = Told(call)
<1>1. call \in [Puts -> Calls \cup {NoCall}]
  BY DEF StoreInv, StoreTypeOK
<1>2. \A q \in Puts : /\ call'[q].key = call[q].key /\ call'[q].content = call[q].content
                      /\ call'[q].reply = call[q].reply
  BY <1>1 DEF Advance, Calls, NoCall
<1> QED BY <1>2 DEF Asked, Told

\* The two ways the contract lets a begun put act.
LEMMA ViewOfWrite ==
  ASSUME StoreInv, NEW p \in Puts, ~At(p, "idle"),
         Create(call[p].key, call[p].content),
         Asked(call') = Asked(call),
         \/ Told(call') = Told(call)
         \/ /\ call[p].reply = "NONE"
            /\ \/ Stored(p) = Nothing /\ Told(call') = [Told(call) EXCEPT ![p] = "STORED"]
               \/ Told(call') = [Told(call) EXCEPT ![p] = "UNCERTAIN"]
  PROVE  [Contract!StoreNext]_(Contract!storeVars)
<1>1. /\ Asked(call)[p] = [key |-> call[p].key, content |-> call[p].content]
      /\ Asked(call)[p] # Contract!NoRequest
  BY BegunHasAsked
<1>2. Told(call)[p] = "NONE" <=> call[p].reply = "NONE"
  BY DEF Told
<1>3. CASE Stored(p) = Nothing
  <2>1. Contract!Write(p)
    BY <1>1, <1>2, <1>3
       DEF Contract!Write, Contract!Stored, Contract!Waiting, Create, Stored, Asked, Told
  <2> QED BY <2>1 DEF Contract!StoreNext
<1>4. CASE Stored(p) # Nothing /\ Told(call') = Told(call)
  BY <1>4 DEF Contract!storeVars, Create, Stored, Asked, Told
<1>5. CASE Stored(p) # Nothing /\ Told(call') # Told(call)
  <2>1. Contract!Reply(p)
    BY <1>1, <1>2, <1>5
       DEF Contract!Reply, Contract!Stored, Contract!Waiting, Contract!Replies,
           Create, Stored, Asked, Told
  <2> QED BY <2>1 DEF Contract!StoreNext
<1> QED BY <1>3, <1>4, <1>5

\* An answer other than STORED that is true is a step of the contract.
LEMMA ViewOfReply ==
  ASSUME StoreInv, NEW p \in Puts, ~At(p, "idle"), UNCHANGED object,
         call[p].reply = "NONE", Asked(call') = Asked(call),
         NEW r \in {"REPLAY", "REJECTED", "UNCERTAIN"},
         Told(call') = [Told(call) EXCEPT ![p] = r],
         r = "REPLAY" => Stored(p) = call[p].content,
         r = "REJECTED" => Stored(p) \notin {Nothing, call[p].content}
  PROVE  [Contract!StoreNext]_(Contract!storeVars)
<1>1. /\ Asked(call)[p] = [key |-> call[p].key, content |-> call[p].content]
      /\ Asked(call)[p] # Contract!NoRequest
  BY BegunHasAsked
<1>2. Told(call)[p] = "NONE"
  BY DEF Told
<1>3. Contract!Reply(p)
  BY <1>1, <1>2
     DEF Contract!Reply, Contract!Stored, Contract!Waiting, Contract!Replies,
         Stored, Asked, Told
<1> QED BY <1>3 DEF Contract!StoreNext

\* What shows nothing and writes nothing is a stutter of the contract.
LEMMA ViewOfNothing ==
  ASSUME UNCHANGED object, Asked(call') = Asked(call), Told(call') = Told(call)
  PROVE  [Contract!StoreNext]_(Contract!storeVars)
BY DEF Contract!storeVars, Asked, Told

\* A request nobody hears of, with or without the end of its handler.
LEMMA ViewOfUnheard ==
  ASSUME StoreInv, NEW p \in Puts, ~At(p, "idle"), call[p].reply = "NONE",
         Unheard(p), Asked(call') = Asked(call),
         \/ Told(call') = Told(call)
         \/ Told(call') = [Told(call) EXCEPT ![p] = "UNCERTAIN"]
  PROVE  [Contract!StoreNext]_(Contract!storeVars)
<1>1. CASE UNCHANGED object
  BY <1>1, ViewOfReply, ViewOfNothing
<1>2. CASE Create(call[p].key, call[p].content)
  BY <1>2, ViewOfWrite
<1> QED BY <1>1, <1>2 DEF Unheard

\* Every step of a put is a step of the contract.
LEMMA StepIsContract ==
  ASSUME StoreInv, NEW p \in Puts, PutStep(p) \/ PutFault(p)
  PROVE  [Contract!StoreNext]_(Contract!storeVars)
<1>1. ~At(p, "idle") /\ ~At(p, "done")
  BY DEF PutStep, PutFault, PutSucceeds, PutConditionFails, PutUnanswered, PutDenied,
         ReadExisting, ReadMissing, ReadFails, PutStops, At
<1>2. call[p].reply = "NONE"
  BY <1>1 DEF StoreInv, Unanswered
<1>3. ASSUME NEW r \in {"UNKNOWN_OUTCOME", "UNAVAILABLE"}, Answer(p, r), UNCHANGED object
      PROVE  [Contract!StoreNext]_(Contract!storeVars)
  <2>1. Told(call') = [Told(call) EXCEPT ![p] = "UNCERTAIN"] /\ Asked(call') = Asked(call)
    BY <1>3, ViewOfAnswer DEF Replies
  <2> QED BY <1>1, <1>2, <1>3, <2>1, ViewOfReply
<1>4. CASE PutSucceeds(p)
  <2>1. Told(call') = [Told(call) EXCEPT ![p] = "STORED"] /\ Asked(call') = Asked(call)
    BY <1>4, ViewOfAnswer DEF PutSucceeds, Replies
  <2> QED BY <1>1, <1>2, <1>4, <2>1, ViewOfWrite DEF PutSucceeds
<1>5. CASE PutConditionFails(p)
  BY <1>5, ViewOfAdvance, ViewOfNothing DEF PutConditionFails
<1>6. CASE PutUnanswered(p)
  BY <1>1, <1>2, <1>6, ViewOfAdvance, ViewOfUnheard DEF PutUnanswered
<1>7. CASE PutDenied(p)
  BY <1>3, <1>7 DEF PutDenied
<1>8. CASE ReadExisting(p)
  <2>1. UNCHANGED object /\ Stored(p) # Nothing
    BY <1>8 DEF ReadExisting
  <2>2. CASE Stored(p) = call[p].content
    <3>1. Answer(p, "REPLAY")
      BY <1>8, <2>2 DEF ReadExisting
    <3>2. Told(call') = [Told(call) EXCEPT ![p] = "REPLAY"] /\ Asked(call') = Asked(call)
      BY <3>1, ViewOfAnswer DEF Replies
    <3> QED BY <1>1, <1>2, <2>1, <2>2, <3>2, ViewOfReply
  <2>3. CASE Stored(p) # call[p].content
    <3>1. Answer(p, "REJECTED")
      BY <1>8, <2>3 DEF ReadExisting
    <3>2. Told(call') = [Told(call) EXCEPT ![p] = "REJECTED"] /\ Asked(call') = Asked(call)
      BY <3>1, ViewOfAnswer DEF Replies
    <3> QED BY <1>1, <1>2, <2>1, <2>3, <3>2, ViewOfReply
  <2> QED BY <2>2, <2>3
<1>9. CASE ReadMissing(p)
  BY <1>3, <1>9, ViewOfAdvance, ViewOfNothing DEF ReadMissing
<1>10. CASE ReadFails(p)
  BY <1>3, <1>10 DEF ReadFails
<1>11. CASE PutStops(p)
  <2>1. Told(call') = [Told(call) EXCEPT ![p] = "UNCERTAIN"] /\ Asked(call') = Asked(call)
    BY <1>11, ViewOfAnswer DEF PutStops, Replies
  <2>2. CASE At(p, "put")
    BY <1>1, <1>2, <1>11, <2>1, <2>2, ViewOfUnheard DEF PutStops
  <2>3. CASE ~At(p, "put")
    BY <1>1, <1>2, <1>11, <2>1, <2>3, ViewOfReply DEF PutStops
  <2> QED BY <2>2, <2>3
<1> QED
  BY <1>4, <1>5, <1>6, <1>7, <1>8, <1>9, <1>10, <1>11 DEF PutStep, PutFault

\* A new put is one of the contract.
LEMMA PutIsContract ==
  ASSUME StoreInv, NEW p \in Puts, NEW key \in Keys, NEW content \in Contents,
         Put(p, key, content)
  PROVE  Contract!Put(p, key, content)
<1>1. call[p] = NoCall /\ call \in [Puts -> Calls \cup {NoCall}]
  BY DEF StoreInv, StoreTypeOK, Put, At, Calls
<1>2. Asked(call)[p] = Contract!NoRequest
  BY <1>1 DEF Asked, NoCall, Contract!NoRequest
<1>3. Asked(call') = [Asked(call) EXCEPT ![p] = [key |-> key, content |-> content]]
  BY <1>1 DEF Asked, Put
<1>4. Told(call') = Told(call)
  BY <1>1 DEF Told, Put, NoCall
<1> QED BY <1>2, <1>3, <1>4 DEF Contract!Put, Put, Asked, Told

\* A late request that is executed is the contract writing after its answer.
LEMMA LateIsContract ==
  ASSUME StoreInv, NEW p \in Puts, LateSettles(p)
  PROVE  [Contract!StoreNext]_(Contract!storeVars)
<1>1. ~At(p, "idle") /\ UNCHANGED call
  BY DEF LateSettles, StoreInv, StoreTypeOK
<1>2. Asked(call') = Asked(call) /\ Told(call') = Told(call)
  BY <1>1
<1> QED BY <1>1, <1>2, ViewOfWrite, ViewOfNothing DEF LateSettles

\* The S3 store implements the contract of the artifact stores: keys are written
\* once and answers are true, for any number of puts and any failures.
THEOREM StoreRefinement == StoreSpec => ImplementsWriteOnceStore
<1>1. StoreInit => Contract!StoreInit
  BY DEF StoreInit, Contract!StoreInit, NoCall, Contract!NoRequest
<1>2. StoreInv /\ [StoreNext]_storeVars => [Contract!StoreNext]_(Contract!storeVars)
  <2> SUFFICES ASSUME StoreInv, [StoreNext]_storeVars
               PROVE  [Contract!StoreNext]_(Contract!storeVars)
    OBVIOUS
  <2>1. CASE UNCHANGED storeVars
    BY <2>1 DEF storeVars, Contract!storeVars
  <2>2. ASSUME NEW p \in Puts, NEW key \in Keys, NEW content \in Contents,
               Put(p, key, content)
        PROVE  [Contract!StoreNext]_(Contract!storeVars)
    BY <2>2, PutIsContract DEF Contract!StoreNext
  <2>3. ASSUME NEW p \in Puts, PutStep(p) \/ PutFault(p) \/ LateSettles(p)
        PROVE  [Contract!StoreNext]_(Contract!storeVars)
    BY <2>3, StepIsContract, LateIsContract
  <2> QED BY <2>1, <2>2, <2>3 DEF StoreNext
<1> QED
  BY <1>1, <1>2, StoreSafe, PTL DEF StoreSpec, ImplementsWriteOnceStore, Contract!StoreSpec

-----------------------------------------------------------------------------
(* The span queue.                                                        *)

Places == {"open", "queued", "batch", "exported", "failures", "dropped"}
Many(place) == Cardinality(In(place))
Uncounted(p) == reading[p] # None

\* The values of the variables.
TelemetryValues ==
  /\ fate \in [Spans -> Places]
  /\ counter \in [exported : Nat, failures : Nat, dropped : Nat]
  /\ reading \in [Threads -> Nat \cup {None}]
  /\ worker \in {"loop", "filling", "exporting", "exported", "failures", "ended"}
  /\ closer \in {"idle", "joining", "closed", "failed"}
  /\ flusher \in [at : {"idle", "queue", "active", "done"}, before : SUBSET Spans,
                  answer : BOOLEAN \cup {None}]

\* The exporter's place says what it holds.
BatchShape ==
  /\ Many("queued") <= Capacity /\ Many("batch") <= MaxBatch
  /\ active = IF worker \in {"exporting", "exported", "failures"} THEN 1 ELSE 0
  /\ worker \in {"loop", "ended"} => In("batch") = {}

\* exported_spans has one writer, the exporter.
ExportedExact ==
  /\ counter.exported = Many("exported")
  /\ worker = "exported" => reading["exporter"] = counter.exported

\* dropped_spans is never ahead of the drops: a thread that has read it and not
\* written it yet has dropped a span of its own.
DroppedBehind ==
  /\ counter.dropped <= Many("dropped")
  /\ \A p \in Producers : Uncounted(p) => reading[p] + 1 <= Many("dropped")
  /\ In("dropped") # {} => counter.dropped > 0 \/ \E p \in Producers : Uncounted(p)

\* export_failures may count a failed close on top of the failed spans, once.
FailuresBehind ==
  LET slack == IF closer = "closed" THEN 1 ELSE 0
  IN  /\ counter.failures <= Many("failures") + slack
      /\ worker = "failures" =>
           /\ reading["exporter"] # None
           /\ reading["exporter"] <= Many("failures") + slack
      /\ closer = "failed" =>
           /\ reading["closer"] # None
           /\ reading["closer"] <= Many("failures")

\* Whoever was ended before the flush stays out of the queue once seen out of it.
FlushSettles ==
  /\ \A s \in flusher.before : fate[s] # "open"
  /\ flusher.at = "active" \/ flusher.answer = TRUE =>
       \A s \in flusher.before : fate[s] # "queued"

TelemetryInd ==
  /\ TelemetryValues
  /\ BatchShape
  /\ ExportedExact
  /\ DroppedBehind
  /\ FailuresBehind
  /\ FlushSettles

\* No counter value is None, and None is no answer.
LEMMA NoneIsNothing == None \notin Nat /\ None # TRUE /\ None # FALSE
BY TelemetryConstants

\* Every place holds finitely many spans.
LEMMA PlacesAreFinite ==
  ASSUME NEW place
  PROVE  IsFiniteSet(In(place)) /\ Many(place) \in Nat
<1>1. IsFiniteSet(Spans)
  BY TelemetryConstants, FS_Interval DEF Spans
<1>2. In(place) \subseteq Spans
  BY DEF In
<1> QED BY <1>1, <1>2, FS_Subset, FS_CardinalityType DEF Many

\* A place that holds a span has an oldest one.
LEMMA OldestIsThere ==
  ASSUME NEW place, In(place) # {}
  PROVE  Oldest(place) \in Spans /\ fate[Oldest(place)] = place
<1>1. In(place) \subseteq Nat
  BY DEF In, Spans
<1>2. PICK x \in In(place) : \A y \in In(place) : <<y, x>> \notin OpToRel(<, Nat)
  BY <1>1, WFMin, NatLessThanWellFounded
<1>3. \A y \in In(place) : ~(y < x)
  BY <1>1, <1>2 DEF OpToRel
<1>4. \A y \in In(place) : x <= y
  BY <1>1, <1>3
<1>5. Oldest(place) \in In(place)
  BY <1>4 DEF Oldest
<1> QED BY <1>5 DEF In

\* A span that moves leaves one place and enters another.
LEMMA MoveSpan ==
  ASSUME fate \in [Spans -> Places], NEW x \in Spans, NEW a \in Places, NEW b \in Places,
         a # b, fate[x] = a, fate' = [fate EXCEPT ![x] = b]
  PROVE  /\ fate' \in [Spans -> Places]
         /\ \A s \in Spans : fate'[s] = IF s = x THEN b ELSE fate[s]
         /\ Many(a)' = Many(a) - 1
         /\ Many(b)' = Many(b) + 1 /\ In(b)' # {}
         /\ \A c \in Places \ {a, b} : In(c)' = In(c) /\ Many(c)' = Many(c)
<1>1. \A s \in Spans : fate'[s] = IF s = x THEN b ELSE fate[s]
  OBVIOUS
<1>2. /\ In(a)' = In(a) \ {x} /\ x \in In(a)
      /\ In(b)' = In(b) \cup {x} /\ x \notin In(b)
      /\ \A c \in Places \ {a, b} : In(c)' = In(c)
  BY <1>1 DEF In
<1>3. Many(a)' = Many(a) - 1
  BY <1>2, PlacesAreFinite, FS_RemoveElement DEF Many
<1>4. Many(b)' = Many(b) + 1
  BY <1>2, PlacesAreFinite, FS_AddElement DEF Many
<1> QED BY <1>1, <1>2, <1>3, <1>4 DEF Many

\* Where no span moves, every place keeps what it holds.
LEMMA StillSpans ==
  ASSUME UNCHANGED fate
  PROVE  \A c : In(c)' = In(c) /\ Many(c)' = Many(c)
BY DEF In, Many

\* The batch goes to one place as a whole.
LEMMA SettleBatch ==
  ASSUME fate \in [Spans -> Places], NEW w \in {"exported", "failures"},
         fate' = [s \in Spans |-> IF fate[s] = "batch" THEN w ELSE fate[s]]
  PROVE  /\ fate' \in [Spans -> Places]
         /\ \A s \in Spans : fate'[s] = IF fate[s] = "batch" THEN w ELSE fate[s]
         /\ In("batch")' = {} /\ Many("batch")' = 0
         /\ Many(w)' = Many(w) + Many("batch")
         /\ \A c \in Places \ {w, "batch"} : In(c)' = In(c) /\ Many(c)' = Many(c)
<1>1. \A s \in Spans : fate'[s] = IF fate[s] = "batch" THEN w ELSE fate[s]
  OBVIOUS
<1>2. fate' \in [Spans -> Places]
  BY DEF Places
<1>3. /\ In("batch")' = {}
      /\ In(w)' = In(w) \cup In("batch") /\ In(w) \cap In("batch") = {}
      /\ \A c \in Places \ {w, "batch"} : In(c)' = In(c)
  BY <1>1 DEF In
<1>4. Many(w)' = Many(w) + Many("batch")
  <2>1. Cardinality(In(w) \cup In("batch")) =
           Cardinality(In(w)) + Cardinality(In("batch")) - Cardinality(In(w) \cap In("batch"))
    BY PlacesAreFinite, FS_Union
  <2>2. Cardinality(In(w) \cap In("batch")) = 0
    BY <1>3, FS_EmptySet
  <2> QED BY <1>3, <2>1, <2>2, PlacesAreFinite DEF Many
<1> QED BY <1>1, <1>2, <1>3, <1>4, FS_EmptySet DEF Many

\* What a thread writes back of a counter it has read.
LEMMA WriteFacts ==
  ASSUME TelemetryValues, NEW t \in Threads, NEW c \in {"exported", "failures", "dropped"},
         NEW n \in Nat, reading[t] # None, Write(t, c, n)
  PROVE  /\ counter' \in [exported : Nat, failures : Nat, dropped : Nat]
         /\ reading' \in [Threads -> Nat \cup {None}]
         /\ counter'[c] = reading[t] + n
         /\ \A d \in {"exported", "failures", "dropped"} \ {c} : counter'[d] = counter[d]
         /\ reading'[t] = None
         /\ \A u \in Threads \ {t} : reading'[u] = reading[u]
<1>1. reading[t] + n \in Nat
  BY DEF TelemetryValues
<1> QED BY <1>1 DEF TelemetryValues, Write

\* What a thread has read of a counter.
LEMMA ReadFacts ==
  ASSUME TelemetryValues, NEW t \in Threads, NEW c \in {"exported", "failures", "dropped"},
         Read(t, c)
  PROVE  /\ reading' \in [Threads -> Nat \cup {None}]
         /\ reading'[t] = counter[c] /\ counter[c] \in Nat /\ reading'[t] # None
         /\ \A u \in Threads \ {t} : reading'[u] = reading[u]
<1>1. counter[c] \in Nat
  BY DEF TelemetryValues
<1> QED BY <1>1, NoneIsNothing DEF TelemetryValues, Read

\* The exporter and the closer are threads of their own.
LEMMA ThreadFacts ==
  /\ "exporter" \in Threads /\ "closer" \in Threads
  /\ \A p \in Producers : p \in Threads /\ p # "exporter" /\ p # "closer"
BY TelemetryConstants DEF Threads

\* Before the first span the accounts agree.
LEMMA TelemetryInit == Init => TelemetryInd
<1> SUFFICES ASSUME Init PROVE TelemetryInd
  OBVIOUS
<1>1. \A c \in {"queued", "batch", "exported", "failures", "dropped"} : In(c) = {} /\ Many(c) = 0
  BY FS_EmptySet DEF Init, In, Many
<1>2. TelemetryValues
  BY DEF Init, TelemetryValues, Places
<1>3. \A t \in Threads : reading[t] = None
  BY DEF Init
<1>4. BatchShape
  BY <1>1, TelemetryConstants DEF Init, BatchShape
<1>5. ExportedExact
  BY <1>1 DEF Init, ExportedExact
<1>6. DroppedBehind
  BY <1>1, <1>3, ThreadFacts DEF Init, DroppedBehind, Uncounted
<1>7. FailuresBehind
  BY <1>1 DEF Init, FailuresBehind
<1>8. FlushSettles
  BY NoneIsNothing DEF Init, FlushSettles
<1> QED BY <1>2, <1>4, <1>5, <1>6, <1>7, <1>8 DEF TelemetryInd

\* A product thread ends a span: it enters the queue, or it is dropped and the
\* thread has read the counter it will write.
LEMMA EndSpanKeeps ==
  ASSUME TelemetryInd, NEW p \in Producers, EndSpan(p)
  PROVE  TelemetryInd'
<1> DEFINE x == Oldest("open")
<1>x. x \in Spans /\ fate[x] = "open"
  BY OldestIsThere DEF EndSpan
<1>t. p \in Threads /\ "exporter" \in Threads /\ "closer" \in Threads /\ p # "exporter" /\ p # "closer"
  BY ThreadFacts
<1>v. TelemetryValues /\ fate \in [Spans -> Places]
  BY DEF TelemetryInd, TelemetryValues
<1>n. \A c : Many(c) \in Nat
  BY PlacesAreFinite
<1>1. CASE Many("queued") < Capacity /\ fate' = [fate EXCEPT ![x] = "queued"] /\ UNCHANGED reading
  <2>1. /\ fate' \in [Spans -> Places]
        /\ \A s \in Spans : fate'[s] = IF s = x THEN "queued" ELSE fate[s]
        /\ Many("queued")' = Many("queued") + 1
        /\ \A c \in {"batch", "exported", "failures", "dropped"} : In(c)' = In(c) /\ Many(c)' = Many(c)
    BY <1>1, <1>x, <1>v, MoveSpan DEF Places
  <2>2. TelemetryValues'
    BY <1>1, <1>v, <2>1 DEF TelemetryValues, EndSpan
  <2>3. BatchShape'
    BY <1>1, <1>n, <2>1, TelemetryConstants DEF TelemetryInd, BatchShape, EndSpan
  <2>4. ExportedExact'
    BY <1>1, <2>1 DEF TelemetryInd, ExportedExact, EndSpan
  <2>5. DroppedBehind'
    BY <1>1, <2>1 DEF TelemetryInd, DroppedBehind, Uncounted, EndSpan
  <2>6. FailuresBehind'
    BY <1>1, <2>1 DEF TelemetryInd, FailuresBehind, EndSpan
  <2>7. FlushSettles'
    BY <1>v, <1>x, <2>1 DEF TelemetryInd, TelemetryValues, FlushSettles, EndSpan
  <2> QED BY <2>2, <2>3, <2>4, <2>5, <2>6, <2>7 DEF TelemetryInd
<1>2. CASE fate' = [fate EXCEPT ![x] = "dropped"] /\ Read(p, "dropped")
  <2>1. /\ fate' \in [Spans -> Places]
        /\ \A s \in Spans : fate'[s] = IF s = x THEN "dropped" ELSE fate[s]
        /\ Many("dropped")' = Many("dropped") + 1
        /\ \A c \in {"queued", "batch", "exported", "failures"} : In(c)' = In(c) /\ Many(c)' = Many(c)
    BY <1>2, <1>x, <1>v, MoveSpan DEF Places
  <2>r. /\ reading' \in [Threads -> Nat \cup {None}]
        /\ reading'[p] = counter["dropped"] /\ counter["dropped"] \in Nat /\ reading'[p] # None
        /\ \A u \in Threads \ {p} : reading'[u] = reading[u]
    BY <1>2, <1>v, <1>t, ReadFacts
  <2>2. TelemetryValues'
    BY <1>v, <2>1, <2>r DEF TelemetryValues, EndSpan
  <2>3. BatchShape'
    BY <2>1 DEF TelemetryInd, BatchShape, EndSpan
  <2>4. ExportedExact'
    BY <1>t, <2>1, <2>r DEF TelemetryInd, ExportedExact, EndSpan
  <2>5. DroppedBehind'
    <3>1. counter'.dropped <= Many("dropped")'
      BY <1>n, <2>1, <2>r DEF TelemetryInd, DroppedBehind, EndSpan
    <3>2. ASSUME NEW q \in Producers, Uncounted(q)' PROVE reading'[q] + 1 <= Many("dropped")'
      <4>1. CASE q = p
        BY <4>1, <1>n, <2>1, <2>r DEF TelemetryInd, DroppedBehind
      <4>2. CASE q # p
        <5>1. q \in Threads \ {p}
          BY <4>2, ThreadFacts
        <5>2. reading[q] + 1 <= Many("dropped") /\ reading[q] \in Nat
          BY <5>1, <3>2, <2>r, <1>v DEF TelemetryInd, DroppedBehind, Uncounted, TelemetryValues
        <5> QED BY <5>1, <5>2, <1>n, <2>1, <2>r
      <4> QED BY <4>1, <4>2
    <3>3. Uncounted(p)'
      BY <2>r DEF Uncounted
    <3> QED BY <3>1, <3>2, <3>3 DEF DroppedBehind
  <2>6. FailuresBehind'
    BY <1>t, <2>1, <2>r DEF TelemetryInd, FailuresBehind, EndSpan
  <2>7. FlushSettles'
    BY <1>v, <1>x, <2>1 DEF TelemetryInd, TelemetryValues, FlushSettles, EndSpan
  <2> QED BY <2>2, <2>3, <2>4, <2>5, <2>6, <2>7 DEF TelemetryInd
<1> QED BY <1>1, <1>2 DEF EndSpan, Many

\* A product thread writes the drop it has read the counter for.
LEMMA CountDropKeeps ==
  ASSUME TelemetryInd, NEW p \in Producers, CountDrop(p)
  PROVE  TelemetryInd'
<1>t. p \in Threads /\ "exporter" \in Threads /\ "closer" \in Threads /\ p # "exporter" /\ p # "closer"
  BY ThreadFacts
<1>v. TelemetryValues
  BY DEF TelemetryInd
<1>s. \A c : In(c)' = In(c) /\ Many(c)' = Many(c)
  BY StillSpans DEF CountDrop
<1>w. /\ counter' \in [exported : Nat, failures : Nat, dropped : Nat]
      /\ reading' \in [Threads -> Nat \cup {None}]
      /\ counter'["dropped"] = reading[p] + 1
      /\ counter'["exported"] = counter["exported"] /\ counter'["failures"] = counter["failures"]
      /\ reading'[p] = None
      /\ \A u \in Threads \ {p} : reading'[u] = reading[u]
  BY <1>t, <1>v, WriteFacts DEF CountDrop
<1>r. reading[p] \in Nat
  BY <1>t, <1>v DEF TelemetryValues, CountDrop
<1>2. TelemetryValues'
  BY <1>v, <1>w DEF TelemetryValues, CountDrop
<1>3. BatchShape'
  BY <1>s DEF TelemetryInd, BatchShape, CountDrop
<1>4. ExportedExact'
  BY <1>t, <1>s, <1>w DEF TelemetryInd, ExportedExact, CountDrop
<1>5. DroppedBehind'
  <2>1. counter'.dropped <= Many("dropped")' /\ counter'.dropped > 0
    BY <1>r, <1>s, <1>w DEF TelemetryInd, DroppedBehind, Uncounted, CountDrop
  <2>2. \A q \in Producers : Uncounted(q)' => reading'[q] + 1 <= Many("dropped")'
    BY <1>s, <1>w, ThreadFacts DEF TelemetryInd, DroppedBehind, Uncounted
  <2> QED BY <2>1, <2>2 DEF DroppedBehind
<1>6. FailuresBehind'
  BY <1>t, <1>s, <1>w DEF TelemetryInd, FailuresBehind, CountDrop
<1>7. FlushSettles'
  BY DEF TelemetryInd, FlushSettles, CountDrop
<1> QED BY <1>2, <1>3, <1>4, <1>5, <1>6, <1>7 DEF TelemetryInd

\* The exporter takes the oldest queued span into its batch.
LEMMA TakeKeeps ==
  ASSUME TelemetryInd, TakeFirst \/ TakeMore
  PROVE  TelemetryInd'
<1> DEFINE x == Oldest("queued")
<1>u. UNCHANGED <<counter, reading, active, closer, flusher>> /\ worker' = "filling"
  BY DEF TakeFirst, TakeMore
<1>b. worker \in {"loop", "filling"} /\ Many("batch") + 1 <= MaxBatch
  <2>1. CASE TakeFirst
    BY <2>1, FS_EmptySet, TelemetryConstants DEF TakeFirst, TelemetryInd, BatchShape, Many
  <2>2. CASE TakeMore
    BY <2>2, PlacesAreFinite, TelemetryConstants DEF TakeMore, Many
  <2> QED BY <2>1, <2>2
<1>x. x \in Spans /\ fate[x] = "queued" /\ fate' = [fate EXCEPT ![x] = "batch"]
  BY OldestIsThere DEF TakeFirst, TakeMore
<1>v. TelemetryValues /\ fate \in [Spans -> Places]
  BY DEF TelemetryInd, TelemetryValues
<1>n. \A c : Many(c) \in Nat
  BY PlacesAreFinite
<1>1. /\ fate' \in [Spans -> Places]
      /\ \A s \in Spans : fate'[s] = IF s = x THEN "batch" ELSE fate[s]
      /\ Many("queued")' = Many("queued") - 1 /\ Many("batch")' = Many("batch") + 1
      /\ \A c \in {"exported", "failures", "dropped"} : In(c)' = In(c) /\ Many(c)' = Many(c)
  BY <1>x, <1>v, MoveSpan DEF Places
<1>2. TelemetryValues'
  BY <1>u, <1>v, <1>1 DEF TelemetryValues
<1>3. BatchShape'
  BY <1>u, <1>b, <1>n, <1>1, TelemetryConstants DEF TelemetryInd, BatchShape
<1>4. ExportedExact'
  BY <1>u, <1>1 DEF TelemetryInd, ExportedExact
<1>5. DroppedBehind'
  BY <1>u, <1>1 DEF TelemetryInd, DroppedBehind, Uncounted
<1>6. FailuresBehind'
  BY <1>u, <1>1 DEF TelemetryInd, FailuresBehind
<1>7. FlushSettles'
  BY <1>u, <1>v, <1>x, <1>1 DEF TelemetryInd, TelemetryValues, FlushSettles
<1> QED BY <1>2, <1>3, <1>4, <1>5, <1>6, <1>7 DEF TelemetryInd

\* The batch is complete and counted as active.
LEMMA BeginExportKeeps ==
  ASSUME TelemetryInd, BeginExport
  PROVE  TelemetryInd'
<1>s. \A c : In(c)' = In(c) /\ Many(c)' = Many(c)
  BY StillSpans DEF BeginExport
<1>2. TelemetryValues'
  BY DEF TelemetryInd, TelemetryValues, BeginExport
<1>3. BatchShape'
  BY <1>s DEF TelemetryInd, BatchShape, BeginExport
<1>4. ExportedExact'
  BY <1>s DEF TelemetryInd, ExportedExact, BeginExport
<1>5. DroppedBehind'
  BY <1>s DEF TelemetryInd, DroppedBehind, Uncounted, BeginExport
<1>6. FailuresBehind'
  BY <1>s DEF TelemetryInd, FailuresBehind, BeginExport
<1>7. FlushSettles'
  BY DEF TelemetryInd, FlushSettles, BeginExport
<1> QED BY <1>2, <1>3, <1>4, <1>5, <1>6, <1>7 DEF TelemetryInd

\* export has answered, and the exporter has read the counter of that answer.
LEMMA ExportKeeps ==
  ASSUME TelemetryInd, Export
  PROVE  TelemetryInd'
<1>c. PICK c \in {"exported", "failures"} : Read("exporter", c) /\ worker' = c
  BY DEF Export
<1>v. TelemetryValues
  BY DEF TelemetryInd
<1>s. \A d : In(d)' = In(d) /\ Many(d)' = Many(d)
  BY StillSpans DEF Export
<1>r. /\ reading' \in [Threads -> Nat \cup {None}]
      /\ reading'["exporter"] = counter[c] /\ reading'["exporter"] # None
      /\ \A t \in Threads \ {"exporter"} : reading'[t] = reading[t]
  BY <1>c, <1>v, ThreadFacts, ReadFacts
<1>2. TelemetryValues'
  BY <1>c, <1>v, <1>r DEF TelemetryValues, Export
<1>3. BatchShape'
  BY <1>c, <1>s DEF TelemetryInd, BatchShape, Export
<1>4. ExportedExact'
  BY <1>c, <1>s, <1>r DEF TelemetryInd, ExportedExact, Export
<1>5. DroppedBehind'
  BY <1>s, <1>r, ThreadFacts DEF TelemetryInd, DroppedBehind, Uncounted, Export
<1>6. FailuresBehind'
  BY <1>c, <1>s, <1>r, ThreadFacts DEF TelemetryInd, FailuresBehind, Export
<1>7. FlushSettles'
  BY DEF TelemetryInd, FlushSettles, Export
<1> QED BY <1>2, <1>3, <1>4, <1>5, <1>6, <1>7 DEF TelemetryInd

\* The exporter counts its batch where export sent it.
LEMMA CountBatchKeeps ==
  ASSUME TelemetryInd, CountBatch
  PROVE  TelemetryInd'
<1> DEFINE w == worker
<1>w. w \in {"exported", "failures"} /\ w \in {"exported", "failures", "dropped"}
  BY DEF CountBatch
<1>v. TelemetryValues /\ fate \in [Spans -> Places]
  BY DEF TelemetryInd, TelemetryValues
<1>n. \A c : Many(c) \in Nat
  BY PlacesAreFinite
<1>s. /\ fate' \in [Spans -> Places]
      /\ \A s \in Spans : fate'[s] = IF fate[s] = "batch" THEN w ELSE fate[s]
      /\ In("batch")' = {} /\ Many("batch")' = 0
      /\ \A c \in Places \ {w, "batch"} : In(c)' = In(c) /\ Many(c)' = Many(c)
  BY <1>v, <1>w, SettleBatch DEF CountBatch
<1>m. /\ w = "exported" => Many("exported")' = Many("exported") + Many("batch")
      /\ w = "failures" => Many("failures")' = Many("failures") + Many("batch")
  BY <1>v, SettleBatch DEF CountBatch
<1>r. reading["exporter"] # None /\ reading["exporter"] \in Nat
  BY <1>v, <1>w, ThreadFacts, NoneIsNothing
     DEF TelemetryInd, TelemetryValues, ExportedExact, FailuresBehind
<1>c. /\ counter' \in [exported : Nat, failures : Nat, dropped : Nat]
      /\ reading' \in [Threads -> Nat \cup {None}]
      /\ counter'[w] = reading["exporter"] + Many("batch")
      /\ \A d \in {"exported", "failures", "dropped"} \ {w} : counter'[d] = counter[d]
      /\ reading'["exporter"] = None
      /\ \A u \in Threads \ {"exporter"} : reading'[u] = reading[u]
  BY <1>v, <1>w, <1>n, <1>r, ThreadFacts, WriteFacts DEF CountBatch, Many
<1>2. TelemetryValues'
  BY <1>v, <1>s, <1>c DEF TelemetryValues, CountBatch
<1>3. BatchShape'
  <2>1. Many("queued")' = Many("queued")
    BY <1>w, <1>s DEF Places
  <2> QED BY <1>w, <1>s, <2>1, TelemetryConstants DEF TelemetryInd, BatchShape, CountBatch
<1>4. ExportedExact'
  <2>1. CASE w = "exported"
    BY <2>1, <1>n, <1>m, <1>c DEF TelemetryInd, ExportedExact, CountBatch
  <2>2. CASE w = "failures"
    <3>1. Many("exported")' = Many("exported") /\ counter'["exported"] = counter["exported"]
      BY <2>2, <1>s, <1>c DEF Places
    <3> QED BY <3>1 DEF TelemetryInd, ExportedExact, CountBatch
  <2> QED BY <1>w, <2>1, <2>2
<1>5. DroppedBehind'
  <2>1. /\ Many("dropped")' = Many("dropped") /\ In("dropped")' = In("dropped")
        /\ counter'["dropped"] = counter["dropped"]
    BY <1>w, <1>s, <1>c DEF Places
  <2>2. \A p \in Producers : reading'[p] = reading[p]
    BY <1>c, ThreadFacts
  <2> QED BY <2>1, <2>2 DEF TelemetryInd, DroppedBehind, Uncounted
<1>6. FailuresBehind'
  <2>1. reading'["closer"] = reading["closer"]
    BY <1>c, ThreadFacts
  <2>2. CASE w = "exported"
    <3>1. Many("failures")' = Many("failures") /\ counter'["failures"] = counter["failures"]
      BY <2>2, <1>s, <1>c DEF Places
    <3> QED BY <2>1, <3>1 DEF TelemetryInd, FailuresBehind, CountBatch
  <2>3. CASE w = "failures"
    <3>1. reading["closer"] # None => reading["closer"] \in Nat
      BY <1>v, ThreadFacts DEF TelemetryValues
    <3> QED BY <2>1, <2>3, <3>1, <1>n, <1>r, <1>m, <1>c DEF TelemetryInd, FailuresBehind, CountBatch
  <2> QED BY <1>w, <2>2, <2>3
<1>7. FlushSettles'
  BY <1>v, <1>w, <1>s DEF TelemetryInd, TelemetryValues, FlushSettles, CountBatch
<1> QED BY <1>2, <1>3, <1>4, <1>5, <1>6, <1>7 DEF TelemetryInd

\* The steps that move no span and touch no counter: the exporter ends, shutdown
\* sets the stop event.
LEMMA EndKeeps ==
  ASSUME TelemetryInd, ExporterEnds \/ Stop
  PROVE  TelemetryInd'
<1>u. UNCHANGED <<fate, counter, reading, active, flusher>>
  BY DEF ExporterEnds, Stop
<1>a. \/ worker = "loop" /\ worker' = "ended" /\ closer' = closer
      \/ closer = "idle" /\ closer' = "joining" /\ worker' = worker
  BY DEF ExporterEnds, Stop
<1>s. \A c : In(c)' = In(c) /\ Many(c)' = Many(c)
  BY <1>u, StillSpans
<1>2. TelemetryValues'
  BY <1>u, <1>a DEF TelemetryInd, TelemetryValues
<1>3. BatchShape'
  BY <1>u, <1>a, <1>s DEF TelemetryInd, BatchShape
<1>4. ExportedExact'
  BY <1>u, <1>a, <1>s DEF TelemetryInd, ExportedExact
<1>5. DroppedBehind'
  BY <1>u, <1>s DEF TelemetryInd, DroppedBehind, Uncounted
<1>6. FailuresBehind'
  BY <1>u, <1>a, <1>s DEF TelemetryInd, FailuresBehind
<1>7. FlushSettles'
  BY <1>u DEF TelemetryInd, FlushSettles
<1> QED BY <1>2, <1>3, <1>4, <1>5, <1>6, <1>7 DEF TelemetryInd

\* The join is over: the exporter is closed, or closing it failed and the closer
\* has read the counter of failures.
LEMMA CloseKeeps ==
  ASSUME TelemetryInd, Close
  PROVE  TelemetryInd'
<1>v. TelemetryValues
  BY DEF TelemetryInd
<1>n. \A c : Many(c) \in Nat
  BY PlacesAreFinite
<1>s. \A d : In(d)' = In(d) /\ Many(d)' = Many(d)
  BY StillSpans DEF Close
<1>r. /\ reading' \in [Threads -> Nat \cup {None}]
      /\ \A t \in Threads \ {"closer"} : reading'[t] = reading[t]
      /\ \/ closer' = "closed"
         \/ /\ closer' = "failed"
            /\ reading'["closer"] = counter["failures"] /\ reading'["closer"] # None
  <2>1. CASE closer' = "closed" /\ UNCHANGED reading
    BY <2>1, <1>v DEF TelemetryValues
  <2>2. CASE closer' = "failed" /\ Read("closer", "failures")
    BY <2>2, <1>v, ThreadFacts, ReadFacts
  <2> QED BY <2>1, <2>2 DEF Close
<1>2. TelemetryValues'
  BY <1>v, <1>r DEF TelemetryValues, Close
<1>3. BatchShape'
  BY <1>s DEF TelemetryInd, BatchShape, Close
<1>4. ExportedExact'
  BY <1>s, <1>r, ThreadFacts DEF TelemetryInd, ExportedExact, Close
<1>5. DroppedBehind'
  BY <1>s, <1>r, ThreadFacts DEF TelemetryInd, DroppedBehind, Uncounted, Close
<1>6. FailuresBehind'
  <2>1. reading'["exporter"] = reading["exporter"] /\ reading["exporter"] \in Nat \cup {None}
    BY <1>v, <1>r, ThreadFacts DEF TelemetryValues
  <2>2. counter.failures \in Nat /\ counter' = counter /\ worker' = worker /\ closer = "joining"
    BY <1>v DEF TelemetryValues, Close
  <2>3. /\ counter.failures <= Many("failures")
        /\ worker = "failures" => reading["exporter"] # None /\ reading["exporter"] <= Many("failures")
    BY <2>2, <1>n DEF TelemetryInd, FailuresBehind
  <2>4. /\ worker' = "failures" => reading'["exporter"] # None
                                  /\ reading'["exporter"] <= Many("failures")' + (IF closer' = "closed" THEN 1 ELSE 0)
    BY <2>1, <2>2, <2>3, <1>s, <1>n
  <2> QED BY <2>2, <2>3, <2>4, <1>r, <1>s, <1>n DEF FailuresBehind
<1>7. FlushSettles'
  BY DEF TelemetryInd, FlushSettles, Close
<1> QED BY <1>2, <1>3, <1>4, <1>5, <1>6, <1>7 DEF TelemetryInd

\* A failed close is counted as one more failed span.
LEMMA CountFailedCloseKeeps ==
  ASSUME TelemetryInd, CountFailedClose
  PROVE  TelemetryInd'
<1>v. TelemetryValues
  BY DEF TelemetryInd
<1>n. \A c : Many(c) \in Nat
  BY PlacesAreFinite
<1>s. \A d : In(d)' = In(d) /\ Many(d)' = Many(d)
  BY StillSpans DEF CountFailedClose
<1>r. reading["closer"] # None /\ reading["closer"] \in Nat /\ reading["closer"] <= Many("failures")
  BY <1>v, ThreadFacts DEF TelemetryInd, TelemetryValues, FailuresBehind, CountFailedClose
<1>w. /\ counter' \in [exported : Nat, failures : Nat, dropped : Nat]
      /\ reading' \in [Threads -> Nat \cup {None}]
      /\ counter'["failures"] = reading["closer"] + 1
      /\ counter'["exported"] = counter["exported"] /\ counter'["dropped"] = counter["dropped"]
      /\ \A u \in Threads \ {"closer"} : reading'[u] = reading[u]
  BY <1>v, <1>r, ThreadFacts, WriteFacts DEF CountFailedClose
<1>2. TelemetryValues'
  BY <1>v, <1>w DEF TelemetryValues, CountFailedClose
<1>3. BatchShape'
  BY <1>s DEF TelemetryInd, BatchShape, CountFailedClose
<1>4. ExportedExact'
  BY <1>s, <1>w, ThreadFacts DEF TelemetryInd, ExportedExact, CountFailedClose
<1>5. DroppedBehind'
  BY <1>s, <1>w, ThreadFacts DEF TelemetryInd, DroppedBehind, Uncounted
<1>6. FailuresBehind'
  <2>1. reading'["exporter"] = reading["exporter"] /\ reading["exporter"] \in Nat \cup {None}
    BY <1>v, <1>w, ThreadFacts DEF TelemetryValues
  <2>2. worker = "failures" => reading["exporter"] # None /\ reading["exporter"] <= Many("failures")
    BY <1>n DEF TelemetryInd, FailuresBehind, CountFailedClose
  <2> QED BY <2>1, <2>2, <1>n, <1>r, <1>s, <1>w DEF FailuresBehind, CountFailedClose
<1>7. FlushSettles'
  BY DEF TelemetryInd, FlushSettles, CountFailedClose
<1> QED BY <1>2, <1>3, <1>4, <1>5, <1>6, <1>7 DEF TelemetryInd

\* The steps of force_flush only look.
LEMMA FlushKeeps ==
  ASSUME TelemetryInd, FlushCall \/ FlushReadsQueue \/ FlushReadsActive
  PROVE  TelemetryInd'
<1>u. UNCHANGED <<fate, counter, reading, worker, active, closer>>
  BY DEF FlushCall, FlushReadsQueue, FlushReadsActive
<1>s. \A c : In(c)' = In(c) /\ Many(c)' = Many(c)
  BY <1>u, StillSpans
<1>v. TelemetryValues
  BY DEF TelemetryInd
<1>f. /\ flusher \in [at : {"idle", "queue", "active", "done"}, before : SUBSET Spans,
                      answer : BOOLEAN \cup {None}]
      /\ None # TRUE
  BY <1>v, NoneIsNothing DEF TelemetryValues
<1>1. /\ flusher' \in [at : {"idle", "queue", "active", "done"}, before : SUBSET Spans,
                       answer : BOOLEAN \cup {None}]
      /\ FlushSettles'
  <2>1. CASE FlushCall
    <3>1. flusher' = [at |-> "queue", before |-> {s \in Spans : fate[s] # "open"}, answer |-> None]
      BY <2>1 DEF FlushCall
    <3> QED BY <1>f, <1>u, <3>1 DEF FlushSettles
  <2>2. CASE FlushReadsQueue /\ In("queued") = {}
    <3>1. flusher' = [flusher EXCEPT !.at = "active"]
      BY <2>2 DEF FlushReadsQueue
    <3>2. \A s \in flusher.before : fate[s] # "queued" /\ fate[s] # "open"
      BY <2>2, <1>f DEF In, TelemetryInd, FlushSettles
    <3> QED BY <1>f, <1>u, <3>1, <3>2 DEF FlushSettles
  <2>3. CASE FlushReadsQueue /\ In("queued") # {}
    <3>1. flusher' = [flusher EXCEPT !.at = "done", !.answer = FALSE]
      BY <2>3 DEF FlushReadsQueue
    <3> QED BY <1>f, <1>u, <3>1 DEF TelemetryInd, FlushSettles
  <2>4. CASE FlushReadsActive
    <3>1. flusher' = [flusher EXCEPT !.at = "done", !.answer = (active = 0)]
      BY <2>4 DEF FlushReadsActive
    <3>2. \A s \in flusher.before : fate[s] # "queued" /\ fate[s] # "open"
      BY <2>4 DEF FlushReadsActive, TelemetryInd, FlushSettles
    <3> QED BY <1>f, <1>u, <3>1, <3>2 DEF FlushSettles
  <2> QED BY <2>1, <2>2, <2>3, <2>4
<1>2. TelemetryValues'
  BY <1>u, <1>v, <1>1 DEF TelemetryValues
<1>3. BatchShape'
  BY <1>u, <1>s DEF TelemetryInd, BatchShape
<1>4. ExportedExact'
  BY <1>u, <1>s DEF TelemetryInd, ExportedExact
<1>5. DroppedBehind'
  BY <1>u, <1>s DEF TelemetryInd, DroppedBehind, Uncounted
<1>6. FailuresBehind'
  BY <1>u, <1>s DEF TelemetryInd, FailuresBehind
<1> QED BY <1>1, <1>2, <1>3, <1>4, <1>5, <1>6 DEF TelemetryInd

\* The invariant says what the diagnostics and a flush promise.
LEMMA TelemetryIndImplies == TelemetryInd => TelemetryInv
<1> SUFFICES ASSUME TelemetryInd PROVE TelemetryInv
  OBVIOUS
<1>n. \A c : Many(c) \in Nat
  BY PlacesAreFinite
<1>1. TelemetryTypeOK
  BY DEF TelemetryInd, TelemetryValues, BatchShape, TelemetryTypeOK, Places, Many
<1>2. DiagnosticsAreHonest
  <2>1. counter.exported = Many("exported") /\ counter.dropped <= Many("dropped")
    BY DEF TelemetryInd, ExportedExact, DroppedBehind
  <2>2. counter.failures <= Many("failures") + 1
    BY <1>n DEF TelemetryInd, TelemetryValues, FailuresBehind
  <2> QED BY <2>1, <2>2 DEF DiagnosticsAreHonest, Many
<1>3. DropIsVisible
  BY DEF TelemetryInd, DroppedBehind, Uncounted, DropIsVisible
<1>4. FlushEmptiesQueue
  BY DEF TelemetryInd, FlushSettles, FlushEmptiesQueue
<1> QED BY <1>1, <1>2, <1>3, <1>4 DEF TelemetryInv

\* Whatever the interleaving of product threads, exporter, shutdown and flush, and
\* however large the queue: exported_spans is exact between batches, dropped_spans
\* never overstates and never hides that something was dropped, export_failures is
\* ahead by the failed close at most, and a flush that answers True emptied the
\* queue of what was ended before it.
THEOREM TelemetryIsHonest == Spec => []TelemetryInv
<1>1. TelemetryInd /\ [Next]_vars => TelemetryInd'
  <2> SUFFICES ASSUME TelemetryInd, [Next]_vars PROVE TelemetryInd'
    OBVIOUS
  <2>1. CASE \E p \in Producers : EndSpan(p) \/ CountDrop(p)
    BY <2>1, EndSpanKeeps, CountDropKeeps
  <2>2. CASE Exporter
    BY <2>2, TakeKeeps, BeginExportKeeps, ExportKeeps, CountBatchKeeps, EndKeeps DEF Exporter
  <2>3. CASE Stop \/ Close \/ CountFailedClose
    BY <2>3, EndKeeps, CloseKeeps, CountFailedCloseKeeps
  <2>4. CASE FlushCall \/ FlushReadsQueue \/ FlushReadsActive
    BY <2>4, FlushKeeps
  <2>5. CASE UNCHANGED vars
    <3>1. \A c : In(c)' = In(c) /\ Many(c)' = Many(c)
      BY <2>5, StillSpans DEF vars
    <3> QED BY <2>5, <3>1 DEF vars, TelemetryInd, TelemetryValues, BatchShape, ExportedExact,
               DroppedBehind, Uncounted, FailuresBehind, FlushSettles
  <2> QED BY <2>1, <2>2, <2>3, <2>4, <2>5 DEF Next
<1> QED BY <1>1, TelemetryInit, TelemetryIndImplies, PTL DEF Spec
===============================================================================
