--------------------------- MODULE AsyncLoadProofs ---------------------------
(***************************************************************************)
(* Theorems about AsyncLoad, for every finite set of loads and any budget: *)
(* its types, its counters and its promise, then what will complete a      *)
(* load, and in which order the task-queue adapter does.                   *)
(***************************************************************************)
EXTENDS AsyncLoad, FiniteSetTheorems, TLAPS

-----------------------------------------------------------------------------
(* Type correctness. *)

\* A delivery that is queued keeps the queue one (EventLoop::post).
LEMMA PostedDelivery ==
    ASSUME TypeOK, NEW l \in Loads, NEW via \in Via
    PROVE  Posted(Delivery(l, via)) \in Seq(Task)
<1>1. Delivery(l, via) \in Task
  BY AsyncLoadAssumption DEF Delivery, Task
<1>2. tasks \in Seq(Task)
  BY DEF TypeOK, QueueTypeOK
<1>3. QED
  BY <1>1, <1>2 DEF Posted

LEMMA EmptySeqType == ASSUME NEW S PROVE <<>> \in Seq(S)
OBVIOUS

LEMMA InitType == Init => TypeOK
<1> SUFFICES ASSUME Init PROVE TypeOK
  OBVIOUS
<1>1. QueueTypeOK
  BY EmptySeqType DEF Init, QueueInit, QueueTypeOK
<1>2. pendingLoads \in [Loads -> {"none", "engine", "sentinel"}]
  BY DEF Init
<1>3. outcome \in [Loads -> Outcome]
  BY DEF Init, Outcome
<1>4. reactions \in Seq(Reaction) /\ order \in Seq(Loads)
  BY EmptySeqType DEF Init
<1>5. spent \in 0..Budget /\ active \in Nat
  BY AsyncLoadAssumption DEF Init
<1>6. QED
  BY <1>1, <1>2, <1>3, <1>4, <1>5 DEF Init, TypeOK

\* Each way the start of a load can go.
LEMMA FetchType ==
    ASSUME TypeOK, NEW l \in Loads, Fetch(l)
    PROVE  TypeOK'
<1> USE DEF TypeOK
<1>1. Begin(l) => /\ outcome' \in [Loads -> Outcome] /\ active' \in Nat
                  /\ UNCHANGED <<engine, stored, cancelled>>
  BY DEF Begin, Outcome
<1>2. Spend => spent' \in 0..Budget
  BY AsyncLoadAssumption DEF Spend
<1>3. Rejects(l) => /\ reactions' \in Seq(Reaction)
                    /\ QueueTypeOK' /\ shim' \subseteq Loads
                    /\ UNCHANGED <<pendingLoads, transfers, waiting, order>>
  BY DEF Rejects, Reaction, queueVars, QueueTypeOK
<1>4. \A entry \in {"engine", "sentinel"} :
        Starts(l, entry) =>
            /\ Begin(l) /\ Spend
            /\ shim' \subseteq Loads
            /\ pendingLoads' \in [Loads -> {"none", "engine", "sentinel"}]
            /\ order' \in Seq(Loads)
            /\ reactions' = reactions
  BY DEF Starts
<1>5. \A via \in Via : Post(Delivery(l, via)) => QueueTypeOK'
  BY PostedDelivery DEF Post, QueueTypeOK
<1>6. CASE BodyThrows(l)
  BY <1>6 DEF BodyThrows, Outcome, queueVars, bridgeVars, history, QueueTypeOK
<1>7. CASE Refused(l)
  BY <1>7, <1>1, <1>3 DEF Refused
<1>8. CASE FailsToStart(l)
  BY <1>8, <1>1, <1>2, <1>3 DEF FailsToStart
<1>9. CASE FromCache(l)
  BY <1>9, <1>1, <1>2, <1>4, <1>5 DEF FromCache, Via
<1>10. CASE Queued(l)
  <2>1. waiting' \subseteq Loads
    BY <1>10 DEF Queued
  <2>2. QED
    BY <2>1, <1>10, <1>1, <1>2, <1>4, <1>5 DEF Queued, Via
<1>11. CASE Transfer(l)
  <2>1. transfers' \subseteq Loads /\ QueueTypeOK'
    BY <1>11 DEF Transfer, BeginExternalWork, QueueTypeOK
  <2>2. QED
    BY <2>1, <1>11, <1>1, <1>2, <1>4 DEF Transfer
<1>12. QED
  BY <1>6, <1>7, <1>8, <1>9, <1>10, <1>11 DEF Fetch

\* A transfer that lands.
LEMMA LandType ==
    ASSUME TypeOK, NEW l \in Loads, Land(l)
    PROVE  TypeOK'
<1>1. QueueTypeOK'
  BY PostedDelivery DEF TypeOK, QueueTypeOK, Land, LandAndPost, ExternalAfterEnd, Via
<1>2. QED
  BY <1>1 DEF TypeOK, Land, pageVars, history

\* A queued delivery that runs.
LEMMA DeliverType ==
    ASSUME TypeOK, NEW ok \in BOOLEAN, Deliver(ok)
    PROVE  TypeOK'
<1> DEFINE t == Head(tasks).what
<1>1. tasks \in Seq(Task) /\ tasks # <<>>
  BY DEF TypeOK, QueueTypeOK, Deliver, TakeTask
<1>2. Head(tasks) \in Task /\ Tail(tasks) \in Seq(Task)
  BY <1>1
<1>3. t.load \in Loads
  BY <1>2, AsyncLoadAssumption DEF Task
<1>4. QueueTypeOK'
  BY <1>2 DEF TypeOK, QueueTypeOK, Deliver, TakeTask
<1>5. /\ pendingLoads' \in [Loads -> {"none", "engine", "sentinel"}]
      /\ waiting' \subseteq Loads /\ stored' \subseteq Loads /\ shim' \subseteq Loads
      /\ reactions' \in Seq(Reaction)
  <2>1. CASE Completes(t.load, ok)
    <3>1. [load |-> t.load, ok |-> ok] \in Reaction
      BY <1>3 DEF Reaction
    <3>2. QED
      BY <2>1, <3>1, <1>3 DEF Completes, TypeOK
  <2>2. CASE UNCHANGED <<pendingLoads, waiting, stored, shim, reactions>>
    BY <2>2 DEF TypeOK
  <2>3. QED
    BY <2>1, <2>2 DEF Deliver
<1>6. QED
  BY <1>4, <1>5 DEF TypeOK, Deliver

\* A promise reaction, whole or broken off.
LEMMA JobType ==
    ASSUME TypeOK, JobRuns
    PROVE  TypeOK'
<1>1. reactions # <<>> /\ reactions' = Tail(reactions)
  BY DEF JobRuns, React, ReactBreaks
<1>2. Head(reactions) \in Reaction /\ reactions' \in Seq(Reaction)
  BY <1>1 DEF TypeOK
<1>3. outcome' \in [Loads -> Outcome] /\ active' \in Nat
  BY <1>2 DEF JobRuns, React, ReactBreaks, Settles, Reaction, TypeOK, Outcome
<1>4. QED
  BY <1>2, <1>3
  DEF JobRuns, React, ReactBreaks, TypeOK, QueueTypeOK, queueVars, bridgeVars, history

\* abort().
LEMMA AbortType ==
    ASSUME TypeOK, NEW l \in Loads, Abort(l)
    PROVE  TypeOK'
<1>1. outcome' \in [Loads -> Outcome] /\ active' \in Nat
  BY DEF Abort, Settles, TypeOK, Outcome
<1>2. external' \in Nat /\ waiting' \subseteq Loads /\ transfers' \subseteq Loads
  BY DEF Abort, EngineCancel, ExternalAfterEnd, TypeOK, QueueTypeOK
<1>3. QED
  BY <1>1, <1>2 DEF Abort, TypeOK, QueueTypeOK

\* The transfers are a finite set, so counting them gives a number.
LEMMA TransfersFinite ==
    ASSUME TypeOK
    PROVE  IsFiniteSet(transfers) /\ Cardinality(transfers) \in Nat
BY AsyncLoadAssumption, FS_Subset, FS_CardinalityType DEF TypeOK

\* ~JsRuntime.
LEMMA DestroyType ==
    ASSUME TypeOK, Destroy
    PROVE  TypeOK'
<1>1. external' \in Nat /\ waiting' \subseteq Loads /\ transfers' \subseteq Loads
  BY TransfersFinite DEF Destroy, TypeOK, QueueTypeOK
<1>2. tasks' \in Seq(Task)
  BY DEF Destroy
<1>3. QED
  BY <1>1, <1>2 DEF Destroy, TypeOK, QueueTypeOK, pageVars, history

LEMMA TypeStep == TypeOK /\ [Next]_vars => TypeOK'
<1> SUFFICES ASSUME TypeOK, [Next]_vars PROVE TypeOK'
  OBVIOUS
<1>1. CASE UNCHANGED vars
  BY <1>1 DEF vars, queueVars, bridgeVars, pageVars, history, TypeOK, QueueTypeOK
<1>2. ASSUME NEW l \in Loads, Fetch(l) \/ Land(l) \/ Abort(l) PROVE TypeOK'
  BY <1>2, FetchType, LandType, AbortType
<1>3. CASE TaskRuns
  BY <1>3, DeliverType DEF TaskRuns
<1>4. CASE JobRuns
  BY <1>4, JobType
<1>5. CASE Destroy
  BY <1>5, DestroyType
<1>6. QED
  BY <1>1, <1>2, <1>3, <1>4, <1>5 DEF Next

\* Every reachable state of the loads, their registries and the queue has its
\* type; the load count never passes max_js_resource_loads.
THEOREM LoadTypes == Spec => []TypeOK
BY InitType, TypeStep, PTL DEF Spec

-----------------------------------------------------------------------------
(* The loop's count of external work. *)

\* Inductive: a load enters the transfers only once, from "unsent".
TransfersCounted ==
    /\ ExternalIsTransfers
    /\ \A l \in transfers : outcome[l] # "unsent"

\* One transfer more or less is one unit of external work more or less.
LEMMA CountOne ==
    ASSUME TypeOK, ExternalIsTransfers, NEW l \in Loads
    PROVE  /\ l \notin transfers => Cardinality(transfers \cup {l}) = external + 1
           /\ l \in transfers => Cardinality(transfers \ {l}) = ExternalAfterEnd
<1>1. IsFiniteSet(transfers) /\ external = Cardinality(transfers) /\ external \in Nat
  BY TransfersFinite DEF ExternalIsTransfers
<1>2. ASSUME l \notin transfers
      PROVE  Cardinality(transfers \cup {l}) = external + 1
  BY <1>1, <1>2, FS_AddElement
<1>3. ASSUME l \in transfers
      PROVE  Cardinality(transfers \ {l}) = ExternalAfterEnd
  <2>1. Cardinality(transfers \ {l}) = external - 1
    BY <1>1, <1>3, FS_RemoveElement
  <2>2. external # 0
    BY <1>1, <1>3, FS_EmptySet
  <2>3. QED
    BY <1>1, <2>1, <2>2 DEF ExternalAfterEnd
<1>4. QED
  BY <1>2, <1>3

LEMMA CountedInit == Init => TransfersCounted
BY FS_EmptySet DEF Init, QueueInit, TransfersCounted, ExternalIsTransfers

\* A load that has started never becomes unsent again.
LEMMA StartedStays ==
    ASSUME TypeOK, Next, NEW l \in Loads, outcome[l] # "unsent"
    PROVE  outcome'[l] # "unsent"
<1>1. ASSUME NEW k \in Loads, Fetch(k) PROVE outcome'[l] # "unsent"
  BY <1>1 DEF Fetch, BodyThrows, Refused, FailsToStart, FromCache, Queued, Transfer,
              Starts, Begin, TypeOK
<1>2. ASSUME NEW k \in Loads, Land(k) \/ Abort(k) PROVE outcome'[l] # "unsent"
  BY <1>2 DEF Land, Abort, Settles, pageVars, TypeOK
<1>3. CASE TaskRuns
  BY <1>3 DEF TaskRuns, Deliver
<1>4. CASE JobRuns
  BY <1>4 DEF JobRuns, React, ReactBreaks, Settles, TypeOK
<1>5. CASE Destroy
  BY <1>5 DEF Destroy, pageVars
<1>6. QED
  BY <1>1, <1>2, <1>3, <1>4, <1>5 DEF Next

LEMMA CountedStep == TypeOK /\ TransfersCounted /\ [Next]_vars => TransfersCounted'
<1> SUFFICES ASSUME TypeOK, TransfersCounted, [Next]_vars PROVE TransfersCounted'
  OBVIOUS
<1> USE DEF TransfersCounted
<1>1. CASE UNCHANGED vars
  BY <1>1 DEF vars, queueVars, bridgeVars, pageVars, ExternalIsTransfers
<1>2. CASE Next
  <2>1. ASSUME transfers' \subseteq transfers, ExternalIsTransfers'
        PROVE  TransfersCounted'
    BY <1>2, <2>1, StartedStays DEF TypeOK
  <2>2. ASSUME UNCHANGED <<transfers, external>> PROVE TransfersCounted'
    BY <2>1, <2>2 DEF ExternalIsTransfers
  <2>3. ASSUME NEW l \in Loads, Fetch(l) PROVE TransfersCounted'
    <3>1. CASE Transfer(l)
      <4>1. /\ l \notin transfers /\ transfers' = transfers \cup {l}
            /\ external' = external + 1
        BY <3>1 DEF Transfer, Starts, Begin, BeginExternalWork
      <4>2. ExternalIsTransfers'
        BY <4>1, CountOne DEF ExternalIsTransfers
      <4>3. outcome'[l] # "unsent"
        BY <3>1 DEF Transfer, Starts, Begin, TypeOK
      <4>4. QED
        BY <1>2, <4>1, <4>2, <4>3, StartedStays DEF TypeOK
    <3>2. CASE ~Transfer(l)
      BY <2>2, <2>3, <3>2
      DEF Fetch, BodyThrows, Refused, FailsToStart, FromCache, Queued, Rejects, Post,
          queueVars, bridgeVars
    <3>3. QED
      BY <3>1, <3>2
  <2>4. ASSUME NEW l \in Loads, Land(l) PROVE TransfersCounted'
    <3>1. l \in transfers /\ transfers' = transfers \ {l} /\ external' = ExternalAfterEnd
      BY <2>4 DEF Land, LandAndPost
    <3>2. QED
      BY <2>1, <3>1, CountOne DEF ExternalIsTransfers
  <2>5. ASSUME NEW l \in Loads, Abort(l) PROVE TransfersCounted'
    <3>1. CASE EngineCancel(l) /\ l \in transfers
      BY <2>1, <3>1, CountOne DEF EngineCancel, ExternalIsTransfers
    <3>2. CASE EngineCancel(l) /\ l \notin transfers
      <4>1. UNCHANGED <<transfers, external>>
        BY <3>2 DEF EngineCancel
      <4>2. QED
        BY <2>2, <4>1
    <3>3. CASE UNCHANGED <<waiting, transfers, external>>
      BY <2>2, <3>3
    <3>4. QED
      BY <2>5, <3>1, <3>2, <3>3 DEF Abort
  <2>6. CASE TaskRuns
    BY <2>2, <2>6 DEF TaskRuns, Deliver, TakeTask
  <2>7. CASE JobRuns
    BY <2>2, <2>7 DEF JobRuns, React, ReactBreaks, queueVars, bridgeVars
  <2>8. CASE Destroy
    <3>1. CASE engine = "curl"
      <4>1. transfers' = {} /\ external' = 0
        BY <2>8, <3>1, TransfersFinite DEF Destroy, ExternalIsTransfers
      <4>2. QED
        BY <2>1, <4>1, FS_EmptySet DEF ExternalIsTransfers
    <3>2. CASE engine # "curl"
      BY <2>2, <2>8, <3>2 DEF Destroy
    <3>3. QED
      BY <3>1, <3>2
  <2>9. QED
    BY <1>2, <2>3, <2>4, <2>5, <2>6, <2>7, <2>8 DEF Next
<1>3. QED
  BY <1>1, <1>2

\* external_work_ is the number of transfers in flight whatever is started,
\* cancelled, landed or torn down, so end_external_work never meets a zero.
THEOREM ExternalCountsTransfers == Spec => []ExternalIsTransfers
<1>1. Init => TypeOK /\ TransfersCounted
  BY InitType, CountedInit
<1>2. TypeOK /\ TransfersCounted /\ [Next]_vars => (TypeOK /\ TransfersCounted)'
  BY TypeStep, CountedStep
<1>3. TransfersCounted => ExternalIsTransfers
  BY DEF TransfersCounted
<1>4. QED
  BY <1>1, <1>2, <1>3, PTL DEF Spec

-----------------------------------------------------------------------------
(* fetch() implements LoadService, but for its fairness.                    *)

Held == {"pending", "stalled", "leaked"}
HeldLoads == {l \in Loads : outcome[l] \in Held}

\* pending_xhr_fetch_ counts the fetches that have not given their mark back.
ActiveCounts == active = Cardinality(HeldLoads)

LEMMA HeldFinite == IsFiniteSet(HeldLoads) /\ Cardinality(HeldLoads) \in Nat
BY AsyncLoadAssumption, FS_Subset, FS_CardinalityType DEF HeldLoads

\* A fetch that starts is held; one that settles gives its mark back, which
\* there is to give.
LEMMA HoldOne ==
    ASSUME TypeOK, ActiveCounts, NEW l \in Loads, NEW how \in Outcome,
           outcome' = [outcome EXCEPT ![l] = how]
    PROVE  /\ outcome[l] = "unsent" /\ how \in Held
                 => Cardinality(HeldLoads') = active + 1
           /\ outcome[l] \in Held /\ how \notin Held
                 => active > 0 /\ Cardinality(HeldLoads') = active - 1
           /\ (outcome[l] \in Held <=> how \in Held)
                 => Cardinality(HeldLoads') = active
<1>1. IsFiniteSet(HeldLoads) /\ active = Cardinality(HeldLoads) /\ active \in Nat
  BY HeldFinite DEF ActiveCounts
<1>2. ASSUME outcome[l] = "unsent", how \in Held
      PROVE  Cardinality(HeldLoads') = active + 1
  <2>1. l \notin HeldLoads /\ HeldLoads' = HeldLoads \cup {l}
    BY <1>2 DEF HeldLoads, Held, TypeOK
  <2>2. QED
    BY <1>1, <2>1, FS_AddElement
<1>3. ASSUME outcome[l] \in Held, how \notin Held
      PROVE  active > 0 /\ Cardinality(HeldLoads') = active - 1
  <2>1. l \in HeldLoads /\ HeldLoads' = HeldLoads \ {l}
    BY <1>3 DEF HeldLoads, TypeOK
  <2>2. active # 0
    BY <1>1, <2>1, FS_EmptySet
  <2>3. Cardinality(HeldLoads \ {l}) = active - 1
    BY <1>1, <2>1, FS_RemoveElement
  <2>4. QED
    BY <1>1, <2>1, <2>2, <2>3
<1>4. ASSUME outcome[l] \in Held <=> how \in Held
      PROVE  Cardinality(HeldLoads') = active
  <2>1. HeldLoads' = HeldLoads
    BY <1>4 DEF HeldLoads, TypeOK
  <2>2. QED
    BY <1>1, <2>1
<1>5. QED
  BY <1>2, <1>3, <1>4

LEMMA ActiveInit == Init => ActiveCounts
<1> SUFFICES ASSUME Init PROVE ActiveCounts
  OBVIOUS
<1>1. HeldLoads = {}
  BY DEF Init, HeldLoads, Held
<1>2. QED
  BY <1>1, FS_EmptySet DEF Init, ActiveCounts

\* What one outcome changed means for the promise a page sees.
LEMMA PromiseExcept ==
    ASSUME TypeOK, NEW l \in Loads, NEW how \in Outcome,
           outcome' = [outcome EXCEPT ![l] = how]
    PROVE  /\ how \in {"stalled", "leaked"} => Promise' = [Promise EXCEPT ![l] = "lost"]
           /\ how = "released" => Promise' = [Promise EXCEPT ![l] = "aborted"]
           /\ how \in {"pending", "resolved", "failed", "aborted"}
                 => Promise' = [Promise EXCEPT ![l] = how]
BY DEF Promise, TypeOK

\* Every step of the loads is a step of the service, or one a page does not see,
\* and keeps the count of held fetches.
LEMMA ServiceStep ==
    ASSUME TypeOK, ActiveCounts, [Next]_vars
    PROVE  ActiveCounts' /\ [Service!Next]_(Service!vars)
<1> DEFINE Goal == ActiveCounts' /\ [Service!Next]_(Service!vars)
<1> USE DEF ActiveCounts
<1>1. ASSUME UNCHANGED <<outcome, active, shutDown>> PROVE Goal
  <2>1. HeldLoads' = HeldLoads /\ Promise' = Promise
    BY <1>1 DEF HeldLoads, Promise
  <2>2. QED
    BY <1>1, <2>1 DEF Service!vars
<1>2. CASE UNCHANGED vars
  BY <1>1, <1>2 DEF vars, queueVars, pageVars
<1>3. ASSUME NEW l \in Loads, Fetch(l) PROVE Goal
  <2>1. PICK how \in {"pending", "leaked"} :
            /\ ~shutDown /\ outcome[l] = "unsent" /\ shutDown' = shutDown
            /\ outcome' = [outcome EXCEPT ![l] = how]
            /\ active' = active + 1
    BY <1>3 DEF Fetch, BodyThrows, Refused, FailsToStart, FromCache, Queued, Transfer,
                Starts, Begin, Rejects, Post, BeginExternalWork, queueVars
  <2>2. ActiveCounts'
    BY <2>1, HoldOne DEF Held, Outcome
  <2>3. Promise[l] = "unsent"
    BY <2>1 DEF Promise
  <2>4. CASE how = "pending"
    <3>1. Service!Start(l)
      BY <2>1, <2>3, <2>4, PromiseExcept DEF Service!Start, Outcome
    <3>2. QED
      BY <2>2, <3>1 DEF Service!Next
  <2>5. CASE how = "leaked"
    <3>1. Service!Lose(l)
      BY <2>1, <2>3, <2>5, PromiseExcept DEF Service!Lose, Outcome
    <3>2. QED
      BY <2>2, <3>1 DEF Service!Next
  <2>6. QED
    BY <2>4, <2>5
<1>4. ASSUME NEW l \in Loads, Land(l) PROVE Goal
  BY <1>1, <1>4 DEF Land, LandAndPost, pageVars
<1>5. ASSUME NEW l \in Loads, Abort(l) PROVE Goal
  <2>1. PICK how \in {"released", "aborted"} :
            /\ ~shutDown /\ shutDown' = shutDown /\ outcome[l] \in Held
            /\ outcome' = [outcome EXCEPT ![l] = how]
            /\ active' = IF active > 0 THEN active - 1 ELSE 0
    BY <1>5 DEF Abort, Settles, Held
  <2>2. ActiveCounts' /\ active' = active - 1
    BY <2>1, HoldOne DEF Held, Outcome, TypeOK
  <2>3. Promise[l] \in {"pending", "lost"}
    BY <2>1 DEF Promise, Held
  <2>4. Service!Abort(l)
    BY <2>1, <2>2, <2>3, PromiseExcept DEF Service!Abort, Service!Settle, Outcome
  <2>5. QED
    BY <2>2, <2>4 DEF Service!Next
<1>6. CASE TaskRuns
  BY <1>1, <1>6 DEF TaskRuns, Deliver, TakeTask
<1>7. CASE React
  <2> DEFINE l == Head(reactions).load
             how == IF Head(reactions).ok THEN "resolved" ELSE "failed"
  <2>1. Head(reactions) \in Reaction /\ ~shutDown /\ shutDown' = shutDown
    BY <1>7 DEF React, TypeOK, queueVars
  <2>2. CASE outcome[l] = "pending"
    <3>1. l \in Loads /\ how \in {"resolved", "failed"}
      BY <2>1 DEF Reaction
    <3>2. /\ outcome' = [outcome EXCEPT ![l] = how]
          /\ active' = IF active > 0 THEN active - 1 ELSE 0
      BY <1>7, <2>2 DEF React, Settles
    <3>3. ActiveCounts' /\ active' = active - 1
      BY <2>2, <3>1, <3>2, HoldOne DEF Held, Outcome, TypeOK
    <3>4. Promise[l] = "pending"
      BY <2>2, <3>1 DEF Promise
    <3>5. Promise' = [Promise EXCEPT ![l] = how]
      BY <3>1, <3>2, PromiseExcept DEF Outcome
    <3>6. Service!Answer(l)
      BY <2>1, <3>1, <3>3, <3>4, <3>5 DEF Service!Answer, Service!Settle
    <3>7. QED
      BY <3>1, <3>3, <3>6 DEF Service!Next
  <2>3. CASE outcome[l] # "pending"
    BY <1>1, <1>7, <2>1, <2>3 DEF React, Settles
  <2>4. QED
    BY <2>2, <2>3
<1>8. CASE ReactBreaks
  <2> DEFINE l == Head(reactions).load
  <2>1. /\ Head(reactions) \in Reaction /\ ~shutDown
        /\ shutDown' = shutDown /\ active' = active
    BY <1>8 DEF ReactBreaks, TypeOK, queueVars
  <2>2. CASE outcome[l] = "pending"
    <3>1. l \in Loads /\ outcome' = [outcome EXCEPT ![l] = "stalled"]
      BY <1>8, <2>1, <2>2 DEF ReactBreaks, Reaction
    <3>2. ActiveCounts'
      BY <2>1, <2>2, <3>1, HoldOne DEF Held, Outcome
    <3>3. Promise[l] = "pending" /\ Promise' = [Promise EXCEPT ![l] = "lost"]
      BY <2>2, <3>1, PromiseExcept DEF Promise, Outcome
    <3>4. Service!Lose(l)
      BY <2>1, <3>3 DEF Service!Lose
    <3>5. QED
      BY <3>1, <3>2, <3>4 DEF Service!Next
  <2>3. CASE outcome[l] # "pending"
    BY <1>1, <1>8, <2>1, <2>3 DEF ReactBreaks
  <2>4. QED
    BY <2>2, <2>3
<1>9. CASE Destroy
  <2>1. UNCHANGED <<outcome, active>> /\ shutDown'
    BY <1>9 DEF Destroy, pageVars
  <2>2. HeldLoads' = HeldLoads /\ Promise' = Promise
    BY <2>1 DEF HeldLoads, Promise
  <2>3. Service!Close
    BY <1>9, <2>1, <2>2 DEF Service!Close, Destroy
  <2>4. QED
    BY <2>1, <2>2, <2>3 DEF Service!Next
<1>10. QED
  BY <1>2, <1>3, <1>4, <1>5, <1>6, <1>7, <1>8, <1>9 DEF Next, JobRuns

\* Whatever engine, cache or queue serves a load and whenever it is aborted,
\* refused or broken off, fetch() takes only the steps LoadService allows: it
\* settles a request once, and readiness is held by exactly the open ones.
THEOREM FetchKeepsItsPromise == Spec => Service!Init /\ [][Service!Next]_(Service!vars)
<1>1. Init => TypeOK /\ ActiveCounts /\ Service!Init
  <2> SUFFICES ASSUME Init PROVE TypeOK /\ ActiveCounts /\ Service!Init
    OBVIOUS
  <2>1. Promise = [l \in Loads |-> "unsent"]
    BY DEF Init, Promise
  <2>2. QED
    BY <2>1, InitType, ActiveInit DEF Init, QueueInit, Service!Init
<1>2. TypeOK /\ ActiveCounts /\ [Next]_vars
        => (TypeOK /\ ActiveCounts)' /\ [Service!Next]_(Service!vars)
  BY TypeStep, ServiceStep
<1>3. QED
  BY <1>1, <1>2, PTL DEF Spec

-----------------------------------------------------------------------------
(* The budget.  What completes was started, and every start has been spent: *)
(* the history of starts stands between the registries and the counter.     *)

Ordered == {order[i] : i \in DOMAIN order}
SpentFirst ==
    /\ shim \cup stored \cup transfers \subseteq Ordered
    /\ \A k \in DOMAIN tasks : tasks[k].what.load \in Ordered
    /\ Cardinality(Ordered) <= spent

LEMMA OrderedFinite ==
    ASSUME TypeOK
    PROVE  Ordered \subseteq Loads /\ IsFiniteSet(Ordered) /\ Cardinality(Ordered) \in Nat
<1>1. Ordered \subseteq Loads
  BY DEF TypeOK, Ordered
<1>2. QED
  BY <1>1, AsyncLoadAssumption, FS_Subset, FS_CardinalityType

LEMMA SpentInit == Init => SpentFirst
<1> SUFFICES ASSUME Init PROVE SpentFirst
  OBVIOUS
<1>1. Ordered = {}
  BY DEF Init, Ordered
<1>2. Cardinality(Ordered) = 0
  BY <1>1, FS_EmptySet
<1>3. QED
  BY <1>1, <1>2 DEF Init, QueueInit, SpentFirst

\* A start adds one load to the history and one to what is spent.
LEMMA StartSpends ==
    ASSUME TypeOK, SpentFirst, NEW l \in Loads, NEW entry, Starts(l, entry)
    PROVE  /\ Ordered' = Ordered \cup {l}
           /\ shim' \cup stored' \subseteq Ordered'
           /\ Cardinality(Ordered') <= spent'
<1>1. order \in Seq(Loads) /\ order' = Append(order, l)
  BY DEF TypeOK, Starts
<1>2. Ordered' = Ordered \cup {l}
  BY <1>1 DEF Ordered
<1>3. Cardinality(Ordered') <= Cardinality(Ordered) + 1
  <2>1. IsFiniteSet(Ordered) /\ Cardinality(Ordered) \in Nat
    BY OrderedFinite
  <2>2. Cardinality(Ordered \cup {l}) \in {Cardinality(Ordered), Cardinality(Ordered) + 1}
    BY <2>1, FS_AddElement
  <2>3. QED
    BY <1>2, <2>1, <2>2
<1>4. spent' = spent + 1 /\ spent \in Nat
  BY AsyncLoadAssumption DEF TypeOK, Starts, Spend
<1>5. Cardinality(Ordered') <= spent'
  <2>1. Cardinality(Ordered') \in Nat
    <3>1. IsFiniteSet(Ordered \cup {l})
      BY OrderedFinite, FS_AddElement
    <3>2. QED
      BY <1>2, <3>1, FS_CardinalityType
  <2>2. Cardinality(Ordered) \in Nat
    BY OrderedFinite
  <2>3. QED
    BY <1>3, <1>4, <2>1, <2>2 DEF SpentFirst
<1>6. shim' \cup stored' \subseteq Ordered'
  BY <1>2 DEF SpentFirst, Starts, Begin
<1>7. QED
  BY <1>2, <1>5, <1>6

\* A queued delivery of a load that was started.
LEMMA PostedStarted ==
    ASSUME TypeOK, NEW S, \A k \in DOMAIN tasks : tasks[k].what.load \in S,
           NEW l \in S, NEW via, tasks' = Posted(Delivery(l, via))
    PROVE  \A k \in DOMAIN tasks' : tasks'[k].what.load \in S
<1>1. CASE shutDown
  BY <1>1 DEF Posted
<1>2. CASE ~shutDown
  <2>1. tasks \in Seq(Task) /\ tasks' = Append(tasks, Delivery(l, via))
    BY <1>2 DEF Posted, TypeOK, QueueTypeOK
  <2>2. Delivery(l, via).what.load = l
    BY DEF Delivery
  <2> HIDE DEF Delivery
  <2>3. QED
    BY <2>1, <2>2
<1>3. QED
  BY <1>1, <1>2

LEMMA FetchSpent ==
    ASSUME TypeOK, SpentFirst, NEW l \in Loads, Fetch(l)
    PROVE  SpentFirst'
<1>1. CASE BodyThrows(l)
  BY <1>1 DEF BodyThrows, SpentFirst, Ordered, queueVars, bridgeVars, history
<1>2. CASE Refused(l) \/ FailsToStart(l)
  <2>1. /\ UNCHANGED <<tasks, shim, transfers, order, stored>>
        /\ spent' \in {spent, spent + 1} /\ spent \in Nat
    BY <1>2, AsyncLoadAssumption
       DEF Refused, FailsToStart, Begin, Rejects, Spend, queueVars, TypeOK
  <2>2. Ordered' = Ordered
    BY <2>1 DEF Ordered
  <2>3. QED
    BY <2>1, <2>2, OrderedFinite DEF SpentFirst
<1>3. CASE FromCache(l) \/ Queued(l)
  <2>1. PICK entry, via : /\ Starts(l, entry)
                          /\ tasks' = Posted(Delivery(l, via))
                          /\ transfers' = transfers
    BY <1>3 DEF FromCache, Queued, Post
  <2>2. /\ Ordered' = Ordered \cup {l} /\ shim' \cup stored' \subseteq Ordered'
        /\ Cardinality(Ordered') <= spent'
    BY <2>1, StartSpends
  <2>3. \A k \in DOMAIN tasks' : tasks'[k].what.load \in Ordered \cup {l}
    BY <2>1, PostedStarted DEF SpentFirst
  <2>4. QED
    BY <2>1, <2>2, <2>3 DEF SpentFirst
<1>4. CASE Transfer(l)
  <2>1. Starts(l, "engine") /\ tasks' = tasks /\ transfers' = transfers \cup {l}
    BY <1>4 DEF Transfer, BeginExternalWork
  <2>2. /\ Ordered' = Ordered \cup {l} /\ shim' \cup stored' \subseteq Ordered'
        /\ Cardinality(Ordered') <= spent'
    BY <2>1, StartSpends
  <2>3. QED
    BY <2>1, <2>2 DEF SpentFirst
<1>5. QED
  BY <1>1, <1>2, <1>3, <1>4 DEF Fetch

LEMMA SpentStep == TypeOK /\ SpentFirst /\ [Next]_vars => SpentFirst'
<1> SUFFICES ASSUME TypeOK, SpentFirst, [Next]_vars PROVE SpentFirst'
  OBVIOUS
<1>1. CASE UNCHANGED vars
  BY <1>1 DEF vars, queueVars, bridgeVars, history, SpentFirst, Ordered
<1>2. ASSUME NEW l \in Loads, Fetch(l) PROVE SpentFirst'
  BY <1>2, FetchSpent
<1>3. ASSUME NEW l \in Loads, Land(l) PROVE SpentFirst'
  <2>1. /\ tasks' = Posted(Delivery(l, "engine")) /\ transfers' = transfers \ {l}
        /\ l \in transfers /\ UNCHANGED <<shim, stored, order, spent>>
    BY <1>3 DEF Land, LandAndPost, history
  <2>2. Ordered' = Ordered
    BY <2>1 DEF Ordered
  <2>3. \A k \in DOMAIN tasks' : tasks'[k].what.load \in Ordered
    BY <2>1, PostedStarted DEF SpentFirst
  <2>4. QED
    BY <2>1, <2>2, <2>3 DEF SpentFirst
<1>4. ASSUME NEW ok \in BOOLEAN, Deliver(ok) PROVE SpentFirst'
  <2>1. /\ tasks # <<>> /\ tasks \in Seq(Task) /\ tasks' = Tail(tasks)
        /\ UNCHANGED <<transfers, spent, order>>
    BY <1>4 DEF Deliver, TakeTask, TypeOK, QueueTypeOK
  <2>2. Ordered' = Ordered /\ tasks[1].what.load \in Ordered
    BY <2>1 DEF Ordered, SpentFirst
  <2>3. shim' \cup stored' \subseteq Ordered
    BY <1>4, <2>1, <2>2 DEF Deliver, Completes, SpentFirst
  <2>4. \A k \in DOMAIN tasks' : tasks'[k].what.load \in Ordered
    BY <2>1 DEF SpentFirst
  <2>5. QED
    BY <2>1, <2>2, <2>3, <2>4 DEF SpentFirst
<1>5. CASE JobRuns
  <2>1. UNCHANGED <<tasks, transfers, shim, stored, order, spent>>
    BY <1>5 DEF JobRuns, React, ReactBreaks, queueVars, bridgeVars, history
  <2>2. QED
    BY <2>1 DEF SpentFirst, Ordered
<1>6. ASSUME NEW l \in Loads, Abort(l) PROVE SpentFirst'
  BY <1>6 DEF Abort, EngineCancel, SpentFirst, Ordered
<1>7. CASE Destroy
  <2>1. tasks' = <<>> /\ transfers' \subseteq transfers /\ UNCHANGED <<shim, stored, order, spent>>
    BY <1>7 DEF Destroy, history
  <2>2. QED
    BY <2>1 DEF SpentFirst, Ordered
<1>8. QED
  BY <1>1, <1>2, <1>3, <1>4, <1>5, <1>6, <1>7 DEF Next, TaskRuns

\* However many loads overlap, fail or are cancelled, no more than
\* max_js_resource_loads are in flight or delivered: the count is spent at the
\* start (prepare_js_resource_request, js_runtime.cpp:2415).
THEOREM BudgetIsKept == Spec => []BudgetHolds
<1>1. TypeOK /\ SpentFirst => BudgetHolds
  <2> SUFFICES ASSUME TypeOK, SpentFirst PROVE BudgetHolds
    OBVIOUS
  <2>1. Cardinality(shim \cup stored) <= Cardinality(Ordered) /\ Cardinality(shim \cup stored) \in Nat
    BY OrderedFinite, FS_Subset, FS_CardinalityType DEF SpentFirst
  <2>2. QED
    BY <2>1, OrderedFinite, AsyncLoadAssumption DEF SpentFirst, TypeOK, BudgetHolds
<1>2. QED
  BY <1>1, InitType, TypeStep, SpentInit, SpentStep, PTL DEF Spec

-----------------------------------------------------------------------------
(* Every load is backed.  The strengthening: a load has one queued task at  *)
(* most and none while it is in flight, and an unsent one has nothing yet.  *)

TasksOf(l) == {k \in DOMAIN tasks : tasks[k].what.load = l}

Backed(l) ==
    /\ l \in shim <=> pendingLoads[l] # "none"
    /\ outcome[l] = "unsent" => l \notin shim \cup transfers /\ TasksOf(l) = {}
    /\ l \in transfers => TasksOf(l) = {}
    /\ \A i, j \in TasksOf(l) : i = j
    /\ l \in shim =>
          l \in transfers \/ \E k \in TasksOf(l) : Valid(l, tasks[k].what.via)
    /\ outcome[l] = "pending" =>
          l \in shim \/ \E k \in DOMAIN reactions : reactions[k].load = l

AllBacked == ~shutDown => \A l \in Loads : Backed(l)

\* EventLoop::post puts one task behind the others.
LEMMA PostedLast ==
    ASSUME TypeOK, ~shutDown, NEW l \in Loads, NEW via \in Via,
           tasks' = Posted(Delivery(l, via))
    PROVE  /\ DOMAIN tasks' = DOMAIN tasks \cup {Len(tasks) + 1}
           /\ \A k \in DOMAIN tasks : tasks'[k] = tasks[k]
           /\ tasks'[Len(tasks) + 1].what = [load |-> l, via |-> via]
           /\ Len(tasks) + 1 \notin DOMAIN tasks
<1>1. tasks \in Seq(Task) /\ tasks' = Append(tasks, Delivery(l, via))
  BY DEF Posted, TypeOK, QueueTypeOK
<1>2. Delivery(l, via).what = [load |-> l, via |-> via]
  BY DEF Delivery
<1> HIDE DEF Delivery
<1>3. QED
  BY <1>1, <1>2

\* EventLoop::run_one_task takes the oldest.
LEMMA TakenFirst ==
    ASSUME TypeOK, TakeTask
    PROVE  /\ 1 \in DOMAIN tasks /\ Head(tasks) = tasks[1]
           /\ \A k \in DOMAIN tasks' : k + 1 \in DOMAIN tasks /\ tasks'[k] = tasks[k + 1]
           /\ \A k \in DOMAIN tasks : k # 1 => k - 1 \in DOMAIN tasks'
           /\ DOMAIN tasks \subseteq Nat /\ DOMAIN tasks' \subseteq Nat
<1>1. tasks \in Seq(Task) /\ tasks # <<>> /\ tasks' = Tail(tasks)
  BY DEF TakeTask, TypeOK, QueueTypeOK
<1>2. QED
  BY <1>1

\* What is left of a load when nothing but reactions are added.
LEMMA ReactionsKept ==
    ASSUME TypeOK, NEW r \in Reaction, reactions' \in {reactions, Append(reactions, r)}
    PROVE  \A l : (\E k \in DOMAIN reactions : reactions[k].load = l)
                    => \E k \in DOMAIN reactions' : reactions'[k].load = l
<1>1. reactions \in Seq(Reaction)
  BY DEF TypeOK
<1>2. DOMAIN reactions \subseteq DOMAIN reactions'
      /\ \A k \in DOMAIN reactions : reactions'[k] = reactions[k]
  BY <1>1
<1>3. QED
  BY <1>2

LEMMA BackedInit == Init => AllBacked
BY DEF Init, QueueInit, AllBacked, Backed, TasksOf

\* A step that leaves a load's own entries alone leaves it backed.
LEMMA BackedAside ==
    ASSUME NEW l \in Loads, Backed(l),
           l \in shim' <=> l \in shim, l \in transfers' <=> l \in transfers,
           l \in waiting' <=> l \in waiting, pendingLoads'[l] = pendingLoads[l],
           outcome'[l] = outcome[l], TasksOf(l)' = TasksOf(l),
           \A k \in TasksOf(l) : tasks'[k] = tasks[k],
           (\E k \in DOMAIN reactions : reactions[k].load = l)
              => \E k \in DOMAIN reactions' : reactions'[k].load = l
    PROVE  Backed(l)'
<1>1. \A via : Valid(l, via)' <=> Valid(l, via)
  BY DEF Valid
<1> DEFINE Live(k) == Valid(l, tasks[k].what.via)
<1>2. \A k \in TasksOf(l) : Live(k)' <=> Live(k)
  BY <1>1
<1>3. (\E k \in TasksOf(l) : Live(k)) => (\E k \in TasksOf(l) : Live(k))'
  BY <1>2
<1> HIDE DEF Live
<1>4. QED
  BY <1>3 DEF Backed, Live

\* fetch() of a load, in each way it can go.
LEMMA FetchBacked ==
    ASSUME TypeOK, AllBacked, NEW m \in Loads, Fetch(m), NEW l \in Loads
    PROVE  Backed(l)'
<1>1. ~shutDown /\ outcome[m] = "unsent" /\ Backed(l) /\ Backed(m)
  <2>1. ~shutDown /\ outcome[m] = "unsent"
    BY DEF Fetch, BodyThrows, Refused, FailsToStart, FromCache, Queued, Transfer,
           Starts, Begin
  <2>2. QED
    BY <2>1 DEF AllBacked
<1>2. l # m => outcome'[l] = outcome[l]
  <2>1. PICK how : outcome' = [outcome EXCEPT ![m] = how]
    BY DEF Fetch, BodyThrows, Refused, FailsToStart, FromCache, Queued, Transfer,
           Starts, Begin
  <2>2. QED
    BY <2>1 DEF TypeOK
<1>3. CASE BodyThrows(m)
  <2>1. /\ UNCHANGED <<tasks, shim, transfers, waiting, pendingLoads, reactions>>
        /\ outcome' = [outcome EXCEPT ![m] = "leaked"]
    BY <1>3 DEF BodyThrows, queueVars, bridgeVars
  <2>2. QED
    BY <2>1, <1>1 DEF Backed, TasksOf, Valid, TypeOK
<1>4. CASE Refused(m) \/ FailsToStart(m)
  <2> DEFINE r == [load |-> m, ok |-> FALSE]
  <2>1. /\ UNCHANGED <<tasks, shim, transfers, waiting, pendingLoads>>
        /\ outcome' = [outcome EXCEPT ![m] = "pending"]
        /\ reactions' = Append(reactions, r)
    BY <1>4 DEF Refused, FailsToStart, Begin, Rejects, queueVars
  <2>2. r \in Reaction
    BY DEF Reaction
  <2>3. TasksOf(l)' = TasksOf(l) /\ \A k \in TasksOf(l) : tasks'[k] = tasks[k]
    BY <2>1 DEF TasksOf
  <2>4. CASE l # m
    BY <2>1, <2>2, <2>3, <2>4, <1>1, <1>2, ReactionsKept, BackedAside
  <2>5. CASE l = m
    <3>1. \E k \in DOMAIN reactions' : reactions'[k].load = l
      <4>1. reactions \in Seq(Reaction)
        BY DEF TypeOK
      <4>2. Len(reactions) + 1 \in DOMAIN reactions' /\ reactions'[Len(reactions) + 1] = r
        BY <2>1, <2>2, <4>1
      <4>3. QED
        BY <4>2, <2>5
    <3>2. outcome'[l] = "pending"
      BY <2>1, <2>5 DEF TypeOK
    <3>3. QED
      BY <2>1, <2>3, <3>1, <3>2, <1>1 DEF Backed, Valid
  <2>6. QED
    BY <2>4, <2>5
<1>5. ASSUME NEW via \in {"cache", "waiting"}, NEW entry \in {"sentinel", "engine"},
             Starts(m, entry), tasks' = Posted(Delivery(m, via)), transfers' = transfers,
             waiting' = IF via = "waiting" THEN waiting \cup {m} ELSE waiting
      PROVE  Backed(l)'
  <2>1. /\ DOMAIN tasks' = DOMAIN tasks \cup {Len(tasks) + 1}
        /\ \A k \in DOMAIN tasks : tasks'[k] = tasks[k]
        /\ tasks'[Len(tasks) + 1].what = [load |-> m, via |-> via]
        /\ Len(tasks) + 1 \notin DOMAIN tasks
    BY <1>1, <1>5, PostedLast DEF Via
  <2>2. /\ shim' = shim \cup {m} /\ reactions' = reactions
        /\ pendingLoads' = [pendingLoads EXCEPT ![m] = entry]
        /\ outcome' = [outcome EXCEPT ![m] = "pending"]
    BY <1>5 DEF Starts, Begin
  <2>3. CASE l # m
    <3>1. TasksOf(l)' = TasksOf(l) /\ \A k \in TasksOf(l) : tasks'[k] = tasks[k]
      BY <2>1, <2>3 DEF TasksOf
    <3>2. QED
      BY <1>1, <1>2, <1>5, <2>2, <2>3, <3>1, BackedAside DEF TypeOK
  <2>4. CASE l = m
    <3>1. TasksOf(l)' = {Len(tasks) + 1}
      BY <2>1, <2>4, <1>1 DEF TasksOf, Backed
    <3>2. tasks'[Len(tasks) + 1].what.via = via
      BY <2>1
    <3>3. pendingLoads'[l] = entry /\ outcome'[l] = "pending" /\ l \in shim'
      BY <2>2, <2>4 DEF TypeOK
    <3>4. Valid(l, via)'
      BY <1>5, <2>4, <3>3 DEF Valid
    <3>5. l \notin transfers'
      BY <1>1, <1>5, <2>4 DEF Backed
    <3>6. QED
      BY <3>1, <3>2, <3>3, <3>4, <3>5 DEF Backed
  <2>5. QED
    BY <2>3, <2>4
<1>6. CASE FromCache(m) \/ Queued(m)
  BY <1>5, <1>6 DEF FromCache, Queued, Post
<1>7. CASE Transfer(m)
  <2>1. /\ shim' = shim \cup {m} /\ reactions' = reactions /\ tasks' = tasks
        /\ pendingLoads' = [pendingLoads EXCEPT ![m] = "engine"]
        /\ outcome' = [outcome EXCEPT ![m] = "pending"]
        /\ transfers' = transfers \cup {m} /\ waiting' = waiting
    BY <1>7 DEF Transfer, Starts, Begin, BeginExternalWork
  <2>2. TasksOf(l)' = TasksOf(l)
    BY <2>1 DEF TasksOf
  <2>3. CASE l # m
    BY <1>1, <1>2, <2>1, <2>2, <2>3, BackedAside DEF TypeOK
  <2>4. CASE l = m
    <3>1. pendingLoads'[l] = "engine" /\ outcome'[l] = "pending" /\ l \in shim' \cap transfers'
      BY <2>1, <2>4 DEF TypeOK
    <3>2. TasksOf(l)' = {}
      BY <1>1, <2>2, <2>4 DEF Backed
    <3>3. QED
      BY <3>1, <3>2 DEF Backed
  <2>5. QED
    BY <2>3, <2>4
<1>8. QED
  BY <1>3, <1>4, <1>6, <1>7 DEF Fetch

\* A transfer that lands becomes a queued delivery.
LEMMA LandBacked ==
    ASSUME TypeOK, AllBacked, NEW m \in Loads, Land(m), NEW l \in Loads
    PROVE  Backed(l)'
<1>1. /\ ~shutDown /\ m \in transfers /\ transfers' = transfers \ {m}
      /\ tasks' = Posted(Delivery(m, "engine"))
      /\ UNCHANGED <<shim, pendingLoads, waiting, reactions, outcome>>
  BY DEF Land, LandAndPost, pageVars
<1>2. Backed(l) /\ Backed(m)
  BY <1>1 DEF AllBacked
<1>3. /\ DOMAIN tasks' = DOMAIN tasks \cup {Len(tasks) + 1}
      /\ \A k \in DOMAIN tasks : tasks'[k] = tasks[k]
      /\ tasks'[Len(tasks) + 1].what = [load |-> m, via |-> "engine"]
      /\ Len(tasks) + 1 \notin DOMAIN tasks
  BY <1>1, PostedLast DEF Via
<1>4. CASE l # m
  <2>1. TasksOf(l)' = TasksOf(l) /\ \A k \in TasksOf(l) : tasks'[k] = tasks[k]
    BY <1>3, <1>4 DEF TasksOf
  <2>2. QED
    BY <1>1, <1>2, <1>4, <2>1, BackedAside
<1>5. CASE l = m
  <2>1. TasksOf(l)' = {Len(tasks) + 1}
    BY <1>1, <1>2, <1>3, <1>5 DEF TasksOf, Backed
  <2>2. tasks'[Len(tasks) + 1].what.via = "engine" /\ Valid(l, "engine")'
    BY <1>3 DEF Valid
  <2>3. outcome'[l] # "unsent" /\ l \notin transfers'
    BY <1>1, <1>2, <1>5 DEF Backed
  <2>4. QED
    BY <1>1, <1>2, <2>1, <2>2, <2>3 DEF Backed
<1>6. QED
  BY <1>4, <1>5

\* The oldest delivery completes its load, or finds that it is no longer valid.
LEMMA DeliverBacked ==
    ASSUME TypeOK, AllBacked, NEW ok \in BOOLEAN, Deliver(ok), NEW l \in Loads
    PROVE  Backed(l)'
<1> DEFINE t == Head(tasks).what
           r == [load |-> t.load, ok |-> ok]
           Live(k) == Valid(l, tasks[k].what.via)
<1>1. /\ ~shutDown /\ TakeTask /\ UNCHANGED <<transfers, outcome>>
      /\ IF Valid(t.load, t.via) THEN Completes(t.load, ok)
         ELSE UNCHANGED <<pendingLoads, waiting, stored, shim, reactions>>
  BY DEF Deliver
<1>2. Backed(l)
  BY <1>1 DEF AllBacked
<1>3. /\ 1 \in DOMAIN tasks /\ Head(tasks) = tasks[1]
      /\ \A k \in DOMAIN tasks' : k + 1 \in DOMAIN tasks /\ tasks'[k] = tasks[k + 1]
      /\ \A k \in DOMAIN tasks : k # 1 => k - 1 \in DOMAIN tasks'
      /\ DOMAIN tasks \subseteq Nat /\ DOMAIN tasks' \subseteq Nat
  BY <1>1, TakenFirst
<1>4. t.load \in Loads
  <2>1. tasks[1] \in Task
    BY <1>3 DEF TypeOK, QueueTypeOK
  <2>2. QED
    BY <1>3, <2>1, AsyncLoadAssumption DEF Task
<1>5. /\ \A k \in TasksOf(l)' : k + 1 \in TasksOf(l)
      /\ TasksOf(l) = {} => TasksOf(l)' = {}
      /\ \A k \in TasksOf(l) : k # 1 => k - 1 \in TasksOf(l)' /\ tasks'[k - 1] = tasks[k]
  BY <1>3 DEF TasksOf
<1>6. \A i, j \in TasksOf(l)' : i = j
  <2>1. \A i, j \in TasksOf(l)' : i + 1 = j + 1 /\ i \in Nat /\ j \in Nat
    BY <1>2, <1>3, <1>5 DEF Backed, TasksOf
  <2>2. QED
    BY <2>1
<1>7. CASE l # t.load
  <2>1. /\ l \in shim' <=> l \in shim
        /\ l \in waiting' <=> l \in waiting
        /\ pendingLoads'[l] = pendingLoads[l]
    BY <1>1, <1>7 DEF Completes, TypeOK
  <2>2. \A via : Valid(l, via)' <=> Valid(l, via)
    BY <2>1 DEF Valid
  <2>3. ASSUME NEW k \in TasksOf(l), Live(k) PROVE \E n \in TasksOf(l)' : Live(n)'
    <3>1. k # 1
      BY <1>3, <1>7 DEF TasksOf
    <3>2. k - 1 \in TasksOf(l)' /\ tasks'[k - 1] = tasks[k]
      BY <1>5, <3>1
    <3>3. Live(k - 1)'
      BY <2>2, <2>3, <3>2
    <3>4. QED
      BY <3>2, <3>3
  <2>4. (\E k \in DOMAIN reactions : reactions[k].load = l)
           => \E k \in DOMAIN reactions' : reactions'[k].load = l
    <3>1. r \in Reaction /\ reactions' \in {reactions, Append(reactions, r)}
      BY <1>1, <1>4 DEF Reaction, Completes
    <3>2. QED
      BY <3>1, ReactionsKept
  <2> HIDE DEF Live
  <2>5. QED
    BY <1>1, <1>2, <1>5, <1>6, <2>1, <2>3, <2>4 DEF Backed, Live
<1>8. CASE l = t.load
  <2>1. 1 \in TasksOf(l)
    BY <1>3, <1>8 DEF TasksOf
  <2>2. l \notin transfers
    BY <1>2, <2>1 DEF Backed
  <2>3. l \notin shim' /\ pendingLoads'[l] = "none"
    <3>1. l \in shim => Live(1)
      BY <1>2, <2>1, <2>2 DEF Backed
    <3>2. CASE Valid(t.load, t.via)
      BY <1>1, <1>4, <1>8, <3>2 DEF Completes, TypeOK
    <3>3. CASE ~Valid(t.load, t.via)
      BY <1>1, <1>2, <1>3, <1>8, <3>1, <3>3 DEF Backed
    <3>4. QED
      BY <3>2, <3>3
  <2>4. outcome[l] = "pending" => \E k \in DOMAIN reactions' : reactions'[k].load = l
    <3>1. CASE l \in shim
      <4>1. reactions' = Append(reactions, r) /\ reactions \in Seq(Reaction) /\ r \in Reaction
        BY <1>1, <1>4, <1>8, <2>3, <3>1 DEF Completes, TypeOK, Reaction
      <4>2. Len(reactions) + 1 \in DOMAIN reactions' /\ reactions'[Len(reactions) + 1] = r
        BY <4>1
      <4>3. QED
        BY <4>2, <1>8
    <3>2. CASE l \notin shim
      <4>1. r \in Reaction /\ reactions' \in {reactions, Append(reactions, r)}
        BY <1>1, <1>4 DEF Reaction, Completes
      <4>2. QED
        BY <1>2, <3>2, <4>1, ReactionsKept DEF Backed
    <3>3. QED
      BY <3>1, <3>2
  <2>5. outcome[l] # "unsent"
    BY <1>2, <2>1 DEF Backed
  <2>6. QED
    BY <1>1, <1>6, <2>2, <2>3, <2>4, <2>5 DEF Backed
<1>9. QED
  BY <1>7, <1>8

\* A reaction runs or breaks off: its load is no longer pending.
LEMMA JobBacked ==
    ASSUME TypeOK, AllBacked, JobRuns, NEW l \in Loads
    PROVE  Backed(l)'
<1> DEFINE m == Head(reactions).load
<1>1. /\ ~shutDown /\ reactions # <<>> /\ reactions \in Seq(Reaction)
      /\ reactions' = Tail(reactions)
      /\ UNCHANGED <<tasks, shim, transfers, waiting, pendingLoads>>
  BY DEF JobRuns, React, ReactBreaks, queueVars, bridgeVars, TypeOK
<1>2. Backed(l)
  BY <1>1 DEF AllBacked
<1>3. /\ Head(reactions) = reactions[1] /\ m \in Loads
      /\ \A k \in DOMAIN reactions : k # 1 => /\ k - 1 \in DOMAIN reactions'
                                             /\ reactions'[k - 1] = reactions[k]
  <2>1. Head(reactions) \in Reaction /\ Head(reactions) = reactions[1]
    BY <1>1
  <2>2. m \in Loads
    BY <2>1 DEF Reaction
  <2>3. QED
    BY <1>1, <2>1, <2>2
<1>4. /\ l # m => outcome'[l] = outcome[l]
      /\ outcome'[l] = "unsent" => outcome[l] = "unsent"
      /\ outcome'[l] = "pending" => l # m /\ outcome[l] = "pending"
  BY <1>3 DEF JobRuns, React, ReactBreaks, Settles, TypeOK
<1>5. TasksOf(l)' = TasksOf(l) /\ \A via : Valid(l, via)' <=> Valid(l, via)
  BY <1>1 DEF TasksOf, Valid
<1>6. outcome'[l] = "pending" =>
         l \in shim' \/ \E k \in DOMAIN reactions' : reactions'[k].load = l
  <2> SUFFICES ASSUME outcome'[l] = "pending", l \notin shim
               PROVE  \E k \in DOMAIN reactions' : reactions'[k].load = l
    BY <1>1
  <2>1. PICK k \in DOMAIN reactions : reactions[k].load = l
    BY <1>2, <1>4 DEF Backed
  <2>2. k # 1
    BY <1>3, <1>4, <2>1
  <2>3. QED
    BY <1>3, <2>1, <2>2
<1>7. QED
  BY <1>1, <1>2, <1>4, <1>5, <1>6 DEF Backed

\* abort() takes a load out of both registries and of the engine.
LEMMA AbortBacked ==
    ASSUME TypeOK, AllBacked, NEW m \in Loads, Abort(m), NEW l \in Loads
    PROVE  Backed(l)'
<1>1. /\ ~shutDown /\ shim' = shim \ {m} /\ outcome[m] # "unsent"
      /\ pendingLoads' = [pendingLoads EXCEPT ![m] = "none"]
      /\ \E how \in {"released", "aborted"} : outcome' = [outcome EXCEPT ![m] = how]
      /\ UNCHANGED <<tasks, reactions>>
  BY DEF Abort, Settles
<1>2. /\ transfers' \subseteq transfers /\ transfers \ {m} \subseteq transfers'
      /\ waiting' \subseteq waiting /\ waiting \ {m} \subseteq waiting'
  BY DEF Abort, EngineCancel
<1>3. Backed(l)
  BY <1>1 DEF AllBacked
<1>4. TasksOf(l)' = TasksOf(l) /\ \A k \in TasksOf(l) : tasks'[k] = tasks[k]
  BY <1>1 DEF TasksOf
<1>5. CASE l # m
  <2>1. outcome'[l] = outcome[l] /\ pendingLoads'[l] = pendingLoads[l]
    BY <1>1, <1>5 DEF TypeOK
  <2>2. QED
    BY <1>1, <1>2, <1>3, <1>4, <1>5, <2>1, BackedAside
<1>6. CASE l = m
  <2>1. outcome'[l] \notin {"unsent", "pending"} /\ pendingLoads'[l] = "none" /\ l \notin shim'
    BY <1>1, <1>6 DEF TypeOK
  <2>2. QED
    BY <1>2, <1>3, <1>4, <2>1 DEF Backed
<1>7. QED
  BY <1>5, <1>6

LEMMA BackedStep == TypeOK /\ AllBacked /\ [Next]_vars => AllBacked'
<1> SUFFICES ASSUME TypeOK, AllBacked, [Next]_vars, ~shutDown', NEW l \in Loads
             PROVE  Backed(l)'
  BY DEF AllBacked
<1>1. CASE UNCHANGED vars
  <2>1. UNCHANGED <<tasks, shutDown, shim, pendingLoads, transfers, waiting, reactions, outcome>>
    BY <1>1 DEF vars, queueVars, bridgeVars, pageVars
  <2>2. Backed(l) /\ TasksOf(l)' = TasksOf(l)
    BY <2>1 DEF AllBacked, TasksOf
  <2>3. QED
    BY <2>1, <2>2, BackedAside
<1>2. CASE \E m \in Loads : Fetch(m) \/ Land(m) \/ Abort(m)
  BY <1>2, FetchBacked, LandBacked, AbortBacked
<1>3. CASE TaskRuns
  BY <1>3, DeliverBacked DEF TaskRuns
<1>4. CASE JobRuns
  BY <1>4, JobBacked
<1>5. CASE Destroy
  BY <1>5 DEF Destroy
<1>6. QED
  BY <1>1, <1>2, <1>3, <1>4, <1>5 DEF Next

\* Of a load that is backed, exactly one thing is left that will complete it.
LEMMA BackedOnce ==
    ASSUME TypeOK, NEW l \in shim, Backed(l)
    PROVE  Cardinality(LiveTasks(l)) + (IF l \in transfers THEN 1 ELSE 0) = 1
<1>1. LiveTasks(l) = {k \in TasksOf(l) : Valid(l, tasks[k].what.via)}
  <2>1. DOMAIN tasks = 1..Len(tasks)
    BY DEF TypeOK, QueueTypeOK
  <2>2. \A k \in DOMAIN tasks : tasks[k].what.load = l =>
           (Valid(tasks[k].what.load, tasks[k].what.via) <=> Valid(l, tasks[k].what.via))
    OBVIOUS
  <2>3. QED
    BY <2>1 DEF LiveTasks, TasksOf
<1>2. CASE l \in transfers
  <2>1. LiveTasks(l) = {}
    BY <1>1, <1>2 DEF Backed
  <2>2. QED
    BY <1>2, <2>1, FS_EmptySet
<1>3. CASE l \notin transfers
  <2>1. PICK k \in TasksOf(l) : Valid(l, tasks[k].what.via)
    BY <1>3 DEF Backed
  <2>2. LiveTasks(l) = {k}
    BY <1>1, <2>1 DEF Backed
  <2>3. Cardinality({k}) = 1
    BY FS_Singleton
  <2>4. QED
    BY <1>3, <2>2, <2>3
<1>4. QED
  BY <1>2, <1>3

\* Whatever is aborted, refused, landed or broken off, and when: the registries
\* of the shim and of the bridge hold the same loads, each of them has exactly
\* one transfer or queued delivery that will complete it, and a pending fetch has
\* a load or a reaction (start_resource_load, cancel_resource_load).
THEOREM EveryLoadAlwaysBacked == Spec => []EveryLoadIsBacked
<1>1. TypeOK /\ AllBacked => EveryLoadIsBacked
  <2> SUFFICES ASSUME TypeOK, AllBacked, ~shutDown, NEW l \in Loads
               PROVE  /\ l \in shim <=> pendingLoads[l] # "none"
                      /\ l \in shim =>
                            Cardinality(LiveTasks(l)) + (IF l \in transfers THEN 1 ELSE 0) = 1
                      /\ outcome[l] = "pending" =>
                            \/ l \in shim
                            \/ \E k \in 1..Len(reactions) : reactions[k].load = l
    BY DEF EveryLoadIsBacked
  <2>1. Backed(l) /\ DOMAIN reactions = 1..Len(reactions)
    BY DEF AllBacked, TypeOK
  <2>2. QED
    BY <2>1, BackedOnce DEF Backed
<1>2. QED
  BY <1>1, InitType, TypeStep, BackedInit, BackedStep, PTL DEF Spec

-----------------------------------------------------------------------------
(* The adapter keeps the order of the starts.  The strengthening: its queue  *)
(* holds the latest starts, in their order, so what has been delivered is a  *)
(* prefix of the history, and only the last of it may still be in a reaction. *)

Delivered == Len(order) - Len(tasks)
Answered == {"resolved", "failed"}

Prefix ==
    /\ transfers = {}
    /\ Delivered \in Nat
    /\ \A k \in DOMAIN tasks : tasks[k].what.load = order[Delivered + k]
    /\ \A i, j \in DOMAIN order : order[i] = order[j] => i = j
    /\ \A i \in DOMAIN order : outcome[order[i]] # "unsent"
    /\ \A i \in DOMAIN order : outcome[order[i]] \in Answered => i <= Delivered
    /\ \A k \in DOMAIN reactions : outcome[reactions[k].load] # "unsent"
    /\ \A i \in DOMAIN order : i <= Delivered /\ outcome[order[i]] = "pending" =>
          \E k \in DOMAIN reactions : reactions[k].load = order[i]
    /\ \A k \in DOMAIN reactions : \A i \in DOMAIN order :
          reactions[k].load = order[i] => i = Delivered

KeepsPrefix == engine = "adapter" /\ ~shutDown => Prefix

LEMMA PrefixInit == Init => KeepsPrefix
BY DEF Init, QueueInit, KeepsPrefix, Prefix, Delivered

\* The sequences of a typed state.
LEMMA Sequences ==
    ASSUME TypeOK
    PROVE  /\ order \in Seq(Loads) /\ tasks \in Seq(Task) /\ reactions \in Seq(Reaction)
           /\ Len(order) \in Nat /\ Len(tasks) \in Nat
           /\ DOMAIN order = 1..Len(order) /\ DOMAIN tasks = 1..Len(tasks)
           /\ DOMAIN reactions = 1..Len(reactions)
           /\ \A i \in DOMAIN order : order[i] \in Loads
           /\ \A k \in DOMAIN reactions : reactions[k].load \in Loads
<1>1. order \in Seq(Loads) /\ tasks \in Seq(Task) /\ reactions \in Seq(Reaction)
  BY DEF TypeOK, QueueTypeOK
<1>2. \A k \in DOMAIN reactions : reactions[k] \in Reaction
  BY <1>1
<1>3. QED
  BY <1>1, <1>2 DEF Reaction

\* A start that fails, or never asks the adapter, is in nobody's way.
LEMMA RefusedPrefix ==
    ASSUME TypeOK, Prefix, NEW m \in Loads, outcome[m] = "unsent",
           NEW how \in {"pending", "leaked"}, outcome' = [outcome EXCEPT ![m] = how],
           UNCHANGED <<tasks, order, transfers>>,
           \/ reactions' = reactions
           \/ how = "pending" /\ reactions' = Append(reactions, [load |-> m, ok |-> FALSE])
    PROVE  Prefix'
<1>1. /\ Delivered' = Delivered
      /\ \A i \in DOMAIN order : order[i] # m /\ outcome'[order[i]] = outcome[order[i]]
  BY Sequences DEF Delivered, Prefix, TypeOK
<1>2. /\ \A k \in DOMAIN reactions : k \in DOMAIN reactions' /\ reactions'[k] = reactions[k]
      /\ \A k \in DOMAIN reactions' : k \in DOMAIN reactions \/ reactions'[k].load = m
  BY Sequences
<1>3. outcome'[m] # "unsent" /\ \A l \in Loads : outcome[l] # "unsent" => outcome'[l] # "unsent"
  BY DEF TypeOK
<1>4. \A k \in DOMAIN reactions' : outcome'[reactions'[k].load] # "unsent"
  BY <1>2, <1>3, Sequences DEF Prefix
<1>5. \A i \in DOMAIN order : i <= Delivered /\ outcome'[order[i]] = "pending" =>
          \E k \in DOMAIN reactions' : reactions'[k].load = order[i]
  BY <1>1, <1>2 DEF Prefix
<1>6. \A k \in DOMAIN reactions' : \A i \in DOMAIN order :
          reactions'[k].load = order[i] => i = Delivered
  BY <1>1, <1>2 DEF Prefix
<1>7. QED
  BY <1>1, <1>4, <1>5, <1>6 DEF Prefix

\* A start joins both ends: the history and the queue.
LEMMA QueuedPrefix ==
    ASSUME TypeOK, Prefix, ~shutDown, NEW m \in Loads, Queued(m)
    PROVE  Prefix'
<1>1. /\ outcome[m] = "unsent" /\ outcome' = [outcome EXCEPT ![m] = "pending"]
      /\ order' = Append(order, m) /\ UNCHANGED <<transfers, reactions>>
      /\ tasks' = Posted(Delivery(m, "waiting"))
  BY DEF Queued, Starts, Begin, Post
<1> DEFINE n == Len(order) + 1
<1>2. /\ DOMAIN order' = DOMAIN order \cup {n} /\ order'[n] = m /\ Len(order') = n
      /\ \A i \in DOMAIN order : order'[i] = order[i]
  BY <1>1, Sequences
<1>3. /\ DOMAIN tasks' = DOMAIN tasks \cup {Len(tasks) + 1}
      /\ \A k \in DOMAIN tasks : tasks'[k] = tasks[k]
      /\ tasks'[Len(tasks) + 1].what = [load |-> m, via |-> "waiting"]
  BY <1>1, PostedLast DEF Via
<1>4. Len(tasks') = Len(tasks) + 1
  <2>1. tasks' = Append(tasks, Delivery(m, "waiting"))
    BY <1>1 DEF Posted
  <2>2. QED
    BY <2>1, Sequences
<1>5. Delivered' = Delivered /\ Delivered + Len(tasks) + 1 = n
  BY <1>2, <1>4, Sequences DEF Delivered
<1>6. \A k \in DOMAIN tasks' : tasks'[k].what.load = order'[Delivered + k]
  <2>1. \A k \in DOMAIN tasks : Delivered + k \in DOMAIN order
    BY Sequences DEF Prefix, Delivered
  <2>2. Delivered + (Len(tasks) + 1) = n
    BY <1>5, Sequences DEF Prefix
  <2>3. QED
    BY <1>2, <1>3, <2>1, <2>2 DEF Prefix
<1>7. \A i \in DOMAIN order : order[i] # m /\ outcome'[order[i]] = outcome[order[i]]
  BY <1>1, Sequences DEF Prefix, TypeOK
<1>8. \A k \in DOMAIN reactions : reactions[k].load # m
  BY <1>1 DEF Prefix
<1>9. outcome'[m] = "pending"
  BY <1>1 DEF TypeOK
<1>10. n > Delivered
  BY <1>5, Sequences DEF Prefix
<1>11. \A i, j \in DOMAIN order' : order'[i] = order'[j] => i = j
  BY <1>2, <1>7 DEF Prefix
<1>12. \A k \in DOMAIN reactions : outcome'[reactions[k].load] # "unsent"
  BY <1>1, Sequences DEF Prefix, TypeOK
<1>13. \A i \in DOMAIN order' : outcome'[order'[i]] # "unsent"
  BY <1>2, <1>7, <1>9 DEF Prefix
<1>14. \A i \in DOMAIN order' : outcome'[order'[i]] \in Answered => i <= Delivered
  BY <1>2, <1>7, <1>9 DEF Prefix, Answered
<1>15. \A i \in DOMAIN order' : i <= Delivered /\ outcome'[order'[i]] = "pending" =>
          \E k \in DOMAIN reactions : reactions[k].load = order'[i]
  <2>1. \A i \in DOMAIN order' : i <= Delivered => i \in DOMAIN order
    BY <1>2, <1>10, Sequences DEF Prefix
  <2>2. QED
    BY <1>2, <1>7, <2>1 DEF Prefix
<1>16. \A k \in DOMAIN reactions : \A i \in DOMAIN order' :
          reactions[k].load = order'[i] => i = Delivered
  BY <1>2, <1>8 DEF Prefix
<1>17. transfers' = {} /\ Delivered' \in Nat /\ Delivered' = Delivered
  BY <1>1, <1>5 DEF Prefix
<1>18. \A k \in DOMAIN tasks' : tasks'[k].what.load = order'[Delivered' + k]
  BY <1>6, <1>17
<1>19. /\ \A i \in DOMAIN order' : outcome'[order'[i]] \in Answered => i <= Delivered'
       /\ \A i \in DOMAIN order' : i <= Delivered' /\ outcome'[order'[i]] = "pending" =>
             \E k \in DOMAIN reactions : reactions[k].load = order'[i]
       /\ \A k \in DOMAIN reactions : \A i \in DOMAIN order' :
             reactions[k].load = order'[i] => i = Delivered'
  BY <1>14, <1>15, <1>16, <1>17
<1>20. reactions' = reactions
  BY <1>1
<1>21. QED
  BY <1>11, <1>12, <1>13, <1>17, <1>18, <1>19, <1>20, Zenon DEF Prefix

\* The delivery that runs is that of the earliest start not yet delivered.
LEMMA DeliverPrefix ==
    ASSUME TypeOK, AllBacked, Prefix, NEW ok \in BOOLEAN, Deliver(ok)
    PROVE  Prefix'
<1> DEFINE t == Head(tasks).what
           r == [load |-> t.load, ok |-> ok]
           d == Delivered + 1
<1>1. /\ ~shutDown /\ TakeTask /\ reactions = <<>> /\ UNCHANGED <<transfers, outcome, order>>
      /\ IF Valid(t.load, t.via) THEN Completes(t.load, ok)
         ELSE UNCHANGED <<pendingLoads, waiting, stored, shim, reactions>>
  BY DEF Deliver
<1>2. /\ 1 \in DOMAIN tasks /\ Head(tasks) = tasks[1]
      /\ \A k \in DOMAIN tasks' : k + 1 \in DOMAIN tasks /\ tasks'[k] = tasks[k + 1]
  BY <1>1, TakenFirst
<1>3. Delivered' = d /\ d \in DOMAIN order /\ Delivered \in Nat
  <2>1. tasks' = Tail(tasks) /\ tasks # <<>>
    BY <1>1 DEF TakeTask
  <2>2. Len(tasks') = Len(tasks) - 1 /\ Len(tasks) >= 1
    BY <2>1, Sequences
  <2>3. QED
    BY <1>1, <2>2, Sequences DEF Delivered, Prefix
<1>4. t.load = order[d] /\ t.load \in Loads /\ r \in Reaction
  BY <1>2, <1>3, Sequences DEF Prefix, Reaction
<1>5. /\ reactions' = <<>> \/ reactions' = <<r>>
      /\ Valid(t.load, t.via) /\ t.load \in shim => reactions' = <<r>>
  BY <1>1, <1>4 DEF Completes
<1>6. \A k \in DOMAIN tasks' : tasks'[k].what.load = order[d + k]
  <2>1. \A k \in DOMAIN tasks' : tasks[k + 1].what.load = order[Delivered + (k + 1)]
    BY <1>2 DEF Prefix
  <2>2. \A k \in DOMAIN tasks' : Delivered + (k + 1) = d + k
    BY <1>1, <1>3, TakenFirst
  <2>3. QED
    BY <1>2, <2>1, <2>2
<1>7. \A k \in DOMAIN reactions' : reactions'[k].load = order[d]
  BY <1>4, <1>5
<1>8. \A k \in DOMAIN reactions' : outcome[reactions'[k].load] # "unsent"
  BY <1>3, <1>7 DEF Prefix
<1>9. \A k \in DOMAIN reactions' : \A i \in DOMAIN order :
          reactions'[k].load = order[i] => i = d
  BY <1>3, <1>7 DEF Prefix
<1>10. outcome[order[d]] = "pending" => \E k \in DOMAIN reactions' : reactions'[k].load = order[d]
  <2> SUFFICES ASSUME outcome[t.load] = "pending" PROVE reactions' = <<r>>
    BY <1>4
  <2>1. Backed(t.load)
    BY <1>1, <1>4 DEF AllBacked
  <2>2. t.load \in shim /\ t.load \notin transfers
    BY <1>1, <2>1 DEF Backed, Prefix
  <2>3. PICK k \in TasksOf(t.load) : Valid(t.load, tasks[k].what.via)
    BY <2>1, <2>2 DEF Backed
  <2>4. 1 \in TasksOf(t.load)
    BY <1>2 DEF TasksOf
  <2>5. k = 1
    BY <2>1, <2>4 DEF Backed
  <2>6. QED
    BY <1>2, <1>5, <2>2, <2>3, <2>5
<1>11. \A i \in DOMAIN order : i <= d /\ outcome[order[i]] = "pending" =>
          \E k \in DOMAIN reactions' : reactions'[k].load = order[i]
  <2> SUFFICES ASSUME NEW i \in DOMAIN order, i <= d, outcome[order[i]] = "pending"
               PROVE  \E k \in DOMAIN reactions' : reactions'[k].load = order[i]
    OBVIOUS
  <2>1. ~(i <= Delivered)
    BY <1>1 DEF Prefix
  <2>2. i = d
    BY <1>3, <2>1, Sequences
  <2>3. QED
    BY <1>10, <2>2
<1>12. \A i \in DOMAIN order : outcome[order[i]] \in Answered => i <= d
  BY <1>3, Sequences DEF Prefix
<1> HIDE DEF d
<1>13. QED
  BY <1>1, <1>3, <1>6, <1>8, <1>9, <1>11, <1>12 DEF Prefix, d

\* A reaction is that of the last load delivered, or of one that never started.
LEMMA JobPrefix ==
    ASSUME TypeOK, Prefix, JobRuns
    PROVE  Prefix'
<1> DEFINE m == Head(reactions).load
<1>1. /\ reactions # <<>> /\ reactions' = Tail(reactions)
      /\ UNCHANGED <<tasks, transfers, order>>
  BY DEF JobRuns, React, ReactBreaks, queueVars, bridgeVars, history
<1>2. /\ 1 \in DOMAIN reactions /\ m = reactions[1].load /\ m \in Loads
      /\ \A k \in DOMAIN reactions : k # 1 => /\ k - 1 \in DOMAIN reactions'
                                             /\ reactions'[k - 1] = reactions[k]
      /\ \A k \in DOMAIN reactions' : /\ k + 1 \in DOMAIN reactions
                                      /\ reactions'[k] = reactions[k + 1]
  <2>1. Head(reactions) = reactions[1] /\ 1 \in DOMAIN reactions
    BY <1>1, Sequences
  <2>2. QED
    BY <1>1, <2>1, Sequences
<1> HIDE DEF m
<1>3. /\ \A l \in Loads : l # m => outcome'[l] = outcome[l]
      /\ \A l \in Loads : outcome[l] # "unsent" => outcome'[l] # "unsent"
      /\ \A l \in Loads : outcome'[l] = "pending" => l # m /\ outcome[l] = "pending"
  BY <1>2 DEF m, JobRuns, React, ReactBreaks, Settles, TypeOK
<1>4. /\ \A i \in DOMAIN order : order[i] \in Loads
      /\ \A k \in DOMAIN reactions : reactions[k].load \in Loads
  BY Sequences
<1>5. Delivered' = Delivered /\ Delivered \in Nat
  BY <1>1 DEF Delivered, Prefix
<1>6. \A i \in DOMAIN order : outcome'[order[i]] \in Answered => i <= Delivered
  <2> SUFFICES ASSUME NEW i \in DOMAIN order, outcome'[order[i]] \in Answered
               PROVE  i <= Delivered
    OBVIOUS
  <2>1. CASE order[i] = m
    <3>1. i = Delivered
      BY <1>2, <2>1 DEF Prefix
    <3>2. QED
      BY <1>5, <3>1
  <2>2. CASE order[i] # m
    BY <1>3, <1>4, <2>2 DEF Prefix
  <2>3. QED
    BY <2>1, <2>2
<1>7. \A i \in DOMAIN order : i <= Delivered /\ outcome'[order[i]] = "pending" =>
          \E k \in DOMAIN reactions' : reactions'[k].load = order[i]
  <2> SUFFICES ASSUME NEW i \in DOMAIN order, i <= Delivered, outcome'[order[i]] = "pending"
               PROVE  \E k \in DOMAIN reactions' : reactions'[k].load = order[i]
    OBVIOUS
  <2>1. outcome[order[i]] = "pending" /\ order[i] # m
    BY <1>3, <1>4
  <2>2. PICK k \in DOMAIN reactions : reactions[k].load = order[i]
    BY <2>1 DEF Prefix
  <2>3. QED
    BY <1>2, <2>1, <2>2
<1>8. \A i \in DOMAIN order : outcome'[order[i]] # "unsent"
  BY <1>3, <1>4 DEF Prefix
<1>9. \A k \in DOMAIN reactions' : outcome'[reactions'[k].load] # "unsent"
  BY <1>2, <1>3, <1>4 DEF Prefix
<1>10. \A k \in DOMAIN reactions' : \A i \in DOMAIN order :
          reactions'[k].load = order[i] => i = Delivered
  BY <1>2 DEF Prefix
<1>11. QED
  BY <1>1, <1>5, <1>6, <1>7, <1>8, <1>9, <1>10 DEF Prefix

LEMMA AbortPrefix ==
    ASSUME TypeOK, Prefix, NEW m \in Loads, Abort(m)
    PROVE  Prefix'
<1>1. /\ \E how \in {"released", "aborted"} : outcome' = [outcome EXCEPT ![m] = how]
      /\ transfers' \subseteq transfers /\ UNCHANGED <<tasks, order, reactions>>
  BY DEF Abort, Settles, EngineCancel
<1>2. \A l \in Loads : /\ outcome[l] # "unsent" => outcome'[l] # "unsent"
                      /\ outcome'[l] \in Answered \cup {"pending"} => outcome'[l] = outcome[l]
  BY <1>1 DEF TypeOK, Answered
<1>3. Delivered' = Delivered
  BY <1>1 DEF Delivered
<1>4. QED
  BY <1>1, <1>2, <1>3, Sequences DEF Prefix

LEMMA PrefixStep == TypeOK /\ AllBacked /\ KeepsPrefix /\ [Next]_vars => KeepsPrefix'
<1> SUFFICES ASSUME TypeOK, AllBacked, KeepsPrefix, [Next]_vars, ~shutDown', engine' = "adapter"
             PROVE  Prefix'
  BY DEF KeepsPrefix
<1>1. CASE UNCHANGED vars
  <2>1. UNCHANGED <<engine, tasks, shutDown, transfers, reactions, outcome, order>>
    BY <1>1 DEF vars, queueVars, bridgeVars, pageVars, history
  <2>2. QED
    BY <2>1 DEF KeepsPrefix, Prefix, Delivered
<1>2. CASE Next
  <2>1. engine = "adapter" /\ ~shutDown
    BY <1>2 DEF Next, Fetch, BodyThrows, Refused, FailsToStart, FromCache, Queued, Transfer,
                Starts, Begin, Land, Abort, TaskRuns, Deliver, JobRuns, React, ReactBreaks, Destroy
  <2>2. Prefix
    BY <2>1 DEF KeepsPrefix
  <2>3. ASSUME NEW m \in Loads, Fetch(m) PROVE Prefix'
    <3>1. CASE BodyThrows(m) \/ Refused(m)
      <4>1. PICK how \in {"pending", "leaked"} :
                /\ outcome[m] = "unsent" /\ outcome' = [outcome EXCEPT ![m] = how]
                /\ UNCHANGED <<tasks, order, transfers>>
                /\ \/ reactions' = reactions
                   \/ /\ how = "pending"
                      /\ reactions' = Append(reactions, [load |-> m, ok |-> FALSE])
        BY <3>1 DEF BodyThrows, Refused, Begin, Rejects, queueVars, bridgeVars, history
      <4>2. QED
        BY <2>2, <4>1, RefusedPrefix
    <3>2. CASE Queued(m)
      BY <2>1, <2>2, <3>2, QueuedPrefix
    <3>3. QED
      BY <2>1, <2>3, <3>1, <3>2 DEF Fetch, FailsToStart, FromCache, Transfer
  <2>4. ASSUME NEW m \in Loads, Land(m) PROVE Prefix'
    BY <2>2, <2>4 DEF Land, Prefix
  <2>5. QED
    BY <1>2, <2>1, <2>2, <2>3, <2>4, AbortPrefix, DeliverPrefix, JobPrefix DEF Next, TaskRuns, Destroy
<1>3. QED
  BY <1>1, <1>2

\* With the task-queue adapter fetches are answered in the order they were made,
\* whatever is refused, cancelled or broken off in between
\* (TaskQueueAsyncLoader::start posts one task for each).
THEOREM AdapterAlwaysKeepsOrder == Spec => []AdapterKeepsOrder
<1>1. TypeOK /\ KeepsPrefix => AdapterKeepsOrder
  <2> SUFFICES ASSUME TypeOK, Prefix, NEW i \in DOMAIN order, NEW j \in DOMAIN order,
                      i < j, outcome[order[j]] \in Answered
               PROVE  outcome[order[i]] # "pending"
    BY Sequences DEF AdapterKeepsOrder, KeepsPrefix, Answered
  <2>1. j <= Delivered /\ Delivered \in Nat
    BY DEF Prefix
  <2>2. i <= Delivered /\ i # Delivered
    BY <2>1, Sequences
  <2>3. QED
    BY <2>2 DEF Prefix
<1>2. QED
  BY <1>1, InitType, TypeStep, BackedInit, BackedStep, PrefixInit, PrefixStep, PTL DEF Spec
=============================================================================
