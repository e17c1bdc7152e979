------------------------ MODULE IngestPipelineProofs ------------------------
(***************************************************************************)
(* Theorems about the ingest path from the request to the rows: what       *)
(* IngestEdgeProofs shows of the API and IngestConsumerProofs of the       *)
(* consumer's steps holds when the two run together, on one topic.         *)
(***************************************************************************)
EXTENDS IngestPipeline, IngestEdgeProofs

Steps == INSTANCE IngestConsumerProofs

-----------------------------------------------------------------------------
(* The steps of the consumer are those of IngestConsumerProofs.            *)

LEMMA SameSteps ==
    /\ Consumer!ConsumerInit => Steps!ConsumerInit
    /\ \A c : Consumer!ConsumerStep(c) => Steps!ConsumerStep(c)
    /\ \A c : Consumer!ConsumerFault(c) => Steps!ConsumerFault(c)
  <1> USE DEF Consumer!At, Steps!At, Consumer!Goto, Steps!Goto, Consumer!Current,
          Steps!Current, Consumer!Nobody, Steps!Nobody, Consumer!NoOffset,
          Steps!NoOffset, Consumer!Garbage, Steps!Garbage, Consumer!Idle, Steps!Idle,
          Consumer!environment, Steps!environment, Consumer!tables, Steps!tables,
          Consumer!group, Steps!group, Consumer!caches, Steps!caches, Consumer!outcomes,
          Steps!outcomes, Consumer!Fault, Steps!Fault, Consumer!Throws, Steps!Throws,
          Consumer!StatementThrows, Steps!StatementThrows, Consumer!InsertAlert,
          Steps!InsertAlert, Consumer!Wanted, Steps!Wanted, Consumer!Unresolved,
          Steps!Unresolved, Consumer!Items, Steps!Items
  <1>1. Consumer!ConsumerInit => Steps!ConsumerInit
    BY DEF Consumer!ConsumerInit, Steps!ConsumerInit
  <1>2. \A c : Consumer!Fetch(c) => Steps!Fetch(c)
    BY DEF Consumer!Fetch, Steps!Fetch, Consumer!Handling, Steps!Handling
  <1>3. \A c : Consumer!Reject(c) => Steps!Reject(c)
    BY DEF Consumer!Reject, Steps!Reject
  <1>4. \A c : Consumer!UnknownSite(c) => Steps!UnknownSite(c)
    BY DEF Consumer!UnknownSite, Steps!UnknownSite
  <1>5. \A c : Consumer!FindSite(c) => Steps!FindSite(c)
    BY DEF Consumer!FindSite, Steps!FindSite
  <1>6. \A c : Consumer!SelectPoints(c) => Steps!SelectPoints(c)
    BY DEF Consumer!SelectPoints, Steps!SelectPoints
  <1>7. \A c : Consumer!InsertPoints(c) => Steps!InsertPoints(c)
    BY DEF Consumer!InsertPoints, Steps!InsertPoints
  <1>8. \A c : Consumer!PersistUnresolved(c) => Steps!PersistUnresolved(c)
    BY DEF Consumer!PersistUnresolved, Steps!PersistUnresolved
  <1>9. \A c : Consumer!ResolveOffset(c) => Steps!ResolveOffset(c)
    BY DEF Consumer!ResolveOffset, Steps!ResolveOffset
  <1>10. \A c : Consumer!HeartbeatThrows(c) => Steps!HeartbeatThrows(c)
    BY DEF Consumer!HeartbeatThrows, Steps!HeartbeatThrows
  <1>g. \A c : Consumer!GoesOn(c) => Steps!GoesOn(c)
    BY DEF Consumer!GoesOn, Steps!GoesOn, Consumer!Handling, Steps!Handling
  <1>11. \A c : Consumer!FindSiteThrows(c) => Steps!FindSiteThrows(c)
    BY DEF Consumer!FindSiteThrows, Steps!FindSiteThrows
  <1>12. \A c : Consumer!SelectPointsThrows(c) => Steps!SelectPointsThrows(c)
    BY DEF Consumer!SelectPointsThrows, Steps!SelectPointsThrows
  <1>13. \A c : Consumer!InsertPointsThrows(c) => Steps!InsertPointsThrows(c)
    BY DEF Consumer!InsertPointsThrows, Steps!InsertPointsThrows
  <1>14. \A c : Consumer!Crash(c) => Steps!Crash(c)
    BY DEF Consumer!Crash, Steps!Crash
  <1>15. \A c : Consumer!DeltasFit(c) <=> Steps!DeltasFit(c)
    BY DEF Consumer!Items, Steps!Items, Consumer!KeyOf, Steps!KeyOf, Consumer!KeysOf,
       Steps!KeysOf, Consumer!KeyMonth, Steps!KeyMonth, Consumer!Fresh, Steps!Fresh,
       Consumer!DeltaRow, Steps!DeltaRow, Consumer!Overflows, Steps!Overflows,
       Consumer!DeltasFit, Steps!DeltasFit
  <1>16. \A c : Consumer!Commit(c) => Steps!Commit(c)
    BY DEF Consumer!Items, Steps!Items, Consumer!KeyOf, Steps!KeyOf, Consumer!KeysOf,
       Steps!KeysOf, Consumer!KeyMonth, Steps!KeyMonth, Consumer!Fresh, Steps!Fresh,
       Consumer!LateKeys, Steps!LateKeys, Consumer!MarkMonthsStale,
       Steps!MarkMonthsStale, Consumer!DeltaRow, Steps!DeltaRow,
       Consumer!WriteMetricsOutbox, Steps!WriteMetricsOutbox, Consumer!WriteOutbox,
       Steps!WriteOutbox, Consumer!Commit, Steps!Commit
  <1>17. \A c : Consumer!Persist(c) => Steps!Persist(c)
    BY <1>15, <1>16 DEF Consumer!Persist, Steps!Persist
  <1>18. \A c : Consumer!PersistOverflows(c) => Steps!PersistOverflows(c)
    BY <1>15, <1>16 DEF Consumer!PersistOverflows, Steps!PersistOverflows
  <1>19. \A c : Consumer!PersistThrows(c) => Steps!PersistThrows(c)
    BY <1>15, <1>16 DEF Consumer!PersistThrows, Steps!PersistThrows
  <1>20. \A c : Consumer!Join(c) => Steps!Join(c)
    BY DEF Consumer!Join, Steps!Join, Consumer!Assign, Steps!Assign
  <1>21. \A c : Consumer!Rebalance(c) => Steps!Rebalance(c)
    BY DEF Consumer!Rebalance, Steps!Rebalance, Consumer!Assign, Steps!Assign
  <1>22. \A c : Consumer!ConsumerStep(c) => Steps!ConsumerStep(c)
    BY <1>2, <1>3, <1>4, <1>5, <1>6, <1>7, <1>17, <1>8, <1>18, <1>9, <1>10, <1>g, <1>20
       DEF Consumer!ConsumerStep, Steps!ConsumerStep
  <1>23. \A c : Consumer!ConsumerFault(c) => Steps!ConsumerFault(c)
    BY <1>11, <1>12, <1>13, <1>19, <1>21, <1>14
       DEF Consumer!ConsumerFault, Steps!ConsumerFault
  <1> QED
    BY <1>1, <1>22, <1>23

\* What IngestConsumerProofs assumes of its constants, the pipeline's satisfy:
\* its lemmas are about these steps.
LEMMA ConsumerLemmas ==
    /\ MaxFaults \in Nat
    /\ Loads \subseteq Seq(Steps!Measurement) \ {<<>>}
    /\ Heavy \subseteq Steps!Measurement
    /\ MonthOf \in [Sites \X Instants -> Nat]
    /\ MaxLog \in Nat
    /\ MaxMonth \in Nat \ {0}
    /\ Steps!Nobody \notin Consumers
  BY FailuresAssumption, PipelineAssumption
     DEF Consumer!Measurement, Steps!Measurement, Steps!Nobody, Nobody

-----------------------------------------------------------------------------
(* The inductive invariant.                                                *)

\* A batch in the log is that of a request, and a request keeps its batch.
LogWasSubmitted == \A i \in DOMAIN log : log[i] \in Submitted
IdleIsEmpty == \A r \in Requests : req[r].pc = "idle" => req[r].msg = NoMessage

\* A site that was there all along stays there.
SeedsStay == SeedSites \subseteq siteRows

\* What was given up named a site that was created meanwhile, or may be.
DroppedWereNew ==
    \A i \in dropped :
        i \in DOMAIN log /\ log[i].site \notin SeedSites /\ Created(log[i].site)

PipelineInv ==
    /\ EdgeInv /\ Steps!TypeInv
    /\ LogWasSubmitted /\ IdleIsEmpty /\ SeedsStay /\ DroppedWereNew

LEMMA MessagesDiffer ==
    /\ Steps!Message = Message
    /\ \A m \in Message : m # Steps!Garbage /\ m # NoMessage
  <1>1. Steps!Message = Message
    BY DEF Steps!Message, Message
  <1>2. ASSUME NEW m \in Message PROVE m # Steps!Garbage /\ m # NoMessage
    <2>1. m.site \in Sites /\ m.load \in Loads
      BY DEF Message
    <2>2. m.load # <<>> /\ m.site # Nobody
      BY <2>1, PipelineAssumption
    <2>3. Steps!Garbage.load = <<>> /\ NoMessage.site = Nobody
      BY DEF Steps!Garbage, NoMessage
    <2> QED
      BY <2>2, <2>3
  <1> QED
    BY <1>1, <1>2

-----------------------------------------------------------------------------
(* What a step of the API does to the consumer's inputs.                   *)

LEMMA LogGrowsAtEdge ==
    ASSUME EdgeTypeInv, [EdgeNext]_allEdgeVars
    PROVE  \/ log' = log
           \/ \E r \in Requests : /\ req[r].pc = "produce" /\ req[r].msg \in Message
                                  /\ log' = Append(log, req[r].msg)
  <1>1. \A r \in Requests : At(r, "produce") => req[r].msg \in Message
    BY DEF EdgeTypeInv, RequestsTyped, Working, At
  <1>2. ASSUME NEW r \in Requests, Produce(r) \/ ProduceThrows(r)
        PROVE  log' = log \/ (At(r, "produce") /\ log' = Append(log, req[r].msg))
    BY <1>2 DEF Produce, ProduceThrows
  <1>3. ASSUME NEW r \in Requests,
               \/ Receive(r) \/ CheckMember(r) \/ CheckMemberThrows(r)
               \/ CheckRow(r) \/ CheckRowThrows(r)
               \/ ClaimFirst(r) \/ ClaimSeen(r) \/ ClaimThrows(r) \/ ClaimResent(r)
               \/ Revert(r) \/ RevertThrows(r)
        PROVE  log' = log
    BY <1>3 DEF Receive, CheckMember, CheckMemberThrows, CheckRow, CheckRowThrows,
       ClaimFirst, ClaimSeen, ClaimThrows, ClaimResent, Revert, RevertThrows
  <1>4. ASSUME NEW a \in Apis, RebootEdge(a)
        PROVE  log' = log \/ \E r \in Requests : At(r, "produce") /\ log' = Append(log, req[r].msg)
    BY <1>4 DEF RebootEdge
  <1>5. ASSUME NEW k \in Claim, ClaimForgotten(k) PROVE log' = log
    BY <1>5 DEF ClaimForgotten
  <1>6. CASE RegistryStep \/ UNCHANGED allEdgeVars
    BY <1>6 DEF RegistryStep, allEdgeVars, edgeVars
  <1> QED
    BY <1>1, <1>2, <1>3, <1>4, <1>5, <1>6 DEF EdgeNext, At

LEMMA RequestsKeepBatches ==
    ASSUME EdgeTypeInv, IdleIsEmpty, [EdgeNext]_allEdgeVars
    PROVE  /\ IdleIsEmpty'
           /\ \A r \in Requests : req[r].pc # "idle" => req'[r].msg = req[r].msg
  <1>t. req \in [Requests -> Request]
    BY DEF EdgeTypeInv, EdgeTypeOK, Request
  <1>1. ASSUME NEW r \in Requests, NEW pc \in RequestPC \ {"idle"}, Goto(r, pc)
        PROVE  /\ \A q \in Requests : req'[q].msg = req[q].msg
               /\ \A q \in Requests : req'[q].pc = "idle" => req[q].pc = "idle"
    BY <1>t, <1>1 DEF Goto, Request
  <1>2. ASSUME \A q \in Requests : req'[q].msg = req[q].msg,
               \A q \in Requests : req'[q].pc = "idle" => req[q].pc = "idle"
        PROVE  /\ IdleIsEmpty'
               /\ \A r \in Requests : req[r].pc # "idle" => req'[r].msg = req[r].msg
    BY <1>2 DEF IdleIsEmpty
  <1>3. ASSUME NEW r \in Requests, Receive(r)
        PROVE  /\ IdleIsEmpty'
               /\ \A q \in Requests : req[q].pc # "idle" => req'[q].msg = req[q].msg
    <2>1. PICK new : req' = [req EXCEPT ![r] = new] /\ new.pc = "check" /\ At(r, "idle")
      BY <1>3 DEF Receive
    <2>2. req'[r].pc = "check" /\ req[r].pc = "idle"
          /\ \A q \in Requests : q # r => req'[q] = req[q]
      BY <1>t, <2>1 DEF At
    <2> QED
      BY <2>2 DEF IdleIsEmpty
  <1>4. ASSUME NEW r \in Requests,
               \/ CheckMember(r) \/ CheckMemberThrows(r)
               \/ CheckRow(r) \/ CheckRowThrows(r)
               \/ ClaimFirst(r) \/ ClaimSeen(r) \/ ClaimThrows(r) \/ ClaimResent(r)
               \/ Produce(r) \/ ProduceThrows(r) \/ Revert(r) \/ RevertThrows(r)
        PROVE  \E pc \in RequestPC \ {"idle"} : Goto(r, pc)
    BY <1>4 DEF CheckMember, CheckMemberThrows, CheckRow, CheckRowThrows, ClaimFirst,
       ClaimSeen, ClaimThrows, ClaimResent, Produce, ProduceThrows, Revert, RevertThrows,
       RequestPC, Working, Answered
  <1>5. ASSUME NEW a \in Apis, RebootEdge(a)
        PROVE  /\ \A q \in Requests : req'[q].msg = req[q].msg
               /\ \A q \in Requests : req'[q].pc = "idle" => req[q].pc = "idle"
    <2>1. \A q \in Requests : \/ req'[q] = req[q]
                              \/ req'[q] = [req[q] EXCEPT !.pc = "dropped"]
      BY <1>5 DEF RebootEdge
    <2>2. \A q \in Requests : req[q] \in Request
      BY <1>t
    <2> QED
      BY <2>1, <2>2 DEF Request
  <1>6. CASE RegistryStep \/ (\E k \in Claim : ClaimForgotten(k)) \/ UNCHANGED allEdgeVars
    <2>1. req' = req
      BY <1>6 DEF RegistryStep, ClaimForgotten, allEdgeVars, edgeVars
    <2> QED
      BY <1>2, <2>1
  <1> QED
    BY <1>1, <1>2, <1>3, <1>4, <1>5, <1>6 DEF EdgeNext

LEMMA RowsStay ==
    ASSUME [EdgeNext]_allEdgeVars
    PROVE  siteRows \subseteq siteRows'
  <1>1. CASE RegistryNext
    BY <1>1 DEF RegistryNext, CreateInsert, CreateSAdd, CreateSAddFails, CreateCommit,
       CreateCommitFails, WarmSelect, WarmSAdd, WarmFails, Reboot, RedisLosesSites
  <1>2. CASE UNCHANGED <<siteRows, sitesValid, lost, create, boot>>
    BY <1>2
  <1> QED
    BY <1>1, <1>2, EdgeOnRegistry DEF registryVars

LEMMA CreatedStays ==
    ASSUME RegistryTypeOK, [EdgeNext]_allEdgeVars, NEW slug, Created(slug)
    PROVE  Created(slug)'
  <1>t. create \in [Creators -> [pc : CreatePC, slug : Sites \union {Nobody},
                                 api : Apis \union {Nobody}]]
    BY DEF RegistryTypeOK
  <1>1. PICK c \in Creators : /\ create[c].slug = slug
                              /\ create[c].pc \in {"commit", "failed", "created"}
    BY DEF Created
  <1>2. SUFFICES create'[c].slug = slug /\ create'[c].pc \in {"commit", "failed", "created"}
    BY DEF Created
  <1>3. CASE [RegistryNext]_registryVars
    <2>1. ASSUME NEW d \in Creators,
                 \/ CreateInsert(d) \/ CreateSAdd(d) \/ CreateSAddFails(d)
                 \/ CreateCommit(d) \/ CreateCommitFails(d)
          PROVE  create'[c].slug = slug /\ create'[c].pc \in {"commit", "failed", "created"}
      <3>1. CASE d # c
        <4>1. create'[c] = create[c]
          BY <1>t, <2>1, <3>1 DEF CreateInsert, CreateSAdd, CreateSAddFails, CreateCommit,
             CreateCommitFails
        <4> QED
          BY <1>1, <4>1
      <3>2. CASE d = c
        <4>1. CreateCommit(c) \/ CreateCommitFails(c)
          BY <1>1, <2>1, <3>2 DEF CreateInsert, CreateSAdd, CreateSAddFails
        <4>2. PICK pc \in {"created", "failed"} : create' = [create EXCEPT ![c].pc = pc]
          BY <4>1 DEF CreateCommit, CreateCommitFails
        <4> QED
          BY <1>t, <1>1, <4>2
      <3> QED
        BY <3>1, <3>2
    <2>2. ASSUME NEW a \in Apis, Reboot(a)
          PROVE  create'[c].slug = slug /\ create'[c].pc \in {"commit", "failed", "created"}
      <3>1. create'[c] = create[c] \/ create'[c] = [create[c] EXCEPT !.pc = "failed"]
        BY <2>2 DEF Reboot
      <3> QED
        BY <1>t, <1>1, <3>1
    <2>3. ASSUME \/ \E a \in Apis : WarmSelect(a) \/ WarmSAdd(a) \/ WarmFails(a)
                 \/ RedisLosesSites \/ UNCHANGED registryVars
          PROVE  create' = create
      BY <2>3 DEF WarmSelect, WarmSAdd, WarmFails, RedisLosesSites, registryVars
    <2> QED
      BY <1>1, <1>3, <2>1, <2>2, <2>3 DEF RegistryNext
  <1>4. ASSUME UNCHANGED <<siteRows, sitesValid, lost, create, boot>>
        PROVE  create'[c].slug = slug /\ create'[c].pc \in {"commit", "failed", "created"}
    BY <1>1, <1>4
  <1> QED
    BY <1>3, <1>4, EdgeOnRegistry

-----------------------------------------------------------------------------
(* A step of the API.                                                      *)

LEMMA SubmittedGrows ==
    ASSUME EdgeTypeInv, IdleIsEmpty, [EdgeNext]_allEdgeVars
    PROVE  Submitted \subseteq Submitted'
  <1>1. ASSUME NEW r \in Requests, req[r].msg # NoMessage
        PROVE  req'[r].msg = req[r].msg
    BY <1>1, RequestsKeepBatches DEF IdleIsEmpty
  <1> QED
    BY <1>1 DEF Submitted

\* What the API may do to the log: nothing, or the append of a submitted batch.
LEMMA LogAtEdge ==
    ASSUME EdgeTypeInv, [EdgeNext]_allEdgeVars
    PROVE  /\ \A i \in DOMAIN log : i \in DOMAIN log' /\ log'[i] = log[i]
           /\ \A i \in DOMAIN log' : log'[i] \in Submitted \/ (i \in DOMAIN log /\ log'[i] = log[i])
  <1>1. CASE log' = log
    BY <1>1
  <1>2. ASSUME NEW r \in Requests, req[r].msg \in Message, log' = Append(log, req[r].msg)
        PROVE  /\ \A i \in DOMAIN log : i \in DOMAIN log' /\ log'[i] = log[i]
               /\ \A i \in DOMAIN log' :
                     log'[i] = req[r].msg \/ (i \in DOMAIN log /\ log'[i] = log[i])
    <2>1. log \in Seq(Message)
      BY DEF EdgeTypeInv, EdgeTypeOK
    <2> QED
      BY <1>2, <2>1, LenProperties, AppendProperties
  <1>3. ASSUME NEW r \in Requests, req[r].msg \in Message
        PROVE  req[r].msg \in Submitted
    BY <1>3, MessagesDiffer DEF Submitted
  <1> QED
    BY <1>1, <1>2, <1>3, LogGrowsAtEdge

LEMMA EdgeStepKeeps ==
    ASSUME PipelineInv, EdgeStep
    PROVE  PipelineInv'
  <1> USE DEF PipelineInv
  <1>e. [EdgeNext]_allEdgeVars /\ EdgeTypeInv /\ EdgeTypeInv'
    BY EdgeInvNext DEF EdgeStep, EdgeInv
  <1>1. EdgeInv'
    BY <1>e, EdgeInvNext
  <1>2. Steps!TypeInv'
    <2>1. log' \in Seq(Steps!Message \union {Steps!Garbage}) /\ siteRows' \subseteq Sites
          /\ faults' \in Nat
      <3>1. log' \in Seq(Message) /\ siteRows' \subseteq Sites /\ faults' \in 0..MaxFaults
        BY <1>e DEF EdgeTypeInv, EdgeTypeOK, RegistryTypeOK
      <3>2. Message \subseteq Steps!Message \union {Steps!Garbage}
        BY MessagesDiffer
      <3>3. Seq(Message) \subseteq Seq(Steps!Message \union {Steps!Garbage})
        BY <3>2
      <3> QED
        BY <3>1, <3>3, FailuresAssumption
    <2>2. Steps!ConsumerTypeOK'
      BY <2>1 DEF EdgeStep, consumerOwn, Steps!TypeInv, Steps!ConsumerTypeOK
    <2>3. Steps!InFlight'
      BY <1>e, LogAtEdge DEF EdgeStep, consumerOwn, Steps!TypeInv, Steps!InFlight, Steps!Current
    <2> QED
      BY <2>2, <2>3 DEF Steps!TypeInv
  <1>3. LogWasSubmitted'
    BY <1>e, LogAtEdge, SubmittedGrows DEF LogWasSubmitted
  <1>4. IdleIsEmpty'
    BY <1>e, RequestsKeepBatches
  <1>5. DroppedWereNew'
    <2>1. RegistryTypeOK
      BY DEF EdgeInv, RegistryInv, RegistryTypeInv
    <2>2. dropped' = dropped
      BY DEF EdgeStep, consumerOwn
    <2>3. ASSUME NEW i \in dropped
          PROVE  /\ i \in DOMAIN log' /\ log'[i].site \notin SeedSites
                 /\ \E c \in Creators : /\ create'[c].slug = log'[i].site
                                       /\ create'[c].pc \in {"commit", "failed", "created"}
      <3>1. log'[i] = log[i] /\ i \in DOMAIN log' /\ log[i].site \notin SeedSites
        BY <1>e, LogAtEdge DEF DroppedWereNew
      <3>2. Created(log[i].site)
        BY DEF DroppedWereNew
      <3>3. \A slug : Created(slug) => Created(slug)'
        BY <1>e, <2>1, CreatedStays
      <3>4. PICK slug : slug = log[i].site
        OBVIOUS
      <3>5. Created(slug)'
        BY <3>2, <3>3, <3>4
      <3> QED
        BY <3>1, <3>4, <3>5 DEF Created
    <2> QED
      BY <2>2, <2>3 DEF DroppedWereNew, Created
  <1>6. SeedsStay'
    BY <1>e, RowsStay DEF SeedsStay
  <1> QED
    BY <1>1, <1>2, <1>3, <1>4, <1>5, <1>6

-----------------------------------------------------------------------------
(* A step of the consumer, and a failure under it.                         *)

ConsumerMoves(c) == ConsumerStep(c) \/ ConsumerFault(c)

LEMMA MovesAreSteps ==
    ASSUME NEW c \in Consumers, ConsumerMoves(c)
    PROVE  /\ Steps!ConsumerStep(c) \/ Steps!ConsumerFault(c)
           /\ [Steps!Next]_(Steps!consumerVars)
           /\ UNCHANGED <<siteRows, sitesValid, lost, create, boot, edgeVars>>
  <1>1. Steps!ConsumerStep(c) \/ Steps!ConsumerFault(c)
    BY SameSteps DEF ConsumerMoves, ConsumerStep, ConsumerFault
  <1>2. Steps!Next
    BY <1>1 DEF Steps!Next, Steps!ConsumerNext
  <1>3. UNCHANGED <<siteRows, sitesValid, lost, create, boot, edgeVars>>
    BY DEF ConsumerMoves, ConsumerStep, ConsumerFault
  <1> QED
    BY <1>1, <1>2, <1>3

\* The consumer spends the fault budget as the API does.
LEMMA MovesCountFaults ==
    ASSUME NEW c \in Consumers, Steps!ConsumerStep(c) \/ Steps!ConsumerFault(c)
    PROVE  UNCHANGED faults \/ \E kind : Fault(kind)
  <1> USE DEF Steps!Fault, Fault
  <1>1. CASE Steps!ConsumerStep(c)
    BY <1>1 DEF Steps!ConsumerStep, Steps!Fetch, Steps!Reject, Steps!UnknownSite,
       Steps!FindSite, Steps!SelectPoints, Steps!InsertPoints, Steps!Persist,
       Steps!PersistUnresolved, Steps!PersistOverflows, Steps!ResolveOffset,
       Steps!HeartbeatThrows, Steps!GoesOn, Steps!Join, Steps!InsertAlert
  <1>2. CASE Steps!ConsumerFault(c)
    BY <1>2 DEF Steps!ConsumerFault, Steps!FindSiteThrows, Steps!SelectPointsThrows,
       Steps!InsertPointsThrows, Steps!PersistThrows, Steps!Rebalance, Steps!Crash,
       Steps!StatementThrows
  <1> QED
    BY <1>1, <1>2

\* Only the two ways of giving a message up add to what was given up.
LEMMA MovesThatDrop ==
    ASSUME NEW c \in Consumers, Steps!ConsumerStep(c) \/ Steps!ConsumerFault(c)
    PROVE  \/ UNCHANGED dropped
           \/ /\ Steps!Reject(c) \/ Steps!UnknownSite(c)
              /\ dropped' = dropped \union {work[c].offset}
  <1>1. CASE Steps!ConsumerStep(c)
    BY <1>1 DEF Steps!ConsumerStep, Steps!Fetch, Steps!Reject, Steps!UnknownSite,
       Steps!FindSite, Steps!SelectPoints, Steps!InsertPoints, Steps!Persist,
       Steps!PersistUnresolved, Steps!PersistOverflows, Steps!ResolveOffset,
       Steps!HeartbeatThrows, Steps!GoesOn, Steps!Join, Steps!Assign, Steps!Throws, Steps!outcomes
  <1>2. CASE Steps!ConsumerFault(c)
    BY <1>2 DEF Steps!ConsumerFault, Steps!FindSiteThrows, Steps!SelectPointsThrows,
       Steps!InsertPointsThrows, Steps!PersistThrows, Steps!Rebalance, Steps!Crash,
       Steps!Assign, Steps!StatementThrows, Steps!Throws, Steps!outcomes
  <1> QED
    BY <1>1, <1>2

\* The API's invariant is about its own state and the fault budget.
LEMMA EdgeInvFault ==
    ASSUME EdgeInv, UNCHANGED faults \/ \E kind : Fault(kind),
           UNCHANGED <<siteRows, sitesValid, lost, create, boot, edgeVars>>
    PROVE  EdgeInv'
  <1> USE DEF EdgeInv
  <1>1. RegistryInv'
    <2>1. CASE UNCHANGED faults
      <3>1. [RegistryNext]_registryVars
        BY <2>1 DEF registryVars
      <3> QED
        BY <3>1, RegistryInvNext
    <2>2. CASE \E kind : Fault(kind)
      BY <2>2, RegistryInvFault
    <2> QED
      BY <2>1, <2>2
  <1>2. EdgeTypeInv'
    BY <1>1 DEF RegistryInv, RegistryTypeInv, EdgeTypeInv, EdgeTypeOK, RequestsTyped, edgeVars
  <1>3. ClaimsAreBacked' /\ ExcusesCover'
    BY DEF ClaimsAreBacked, ExcusesCover, InLog, Holders, Copies, Unclaimed, edgeVars
  <1>4. CheckedAreKnown' /\ LogIsKnown'
    BY DEF CheckedAreKnown, LogIsKnown, Known, edgeVars
  <1> QED
    BY <1>1, <1>2, <1>3, <1>4

LEMMA GivenUpWasCreated ==
    ASSUME PipelineInv, NEW c \in Consumers, Steps!Reject(c) \/ Steps!UnknownSite(c)
    PROVE  /\ work[c].offset \in DOMAIN log
           /\ log[work[c].offset].site \notin SeedSites
           /\ Created(log[work[c].offset].site)
  <1> DEFINE i == work[c].offset
  <1>1. i \in DOMAIN log
    BY DEF PipelineInv, Steps!TypeInv, Steps!InFlight, Steps!Reject, Steps!UnknownSite, Steps!At
  <1>2. log \in Seq(Message)
    BY DEF PipelineInv, EdgeInv, EdgeTypeInv, EdgeTypeOK
  <1>3. log[i] \in Message /\ log[i] # Steps!Garbage
    BY <1>1, <1>2, MessagesDiffer
  <1>4. log[i].site \notin siteRows
    BY <1>3 DEF Steps!Reject, Steps!UnknownSite, Steps!Current
  <1>5. Known(log[i].site)
    BY <1>1 DEF PipelineInv, EdgeInv, LogIsKnown
  <1>6. log[i].site \notin SeedSites
    BY <1>4 DEF PipelineInv, SeedsStay
  <1> QED
    BY <1>1, <1>4, <1>5, <1>6 DEF Known, Created

LEMMA ConsumerMovesKeep ==
    ASSUME PipelineInv, NEW c \in Consumers, ConsumerMoves(c)
    PROVE  PipelineInv'
  <1> USE DEF PipelineInv
  <1>m. /\ Steps!ConsumerStep(c) \/ Steps!ConsumerFault(c)
        /\ [Steps!Next]_(Steps!consumerVars)
        /\ UNCHANGED <<siteRows, sitesValid, lost, create, boot, edgeVars>>
    BY MovesAreSteps
  <1>1. EdgeInv'
    BY <1>m, MovesCountFaults, EdgeInvFault
  <1>2. Steps!TypeInv'
    BY <1>m, Steps!TypeInvNext, ConsumerLemmas
  <1>3. LogWasSubmitted' /\ IdleIsEmpty'
    BY <1>m DEF LogWasSubmitted, IdleIsEmpty, Submitted, edgeVars
  <1>4. DroppedWereNew'
    <2>1. UNCHANGED <<log, create>>
      BY <1>m DEF edgeVars
    <2>2. \A i \in dropped' :
             i \in DOMAIN log /\ log[i].site \notin SeedSites /\ Created(log[i].site)
      BY <1>m, MovesThatDrop, GivenUpWasCreated DEF DroppedWereNew
    <2> QED
      BY <2>1, <2>2 DEF DroppedWereNew, Created
  <1>5. SeedsStay'
    BY <1>m DEF SeedsStay
  <1> QED
    BY <1>1, <1>2, <1>3, <1>4, <1>5

LEMMA PipelineInvInit == PipelineInit => PipelineInv
  <1> SUFFICES ASSUME PipelineInit PROVE PipelineInv
    OBVIOUS
  <1>1. EdgeInv
    BY EdgeInvInit DEF PipelineInit
  <1>2. Steps!TypeInv
    <2>1. log = <<>> /\ faults \in Nat /\ siteRows \subseteq Sites /\ clock \in Steps!Month
      BY RegistryAssumption
         DEF PipelineInit, EdgeInit, RegistryInit, Consumer!Month, Steps!Month
    <2>2. Steps!ConsumerInit
      BY SameSteps DEF PipelineInit
    <2>3. Steps!Idle \in Steps!Work /\ Steps!Idle.pc = "idle"
      BY DEF Steps!Idle, Steps!Work, Steps!HandlerPC
    <2>4. Steps!ConsumerTypeOK
      BY <2>1, <2>2, <2>3 DEF Steps!ConsumerInit, Steps!ConsumerTypeOK, Steps!NoOffset
    <2>5. Steps!InFlight
      BY <2>2, <2>3 DEF Steps!ConsumerInit, Steps!InFlight
    <2> QED
      BY <2>4, <2>5 DEF Steps!TypeInv
  <1>3. LogWasSubmitted /\ IdleIsEmpty
    BY DEF PipelineInit, EdgeInit, LogWasSubmitted, IdleIsEmpty
  <1>4. DroppedWereNew /\ SeedsStay
    BY DEF PipelineInit, Consumer!ConsumerInit, DroppedWereNew, EdgeInit, RegistryInit, SeedsStay
  <1> QED
    BY <1>1, <1>2, <1>3, <1>4 DEF PipelineInv

LEMMA PipelineInvNext == PipelineInv /\ [PipelineNext]_pipelineVars => PipelineInv'
  <1> SUFFICES ASSUME PipelineInv, [PipelineNext]_pipelineVars PROVE PipelineInv'
    OBVIOUS
  <1>1. CASE EdgeStep
    BY <1>1, EdgeStepKeeps
  <1>2. ASSUME NEW c \in Consumers, ConsumerStep(c) \/ ConsumerFault(c) PROVE PipelineInv'
    BY <1>2, ConsumerMovesKeep DEF ConsumerMoves
  <1>3. CASE UNCHANGED pipelineVars
    <2>1. UNCHANGED allEdgeVars /\ UNCHANGED consumerOwn
      BY <1>3 DEF pipelineVars
    <2>2. EdgeInv'
      BY <2>1, EdgeInvNext DEF PipelineInv
    <2>3. Steps!TypeInv'
      <3>1. UNCHANGED Steps!consumerVars
        BY <2>1 DEF allEdgeVars, registryVars, edgeVars, consumerOwn, Steps!consumerVars,
           Steps!environment, Steps!tables, Steps!group, Steps!caches, Steps!outcomes
      <3> QED
        BY <3>1, Steps!TypeInvNext, ConsumerLemmas DEF PipelineInv
    <2>4. LogWasSubmitted' /\ IdleIsEmpty' /\ SeedsStay' /\ DroppedWereNew'
      BY <2>1 DEF PipelineInv, allEdgeVars, registryVars, edgeVars, consumerOwn,
         LogWasSubmitted, IdleIsEmpty, Submitted, SeedsStay, DroppedWereNew, Created
    <2> QED
      BY <2>2, <2>3, <2>4 DEF PipelineInv
  <1> QED
    BY <1>1, <1>2, <1>3 DEF PipelineNext

LEMMA PipelineInvariant == PipelineSpec => []PipelineInv
  BY PipelineInvInit, PipelineInvNext, PTL DEF PipelineSpec

\* No batch for a site that was there all along is acknowledged to Kafka without
\* being stored: what the consumer gives up is of no such site, and a creation of
\* its slug, not one that met a conflict, came to its COMMIT or failed.
THEOREM GivenUpWereNew == PipelineSpec => []GivenUpSitesWereNew
  <1>1. PipelineInv => GivenUpSitesWereNew
    BY DEF PipelineInv, DroppedWereNew, GivenUpSitesWereNew
  <1> QED
    BY <1>1, PipelineInvariant, PTL

-----------------------------------------------------------------------------
(* The pipeline implements the ledger.                                     *)

reported == UNION {{<<k, <<row.site, row.month>>>> : k \in row.rows} : row \in metricsOutbox}
announced == UNION {outbox[i].inserted : i \in DOMAIN outbox}

LEMMA SameKeys ==
    /\ \A m : Consumer!KeysOf(m) = Steps!KeysOf(m)
    /\ \A k : Consumer!CellOf(k) = Steps!CellOf(k)
  <1>1. \A m : Consumer!KeysOf(m) = Steps!KeysOf(m)
    BY DEF Consumer!KeysOf, Steps!KeysOf, Consumer!KeyOf, Steps!KeyOf, Consumer!Items, Steps!Items
  <1>2. \A k : Consumer!CellOf(k) = Steps!CellOf(k)
    BY DEF Consumer!CellOf, Steps!CellOf, Consumer!KeyMonth, Steps!KeyMonth
  <1> QED
    BY <1>1, <1>2

LEMMA MovesCount ==
    ASSUME PipelineInv, NEW c \in Consumers, ConsumerMoves(c)
    PROVE  [EndToEnd!LedgerNext]_(EndToEnd!ledgerVars)
  <1>m. /\ [Steps!Next]_(Steps!consumerVars)
        /\ UNCHANGED <<log, req>>
    BY MovesAreSteps DEF edgeVars
  <1>t. Steps!TypeInv
    BY DEF PipelineInv
  <1>s. UNCHANGED Submitted
    BY <1>m DEF Submitted
  <1>1. CASE UNCHANGED <<measurements, metricsOutbox, outbox>>
    BY <1>1, <1>s DEF EndToEnd!ledgerVars, Submitted
  <1>2. ASSUME NEW d \in Consumers, Steps!At(d, "persist"), Steps!Commit(d)
        PROVE  EndToEnd!LedgerNext
    <2>1. Steps!Ledger!Count
      BY <1>m, <1>t, <1>2, Steps!CommitCounts, ConsumerLemmas
    <2>2. PICK m \in {log[i] : i \in DOMAIN log} :
              /\ measurements' = measurements \union (Steps!KeysOf(m) \ measurements)
              /\ reported' = reported \union
                    {<<k, Steps!CellOf(k)>> : k \in Steps!KeysOf(m) \ measurements}
              /\ announced' = announced \union (Steps!KeysOf(m) \ measurements)
      BY <2>1 DEF Steps!Ledger!Count, Steps!InsertedBy, reported, announced
    <2>3. m \in Submitted
      BY <2>2 DEF PipelineInv, LogWasSubmitted
    <2>4. /\ measurements' = measurements \union (Consumer!KeysOf(m) \ measurements)
          /\ reported' = reported \union
                {<<k, Consumer!CellOf(k)>> : k \in Consumer!KeysOf(m) \ measurements}
          /\ announced' = announced \union (Consumer!KeysOf(m) \ measurements)
      BY <2>2, SameKeys
    <2>5. EndToEnd!Count
      BY <1>s, <2>3, <2>4 DEF EndToEnd!Count, reported, announced, Submitted
    <2> QED
      BY <2>5 DEF EndToEnd!LedgerNext
  <1> QED
    BY <1>m, <1>t, <1>1, <1>2, Steps!TablesChangeInCommits, ConsumerLemmas DEF Steps!counts

LEMMA EdgeStepOffers ==
    ASSUME PipelineInv, EdgeStep
    PROVE  EndToEnd!LedgerNext
  <1>1. Submitted \subseteq Submitted'
    BY SubmittedGrows DEF PipelineInv, EdgeInv, EdgeStep
  <1>2. UNCHANGED <<measurements, metricsOutbox, outbox>>
    BY DEF EdgeStep, consumerOwn
  <1> QED
    BY <1>1, <1>2 DEF EndToEnd!LedgerNext, EndToEnd!Offer, Submitted

\* From request to rows: whatever is retried, duplicated, appended twice,
\* replayed or handled by two processes, each measurement a client submitted is
\* counted at most once, with its batch, in all three places at one instant.
THEOREM PipelineCountsOnce == PipelineSpec => EndToEndLedger
  <1>1. PipelineInit => EndToEnd!LedgerInit
    BY DEF PipelineInit, Consumer!ConsumerInit, EndToEnd!LedgerInit
  <1>2. ASSUME PipelineInv, [PipelineNext]_pipelineVars
        PROVE  [EndToEnd!LedgerNext]_(EndToEnd!ledgerVars)
    <2>1. CASE EdgeStep
      BY <1>2, <2>1, EdgeStepOffers
    <2>2. ASSUME NEW c \in Consumers, ConsumerStep(c) \/ ConsumerFault(c)
          PROVE  [EndToEnd!LedgerNext]_(EndToEnd!ledgerVars)
      BY <1>2, <2>2, MovesCount DEF ConsumerMoves
    <2>3. CASE UNCHANGED pipelineVars
      BY <2>3 DEF pipelineVars, allEdgeVars, registryVars, edgeVars, consumerOwn,
         EndToEnd!ledgerVars, Submitted
    <2> QED
      BY <1>2, <2>1, <2>2, <2>3 DEF PipelineNext
  <1> QED
    BY <1>1, <1>2, PipelineInvariant, PTL DEF PipelineSpec, EndToEndLedger, EndToEnd!LedgerSpec

=============================================================================
