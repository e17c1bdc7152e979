-------------------------- MODULE IngestEdgeProofs --------------------------
(***************************************************************************)
(* Theorems about IngestEdge, for every value of its constants.            *)
(***************************************************************************)
EXTENDS IngestEdge, SiteRegistryProofs, FiniteSetTheorems, SequenceTheorems

-----------------------------------------------------------------------------
(* The inductive invariant.                                                *)

\* A request at work carries a batch.
RequestsTyped == \A r \in Requests : req[r].pc \in Working => req[r].msg \in Message
EdgeTypeInv == EdgeTypeOK /\ RequestsTyped

\* A request past the site check names a known site.
CheckedAreKnown ==
    \A r \in Requests : req[r].pc \in {"dedupe", "produce", "revert"} => Known(req[r].msg.site)
LogIsKnown == \A i \in DOMAIN log : Known(log[i].site)

\* Beside the copies there are, every holder may make one more, and a claim that
\* is free may find another holder: all of them have an excuse, but for one.
Unclaimed(k) == IF k \in dedupe THEN 0 ELSE 1
ExcusesCover ==
    \A k \in Claim :
        /\ IsFiniteSet(Holders(k))
        /\ Copies(k) + Cardinality(Holders(k)) + Unclaimed(k) <= 1 + excuses[k]

EdgeInv == /\ RegistryInv /\ EdgeTypeInv
           /\ ClaimsAreBacked /\ ExcusesCover
           /\ CheckedAreKnown /\ LogIsKnown

LEMMA ClaimTyped ==
    ASSUME NEW m \in Message
    PROVE  ClaimOf(m) \in Claim /\ ClaimOf(m)[1] = m.site
  BY DEF Message, ClaimOf, Claim

LEMMA CopiesTyped ==
    ASSUME log \in Seq(Message), NEW k
    PROVE  Copies(k) \in Nat /\ IsFiniteSet({i \in DOMAIN log : ClaimOf(log[i]) = k})
  <1>1. Len(log) \in Nat /\ DOMAIN log = 1..Len(log)
    BY LenProperties
  <1>2. IsFiniteSet(1..Len(log))
    BY <1>1, FS_Interval
  <1>3. IsFiniteSet({i \in DOMAIN log : ClaimOf(log[i]) = k})
    BY <1>1, <1>2, FS_Subset
  <1> QED
    BY <1>3, FS_CardinalityType DEF Copies

LEMMA CopiesAppend ==
    ASSUME log \in Seq(Message), NEW m \in Message, log' = Append(log, m), NEW k
    PROVE  Copies(k)' = Copies(k) + IF ClaimOf(m) = k THEN 1 ELSE 0
  <1> DEFINE S == {i \in DOMAIN log : ClaimOf(log[i]) = k}
             T == {i \in DOMAIN log' : ClaimOf(log'[i]) = k}
             n == Len(log) + 1
  <1>1. /\ Len(log) \in Nat /\ DOMAIN log = 1..Len(log)
        /\ DOMAIN log' = 1..n /\ log'[n] = m
        /\ \A i \in 1..Len(log) : log'[i] = log[i]
    BY LenProperties, AppendProperties
  <1>2. /\ ClaimOf(m) = k => T = S \union {n}
        /\ ClaimOf(m) # k => T = S
    BY <1>1
  <1>3. n \notin S
    BY <1>1
  <1>4. IsFiniteSet(S) /\ Cardinality(S) \in Nat
    BY CopiesTyped DEF Copies
  <1>5. Cardinality(S \union {n}) = Cardinality(S) + 1
    BY <1>3, <1>4, FS_AddElement
  <1>6. Copies(k) = Cardinality(S) /\ Copies(k)' = Cardinality(T)
    BY DEF Copies
  <1>7. /\ ClaimOf(m) = k => Cardinality(T) = Cardinality(S \union {n})
        /\ ClaimOf(m) # k => Cardinality(T) = Cardinality(S)
    BY <1>2, Zenon
  <1> HIDE DEF S, T
  <1> QED
    BY <1>4, <1>5, <1>6, <1>7

LEMMA InLogStays ==
    ASSUME log \in Seq(Message), NEW m \in Message, log' = Append(log, m)
    PROVE  /\ InLog(ClaimOf(m))'
           /\ \A k : InLog(k) => InLog(k)'
           /\ \A i \in DOMAIN log' : log'[i] = m \/ (i \in DOMAIN log /\ log'[i] = log[i])
  BY LenProperties, AppendProperties DEF InLog

\* A request takes up the produce, goes on to the revert, or is done.
LEMMA HolderJoins ==
    ASSUME EdgeTypeInv, NEW r \in Requests, At(r, "dedupe"), Goto(r, "produce"), NEW k
    PROVE  /\ r \notin Holders(k)
           /\ Holders(k)' = IF ClaimOf(req[r].msg) = k THEN Holders(k) \union {r}
                                                       ELSE Holders(k)
  BY DEF EdgeTypeInv, EdgeTypeOK, At, Goto, Holders

LEMMA HolderLeaves ==
    ASSUME EdgeTypeInv, NEW r \in Requests, req[r].pc \in {"produce", "revert"},
           NEW pc \in Answered, Goto(r, pc), NEW k
    PROVE  /\ r \in Holders(ClaimOf(req[r].msg))
           /\ Holders(k)' = IF ClaimOf(req[r].msg) = k THEN Holders(k) \ {r}
                                                       ELSE Holders(k)
  BY DEF EdgeTypeInv, EdgeTypeOK, Goto, Holders, Answered

-----------------------------------------------------------------------------
(* The registry goes its own way: a step of the endpoint leaves it alone,  *)
(* but for counting a failure or killing a process.                        *)

LEMMA EdgeOnRegistry ==
    ASSUME [EdgeNext]_allEdgeVars
    PROVE  \/ [RegistryNext]_registryVars
           \/ \E kind : Fault(kind) /\ UNCHANGED <<siteRows, sitesValid, lost, create, boot>>
  <1>1. CASE RegistryStep
    BY <1>1 DEF RegistryStep, RegistryNext
  <1>2. ASSUME NEW a \in Apis, RebootEdge(a) PROVE RegistryNext
    BY <1>2 DEF RebootEdge, RegistryNext
  <1>3. ASSUME NEW k \in Claim, ClaimForgotten(k)
        PROVE  \E kind : Fault(kind) /\ UNCHANGED <<siteRows, sitesValid, lost, create, boot>>
    BY <1>3 DEF ClaimForgotten
  <1>4. ASSUME NEW r \in Requests,
               \/ Receive(r) \/ CheckMember(r) \/ CheckRow(r) \/ ClaimFirst(r)
               \/ ClaimSeen(r) \/ Produce(r) \/ Revert(r)
        PROVE  UNCHANGED registryVars
    BY <1>4 DEF Receive, CheckMember, CheckRow, ClaimFirst, ClaimSeen, Produce, Revert
  <1>5. ASSUME NEW r \in Requests,
               \/ CheckMemberThrows(r) \/ CheckRowThrows(r) \/ ClaimThrows(r)
               \/ ClaimResent(r) \/ ProduceThrows(r) \/ RevertThrows(r)
        PROVE  \E kind : Fault(kind) /\ UNCHANGED <<siteRows, sitesValid, lost, create, boot>>
    BY <1>5 DEF CheckMemberThrows, CheckRowThrows, ClaimThrows, ClaimResent, ProduceThrows,
       RevertThrows
  <1>6. CASE UNCHANGED allEdgeVars
    BY <1>6 DEF allEdgeVars
  <1> QED
    BY <1>1, <1>2, <1>3, <1>4, <1>5, <1>6 DEF EdgeNext

LEMMA EdgeKeepsRegistry ==
    ASSUME RegistryInv, [EdgeNext]_allEdgeVars
    PROVE  RegistryInv' /\ \A slug : Known(slug) => Known(slug)'
  <1>1. CASE [RegistryNext]_registryVars
    BY <1>1, RegistryInvNext, KnownStays DEF RegistryInv
  <1>2. ASSUME NEW kind, Fault(kind), UNCHANGED <<siteRows, sitesValid, lost, create, boot>>
        PROVE  RegistryInv' /\ \A slug : Known(slug) => Known(slug)'
    BY <1>2, RegistryInvFault DEF Known
  <1> QED
    BY <1>1, <1>2, EdgeOnRegistry

LEMMA EdgeInvInit == EdgeInit => EdgeInv
  <1> SUFFICES ASSUME EdgeInit PROVE EdgeInv
    OBVIOUS
  <1>1. RegistryInv
    BY RegistryInvInit DEF EdgeInit
  <1>2. EdgeTypeInv
    BY <1>1 DEF RegistryInv, RegistryTypeInv, EdgeInit, EdgeTypeInv, EdgeTypeOK,
       RequestsTyped, RequestPC, Working, Answered
  <1>3. ClaimsAreBacked /\ CheckedAreKnown /\ LogIsKnown
    BY DEF EdgeInit, ClaimsAreBacked, CheckedAreKnown, LogIsKnown
  <1>4. ASSUME NEW k \in Claim
        PROVE  /\ IsFiniteSet(Holders(k))
               /\ Copies(k) + Cardinality(Holders(k)) + Unclaimed(k) <= 1 + excuses[k]
    <2>1. Holders(k) = {} /\ {i \in DOMAIN log : ClaimOf(log[i]) = k} = {}
      BY DEF EdgeInit, Holders
    <2>2. excuses[k] = 0 /\ k \notin dedupe
      BY DEF EdgeInit
    <2> QED
      BY <2>1, <2>2, FS_EmptySet DEF Copies, Unclaimed
  <1> QED
    BY <1>1, <1>2, <1>3, <1>4 DEF EdgeInv, ExcusesCover

-----------------------------------------------------------------------------
(* Types.                                                                  *)

Request == [pc : RequestPC, api : Apis \union {Nobody}, msg : Message \union {NoMessage}]

LEMMA GotoTyped ==
    ASSUME EdgeTypeInv, NEW r \in Requests, NEW pc \in RequestPC,
           pc \in Working => req[r].pc \in Working, Goto(r, pc)
    PROVE  req' \in [Requests -> Request] /\ RequestsTyped'
  <1>1. req \in [Requests -> Request]
    BY DEF EdgeTypeInv, EdgeTypeOK, Request
  <1>2. [req[r] EXCEPT !.pc = pc] \in Request
    BY <1>1 DEF Request
  <1> QED
    BY <1>1, <1>2 DEF Goto, EdgeTypeInv, RequestsTyped

LEMMA EdgeTypeNext ==
    ASSUME RegistryInv, EdgeTypeInv, [EdgeNext]_allEdgeVars
    PROVE  EdgeTypeInv'
  <1>r. RegistryTypeOK'
    BY EdgeKeepsRegistry DEF RegistryInv, RegistryTypeInv
  <1> USE <1>r DEF EdgeTypeInv, EdgeTypeOK, RequestsTyped, RequestPC, Working, Answered
  <1>e. ASSUME NEW k \in Claim, Excuse(k) PROVE excuses' \in [Claim -> Nat]
    BY <1>e DEF Excuse
  <1>1. CASE RegistryStep
    BY <1>1 DEF RegistryStep, edgeVars
  <1>q. req' \in [Requests -> Request] <=> req' \in [Requests ->
            [pc : RequestPC, api : Apis \union {Nobody}, msg : Message \union {NoMessage}]]
    BY DEF Request
  <1>2. ASSUME NEW a \in Apis, RebootEdge(a) PROVE EdgeTypeInv'
    <2>1. ASSUME NEW r \in Requests, At(r, "produce"), log' = Append(log, req[r].msg)
          PROVE  log' \in Seq(Message)
      BY <2>1, AppendProperties DEF At
    <2>2. log' \in Seq(Message)
      BY <1>2, <2>1 DEF RebootEdge
    <2>3. orphaned' \subseteq Claim
      BY <1>2, ClaimTyped DEF RebootEdge
    <2>4. req' \in [Requests -> Request] /\ RequestsTyped'
      BY <1>2 DEF RebootEdge, Request
    <2> QED
      BY <1>2, <1>q, <2>2, <2>3, <2>4 DEF RebootEdge
  <1>3. ASSUME NEW k \in Claim, ClaimForgotten(k) PROVE EdgeTypeInv'
    BY <1>3, <1>e DEF ClaimForgotten
  <1>4. ASSUME NEW r \in Requests, Receive(r) PROVE EdgeTypeInv'
    BY <1>4 DEF Receive, Serving
  <1>g. ASSUME NEW r \in Requests, req[r].pc \in Working,
               \E pc \in RequestPC : Goto(r, pc),
               dedupe' \subseteq Claim, log' \in Seq(Message), orphaned' \subseteq Claim,
               excuses' \in [Claim -> Nat]
        PROVE  EdgeTypeInv'
    BY <1>g, <1>q, GotoTyped
  <1>5. ASSUME NEW r \in Requests,
               \/ CheckMember(r) \/ CheckMemberThrows(r) \/ CheckRow(r) \/ CheckRowThrows(r)
               \/ ClaimSeen(r)
        PROVE  EdgeTypeInv'
    <2>1. UNCHANGED <<dedupe, log, orphaned, excuses>> /\ req[r].pc \in Working
      BY <1>5 DEF CheckMember, CheckMemberThrows, CheckRow, CheckRowThrows, ClaimSeen, At
    <2>2. \E pc \in RequestPC : Goto(r, pc)
      BY <1>5 DEF CheckMember, CheckMemberThrows, CheckRow, CheckRowThrows, ClaimSeen
    <2> QED
      BY <1>g, <2>1, <2>2
  <1>6. ASSUME NEW r \in Requests, ClaimFirst(r) \/ ClaimThrows(r) \/ ClaimResent(r)
        PROVE  EdgeTypeInv'
    <2>1. req[r].pc \in Working /\ \E pc \in RequestPC : Goto(r, pc)
      BY <1>6 DEF ClaimFirst, ClaimThrows, ClaimResent, At
    <2>2. ClaimOf(req[r].msg) \in Claim
      BY <2>1, ClaimTyped
    <2>3. dedupe' \subseteq Claim /\ orphaned' \subseteq Claim
      BY <1>6, <2>2 DEF ClaimFirst, ClaimThrows, ClaimResent
    <2>4. excuses' \in [Claim -> Nat] /\ log' = log
      BY <1>6, <1>e, <2>2 DEF ClaimFirst, ClaimThrows, ClaimResent
    <2> QED
      BY <1>g, <2>1, <2>3, <2>4
  <1>7. ASSUME NEW r \in Requests, Produce(r) \/ ProduceThrows(r) PROVE EdgeTypeInv'
    <2>1. req[r].pc \in Working /\ \E pc \in RequestPC : Goto(r, pc)
      BY <1>7 DEF Produce, ProduceThrows, At
    <2>2. req[r].msg \in Message /\ ClaimOf(req[r].msg) \in Claim
      BY <2>1, ClaimTyped
    <2>a. Append(log, req[r].msg) \in Seq(Message)
      BY <2>2, AppendProperties
    <2>3. log' \in Seq(Message)
      BY <1>7, <2>a DEF Produce, ProduceThrows
    <2>4. excuses' \in [Claim -> Nat] /\ UNCHANGED <<dedupe, orphaned>>
      BY <1>7, <1>e, <2>2 DEF Produce, ProduceThrows
    <2> QED
      BY <1>g, <2>1, <2>3, <2>4
  <1>8. ASSUME NEW r \in Requests, Revert(r) \/ RevertThrows(r) PROVE EdgeTypeInv'
    <2>1. req[r].pc \in Working /\ \E pc \in RequestPC : Goto(r, pc)
      BY <1>8 DEF Revert, RevertThrows, At
    <2>2. ClaimOf(req[r].msg) \in Claim
      BY <2>1, ClaimTyped
    <2>3. dedupe' \subseteq Claim /\ orphaned' \subseteq Claim /\ UNCHANGED <<log, excuses>>
      BY <1>8, <2>2 DEF Revert, RevertThrows
    <2> QED
      BY <1>g, <2>1, <2>3
  <1>9. CASE UNCHANGED allEdgeVars
    BY <1>9 DEF allEdgeVars, edgeVars
  <1> QED
    BY <1>1, <1>2, <1>3, <1>4, <1>5, <1>6, <1>7, <1>8, <1>9 DEF EdgeNext

-----------------------------------------------------------------------------
(* Claims.                                                                 *)

LEMMA BackedNext ==
    ASSUME EdgeTypeInv, ClaimsAreBacked, [EdgeNext]_allEdgeVars
    PROVE  ClaimsAreBacked'
  <1> SUFFICES ASSUME NEW k, k \in dedupe'
               PROVE  InLog(k)' \/ Holders(k)' # {} \/ k \in orphaned'
    BY DEF ClaimsAreBacked
  <1> USE DEF ClaimsAreBacked
  <1>t. req \in [Requests -> Request] /\ log \in Seq(Message)
        /\ \A r \in Requests : req[r].pc \in Working => req[r].msg \in Message
    BY DEF EdgeTypeInv, EdgeTypeOK, Request, RequestsTyped
  <1>u. UNCHANGED log => (InLog(k)' <=> InLog(k))
    BY DEF InLog
  <1>1. CASE RegistryStep \/ UNCHANGED allEdgeVars
    BY <1>1, <1>u DEF RegistryStep, allEdgeVars, edgeVars, Holders
  <1>2. ASSUME NEW a \in Apis, RebootEdge(a)
        PROVE  InLog(k)' \/ Holders(k)' # {} \/ k \in orphaned'
    <2>1. k \in dedupe /\ orphaned \subseteq orphaned'
      BY <1>2 DEF RebootEdge
    <2>2. ASSUME NEW r \in Requests, At(r, "produce"), log' = Append(log, req[r].msg)
          PROVE  InLog(k) => InLog(k)'
      BY <1>t, <2>2, InLogStays DEF At, Working
    <2>3. InLog(k) => InLog(k)'
      BY <1>2, <1>u, <2>2 DEF RebootEdge
    <2>4. ASSUME NEW r \in Holders(k) PROVE k \in orphaned' \/ r \in Holders(k)'
      BY <1>2, <1>t DEF RebootEdge, Holders, Working
    <2> QED
      BY <2>1, <2>3, <2>4
  <1>3. ASSUME NEW c \in Claim, ClaimForgotten(c)
        PROVE  InLog(k)' \/ Holders(k)' # {} \/ k \in orphaned'
    BY <1>3, <1>u DEF ClaimForgotten, Holders
  <1>4. ASSUME NEW r \in Requests, Receive(r)
        PROVE  InLog(k)' \/ Holders(k)' # {} \/ k \in orphaned'
    <2>1. Holders(k)' = Holders(k)
      BY <1>4, <1>t DEF Receive, Holders, At, Request
    <2> QED
      BY <1>4, <1>u, <2>1 DEF Receive
  <1>5. ASSUME NEW r \in Requests,
               \/ CheckMember(r) \/ CheckMemberThrows(r) \/ CheckRow(r) \/ CheckRowThrows(r)
               \/ ClaimSeen(r) \/ ClaimResent(r)
        PROVE  InLog(k)' \/ Holders(k)' # {} \/ k \in orphaned'
    <2>1. Holders(k)' = Holders(k)
      BY ZenonT(40), <1>5, <1>t DEF CheckMember, CheckMemberThrows, CheckRow, CheckRowThrows, ClaimSeen,
         ClaimResent, Holders, At, Goto, Request
    <2>2. UNCHANGED log /\ (k \in dedupe \/ k \in orphaned') /\ orphaned \subseteq orphaned'
      BY <1>5 DEF CheckMember, CheckMemberThrows, CheckRow, CheckRowThrows, ClaimSeen,
         ClaimResent
    <2> QED
      BY <1>u, <2>1, <2>2
  <1>6. ASSUME NEW r \in Requests, ClaimFirst(r) \/ ClaimThrows(r)
        PROVE  InLog(k)' \/ Holders(k)' # {} \/ k \in orphaned'
    <2>1. Holders(k)' = IF ClaimOf(req[r].msg) = k THEN Holders(k) \union {r} ELSE Holders(k)
      BY <1>6, HolderJoins DEF ClaimFirst, ClaimThrows
    <2>2. UNCHANGED <<log, orphaned>> /\ (k \in dedupe \/ k = ClaimOf(req[r].msg))
      BY <1>6 DEF ClaimFirst, ClaimThrows
    <2> QED
      BY <1>u, <2>1, <2>2
  <1>7. ASSUME NEW r \in Requests, Produce(r)
        PROVE  InLog(k)' \/ Holders(k)' # {} \/ k \in orphaned'
    <2>m. req[r].msg \in Message /\ log' = Append(log, req[r].msg)
      BY <1>7, <1>t DEF Produce, At, Working
    <2>1. (ClaimOf(req[r].msg) = k => InLog(k)') /\ (InLog(k) => InLog(k)')
      BY <1>t, <2>m, InLogStays, Zenon
    <2>2. ClaimOf(req[r].msg) = k \/ Holders(k)' = Holders(k)
      BY <1>7, HolderLeaves DEF Produce, At, Answered
    <2>3. k \in dedupe /\ UNCHANGED orphaned
      BY <1>7 DEF Produce
    <2> QED
      BY <2>1, <2>2, <2>3
  <1>8. ASSUME NEW r \in Requests, ProduceThrows(r)
        PROVE  InLog(k)' \/ Holders(k)' # {} \/ k \in orphaned'
    <2>1. Holders(k)' = Holders(k)
      BY <1>8, <1>t DEF ProduceThrows, Holders, At, Goto, Request
    <2>2. InLog(k) => InLog(k)'
      BY <1>8, <1>t, <1>u, InLogStays DEF ProduceThrows, At, Working
    <2> QED
      BY <1>8, <2>1, <2>2 DEF ProduceThrows
  <1>9. ASSUME NEW r \in Requests, Revert(r) \/ RevertThrows(r)
        PROVE  InLog(k)' \/ Holders(k)' # {} \/ k \in orphaned'
    <2>1. ClaimOf(req[r].msg) = k \/ Holders(k)' = Holders(k)
      BY <1>9, HolderLeaves DEF Revert, RevertThrows, At, Answered
    <2>2. /\ UNCHANGED log /\ k \in dedupe
          /\ ClaimOf(req[r].msg) # k => (k \in orphaned => k \in orphaned')
          /\ ClaimOf(req[r].msg) = k => k \in orphaned'
      BY <1>9 DEF Revert, RevertThrows
    <2> QED
      BY <1>u, <2>1, <2>2
  <1> QED
    BY <1>1, <1>2, <1>3, <1>4, <1>5, <1>6, <1>7, <1>8, <1>9 DEF EdgeNext

-----------------------------------------------------------------------------
(* Copies in the topic.                                                    *)

\* The weights of the three places a copy may come from.
Covered(k) ==
    /\ IsFiniteSet(Holders(k))
    /\ Copies(k) + Cardinality(Holders(k)) + Unclaimed(k) <= 1 + excuses[k]

LEMMA CoveredTyped ==
    ASSUME EdgeTypeInv, NEW k \in Claim, Covered(k)
    PROVE  Copies(k) \in Nat /\ Cardinality(Holders(k)) \in Nat /\ excuses[k] \in Nat
  BY CopiesTyped, FS_CardinalityType DEF Covered, EdgeTypeInv, EdgeTypeOK

\* How the number of holders changes when one comes or goes.
LEMMA HoldersCount ==
    ASSUME NEW S, IsFiniteSet(S), NEW r
    PROVE  /\ IsFiniteSet(S \union {r}) /\ IsFiniteSet(S \ {r})
           /\ Cardinality(S) \in Nat
           /\ r \notin S => Cardinality(S \union {r}) = Cardinality(S) + 1
           /\ r \in S => Cardinality(S \ {r}) = Cardinality(S) - 1
  BY FS_AddElement, FS_RemoveElement, FS_CardinalityType

LEMMA CoverNext ==
    ASSUME EdgeTypeInv, EdgeTypeInv', ExcusesCover, [EdgeNext]_allEdgeVars
    PROVE  ExcusesCover'
  <1> SUFFICES ASSUME NEW k \in Claim PROVE Covered(k)'
    BY DEF ExcusesCover, Covered
  <1>k. Covered(k)
    BY DEF ExcusesCover, Covered
  <1>t. /\ req \in [Requests -> Request] /\ log \in Seq(Message)
        /\ \A r \in Requests : req[r].pc \in Working => req[r].msg \in Message
        /\ excuses \in [Claim -> Nat]
    BY DEF EdgeTypeInv, EdgeTypeOK, Request, RequestsTyped
  <1>n. /\ IsFiniteSet(Holders(k))
        /\ Copies(k) \in Nat /\ Cardinality(Holders(k)) \in Nat /\ excuses[k] \in Nat
        /\ Copies(k) + Cardinality(Holders(k)) + Unclaimed(k) <= 1 + excuses[k]
    BY <1>k, CoveredTyped DEF Covered
  <1>c. UNCHANGED log => Copies(k)' = Copies(k)
    BY DEF Copies
  \* Nothing that counts changes, but for a claim or an excuse.
  <1>s. ASSUME UNCHANGED log, Holders(k)' = Holders(k),
               \/ UNCHANGED excuses /\ Unclaimed(k)' <= Unclaimed(k)
               \/ excuses'[k] = excuses[k] + 1
        PROVE  Covered(k)'
    <2>1. Copies(k)' = Copies(k) /\ Cardinality(Holders(k))' = Cardinality(Holders(k))
      BY <1>c, <1>s
    <2>2. IsFiniteSet(Holders(k))'
      BY <1>n, <1>s
    <2>3. Unclaimed(k) \in {0, 1} /\ Unclaimed(k)' \in {0, 1}
      BY DEF Unclaimed
    <2> QED
      BY <1>n, <1>s, <2>1, <2>2, <2>3 DEF Covered
  <1>1. CASE RegistryStep \/ UNCHANGED allEdgeVars
    <2>1. UNCHANGED <<log, excuses>> /\ Holders(k)' = Holders(k) /\ Unclaimed(k)' = Unclaimed(k)
      BY <1>1 DEF RegistryStep, allEdgeVars, edgeVars, Holders, Unclaimed
    <2> QED
      BY <1>s, <2>1 DEF Unclaimed
  <1>2. ASSUME NEW a \in Apis, RebootEdge(a) PROVE Covered(k)'
    <2>1. UNCHANGED <<dedupe, excuses>> /\ Unclaimed(k)' = Unclaimed(k)
      BY <1>2 DEF RebootEdge, Unclaimed
    <2>2. Holders(k)' \subseteq Holders(k)
      BY <1>2, <1>t DEF RebootEdge, Holders
    <2>3. /\ IsFiniteSet(Holders(k))' /\ Cardinality(Holders(k))' \in Nat
          /\ Cardinality(Holders(k))' <= Cardinality(Holders(k))
      BY <1>n, <2>2, FS_Subset, FS_CardinalityType
    <2>4. CASE UNCHANGED log
      BY <1>n, <1>c, <2>1, <2>3, <2>4 DEF Covered, Unclaimed
    <2>5. ASSUME NEW r \in Requests, req[r].api = a, At(r, "produce"),
                 log' = Append(log, req[r].msg)
          PROVE  Covered(k)'
      <3>1. req[r].msg \in Message
        BY <1>t, <2>5 DEF At, Working
      <3>2. Copies(k)' = Copies(k) + IF ClaimOf(req[r].msg) = k THEN 1 ELSE 0
        BY <1>t, <2>5, <3>1, CopiesAppend
      <3>3. CASE ClaimOf(req[r].msg) # k
        BY <1>n, <2>1, <2>3, <3>2, <3>3 DEF Covered, Unclaimed
      <3>4. CASE ClaimOf(req[r].msg) = k
        <4>1. r \in Holders(k) /\ Holders(k)' \subseteq Holders(k) \ {r}
          BY <1>2, <1>t, <2>2, <2>5, <3>4 DEF RebootEdge, Holders, At, Working
        <4>3. /\ IsFiniteSet(Holders(k) \ {r})
              /\ Cardinality(Holders(k) \ {r}) = Cardinality(Holders(k)) - 1
          BY <1>n, <4>1, HoldersCount
        <4>4. Cardinality(Holders(k)') <= Cardinality(Holders(k) \ {r})
          BY <4>1, <4>3, FS_Subset
        <4>2. Cardinality(Holders(k))' <= Cardinality(Holders(k)) - 1
          BY <4>3, <4>4
        <4> QED
          BY <1>n, <2>1, <2>3, <3>2, <3>4, <4>2 DEF Covered, Unclaimed
      <3> QED
        BY <3>3, <3>4
    <2> QED
      BY <1>2, <2>4, <2>5 DEF RebootEdge
  <1>3. ASSUME NEW c \in Claim, ClaimForgotten(c) PROVE Covered(k)'
    <2>1. UNCHANGED log /\ Holders(k)' = Holders(k)
      BY <1>3 DEF ClaimForgotten, Holders
    <2>2. \/ excuses'[k] = excuses[k] + 1
          \/ UNCHANGED excuses[k] /\ Unclaimed(k)' = Unclaimed(k)
      BY <1>3, <1>t DEF ClaimForgotten, Excuse, Unclaimed
    <2> QED
      BY <1>n, <1>c, <1>s, <2>1, <2>2 DEF Covered, Unclaimed
  <1>4. ASSUME NEW r \in Requests, Receive(r) PROVE Covered(k)'
    <2>1. Holders(k)' = Holders(k)
      BY <1>4, <1>t DEF Receive, Holders, At, Request
    <2> QED
      BY <1>4, <1>s, <2>1 DEF Receive, Unclaimed
  <1>5. ASSUME NEW r \in Requests,
               \/ CheckMember(r) \/ CheckMemberThrows(r) \/ CheckRow(r) \/ CheckRowThrows(r)
               \/ ClaimSeen(r) \/ ClaimResent(r)
        PROVE  Covered(k)'
    <2>1. Holders(k)' = Holders(k)
      BY <1>5, <1>t DEF CheckMember, CheckMemberThrows, CheckRow, CheckRowThrows, ClaimSeen,
         ClaimResent, Holders, At, Goto, Request
    <2>2. UNCHANGED <<log, excuses>> /\ dedupe \subseteq dedupe'
      BY <1>5 DEF CheckMember, CheckMemberThrows, CheckRow, CheckRowThrows, ClaimSeen,
         ClaimResent
    <2> QED
      BY <1>s, <2>1, <2>2 DEF Unclaimed
  <1>6. ASSUME NEW r \in Requests, ClaimFirst(r) \/ ClaimThrows(r) PROVE Covered(k)'
    <2>1. /\ r \notin Holders(k)
          /\ Holders(k)' = IF ClaimOf(req[r].msg) = k THEN Holders(k) \union {r} ELSE Holders(k)
      BY <1>6, HolderJoins DEF ClaimFirst, ClaimThrows
    <2>2. UNCHANGED log /\ dedupe \subseteq dedupe'
      BY <1>6 DEF ClaimFirst, ClaimThrows
    <2>3. CASE ClaimOf(req[r].msg) # k
      <3>1. UNCHANGED excuses[k]
        BY <1>6, <1>t, <2>3 DEF ClaimFirst, ClaimThrows, Excuse
      <3>2. IsFiniteSet(Holders(k))' /\ Cardinality(Holders(k))' = Cardinality(Holders(k))
        BY <1>n, <2>1, <2>3
      <3> QED
        BY <1>n, <1>c, <2>2, <3>1, <3>2 DEF Covered, Unclaimed
    <2>4. CASE ClaimOf(req[r].msg) = k
      <3>1. /\ IsFiniteSet(Holders(k))'
            /\ Cardinality(Holders(k))' = Cardinality(Holders(k)) + 1
        BY <1>n, <2>1, <2>4, HoldersCount
      <3>2. \/ UNCHANGED excuses /\ Unclaimed(k) = 1 /\ Unclaimed(k)' = 0
            \/ excuses'[k] = excuses[k] + 1
        BY <1>6, <1>t, <2>4 DEF ClaimFirst, ClaimThrows, Excuse, Unclaimed
      <3> QED
        BY <1>n, <1>c, <2>2, <3>1, <3>2 DEF Covered, Unclaimed
    <2> QED
      BY <2>3, <2>4
  <1>7. ASSUME NEW r \in Requests, Produce(r) PROVE Covered(k)'
    <2>1. req[r].msg \in Message /\ log' = Append(log, req[r].msg)
      BY <1>7, <1>t DEF Produce, At, Working
    <2>2. Copies(k)' = Copies(k) + IF ClaimOf(req[r].msg) = k THEN 1 ELSE 0
      BY <1>t, <2>1, CopiesAppend
    <2>3. /\ r \in Holders(ClaimOf(req[r].msg))
          /\ Holders(k)' = IF ClaimOf(req[r].msg) = k THEN Holders(k) \ {r} ELSE Holders(k)
      BY <1>7, HolderLeaves DEF Produce, At, Answered
    <2>4. UNCHANGED <<excuses, dedupe>>
      BY <1>7 DEF Produce
    <2>5. CASE ClaimOf(req[r].msg) # k
      <3>1. IsFiniteSet(Holders(k))' /\ Cardinality(Holders(k))' = Cardinality(Holders(k))
        BY <1>n, <2>3, <2>5
      <3> QED
        BY <1>n, <2>2, <2>4, <2>5, <3>1 DEF Covered, Unclaimed
    <2>6. CASE ClaimOf(req[r].msg) = k
      <3>1. /\ IsFiniteSet(Holders(k))'
            /\ Cardinality(Holders(k))' = Cardinality(Holders(k)) - 1
        BY <1>n, <2>3, <2>6, HoldersCount
      <3> QED
        BY <1>n, <2>2, <2>4, <2>6, <3>1 DEF Covered, Unclaimed
    <2> QED
      BY <2>5, <2>6
  <1>8. ASSUME NEW r \in Requests, ProduceThrows(r) PROVE Covered(k)'
    <2>1. Holders(k)' = Holders(k) /\ UNCHANGED dedupe
      BY <1>8, <1>t DEF ProduceThrows, Holders, At, Goto, Request
    <2>2. CASE UNCHANGED <<log, excuses>>
      BY <1>s, <2>1, <2>2 DEF Unclaimed
    <2>3. CASE log' = Append(log, req[r].msg) /\ Excuse(ClaimOf(req[r].msg))
      <3>1. req[r].msg \in Message
        BY <1>8, <1>t DEF ProduceThrows, At, Working
      <3>2. Copies(k)' = Copies(k) + IF ClaimOf(req[r].msg) = k THEN 1 ELSE 0
        BY <1>t, <2>3, <3>1, CopiesAppend
      <3>3. excuses'[k] = excuses[k] + IF ClaimOf(req[r].msg) = k THEN 1 ELSE 0
        BY <1>t, <1>n, <2>3 DEF Excuse
      <3>4. IsFiniteSet(Holders(k))' /\ Cardinality(Holders(k))' = Cardinality(Holders(k))
        BY <1>n, <2>1
      <3> QED
        BY <1>n, <2>1, <3>2, <3>3, <3>4 DEF Covered, Unclaimed
    <2> QED
      BY <1>8, <2>2, <2>3 DEF ProduceThrows
  <1>9. ASSUME NEW r \in Requests, Revert(r) \/ RevertThrows(r) PROVE Covered(k)'
    <2>1. /\ r \in Holders(ClaimOf(req[r].msg))
          /\ Holders(k)' = IF ClaimOf(req[r].msg) = k THEN Holders(k) \ {r} ELSE Holders(k)
      BY <1>9, HolderLeaves DEF Revert, RevertThrows, At, Answered
    <2>2. UNCHANGED <<log, excuses>>
      BY <1>9 DEF Revert, RevertThrows
    <2>3. CASE ClaimOf(req[r].msg) # k
      <3>1. Unclaimed(k)' = Unclaimed(k) /\ Holders(k)' = Holders(k)
        BY <1>9, <2>1, <2>3 DEF Revert, RevertThrows, Unclaimed
      <3> QED
        BY <1>s, <2>2, <3>1 DEF Unclaimed
    <2>4. CASE ClaimOf(req[r].msg) = k
      <3>1. /\ IsFiniteSet(Holders(k))'
            /\ Cardinality(Holders(k))' = Cardinality(Holders(k)) - 1
        BY <1>n, <2>1, <2>4, HoldersCount
      <3> QED
        BY <1>n, <1>c, <2>2, <3>1 DEF Covered, Unclaimed
    <2> QED
      BY <2>3, <2>4
  <1> QED
    BY <1>1, <1>2, <1>3, <1>4, <1>5, <1>6, <1>7, <1>8, <1>9 DEF EdgeNext

-----------------------------------------------------------------------------
(* Sites.                                                                  *)

LEMMA KnownNext ==
    ASSUME RegistryInv, EdgeTypeInv, CheckedAreKnown, LogIsKnown, [EdgeNext]_allEdgeVars
    PROVE  CheckedAreKnown' /\ LogIsKnown'
  <1>r. \A slug : Known(slug) => Known(slug)'
    BY EdgeKeepsRegistry
  <1>t. req \in [Requests -> Request] /\ log \in Seq(Message)
        /\ \A r \in Requests : req[r].pc \in Working => req[r].msg \in Message
    BY DEF EdgeTypeInv, EdgeTypeOK, Request, RequestsTyped
  <1>l. UNCHANGED log => LogIsKnown'
    BY <1>r DEF LogIsKnown
  <1>a. ASSUME NEW r \in Requests, req[r].pc = "produce", log' = Append(log, req[r].msg)
        PROVE  LogIsKnown'
    <2>1. req[r].msg \in Message /\ Known(req[r].msg.site)
      BY <1>a, <1>t DEF CheckedAreKnown, Working
    <2>2. \A i \in DOMAIN log' : log'[i] = req[r].msg \/ (i \in DOMAIN log /\ log'[i] = log[i])
      BY <1>a, <1>t, <2>1, InLogStays, Zenon
    <2> QED
      BY <1>r, <2>1, <2>2 DEF LogIsKnown
  \* Only the request that moves can be newly past the check.
  <1>g. ASSUME NEW r \in Requests, NEW pc, Goto(r, pc),
               pc \in {"dedupe", "produce", "revert"} => Known(req[r].msg.site)
        PROVE  CheckedAreKnown'
    BY <1>g, <1>r, <1>t DEF CheckedAreKnown, Goto, Request
  <1>1. CASE RegistryStep \/ UNCHANGED allEdgeVars
    BY <1>1, <1>r, <1>l DEF RegistryStep, allEdgeVars, edgeVars, CheckedAreKnown
  <1>2. ASSUME NEW a \in Apis, RebootEdge(a) PROVE CheckedAreKnown' /\ LogIsKnown'
    <2>1. CheckedAreKnown'
      BY <1>2, <1>r, <1>t DEF RebootEdge, CheckedAreKnown, Request
    <2>2. LogIsKnown'
      BY <1>2, <1>l, <1>a DEF RebootEdge, At
    <2> QED
      BY <2>1, <2>2
  <1>3. ASSUME NEW k \in Claim, ClaimForgotten(k) PROVE CheckedAreKnown' /\ LogIsKnown'
    BY <1>3, <1>r, <1>l DEF ClaimForgotten, CheckedAreKnown
  <1>4. ASSUME NEW r \in Requests, Receive(r) PROVE CheckedAreKnown' /\ LogIsKnown'
    BY <1>4, <1>r, <1>l, <1>t DEF Receive, CheckedAreKnown, Request
  <1>5. ASSUME NEW r \in Requests,
               \/ CheckMember(r) \/ CheckMemberThrows(r) \/ CheckRow(r) \/ CheckRowThrows(r)
        PROVE  CheckedAreKnown' /\ LogIsKnown'
    <2>1. UNCHANGED log
      BY <1>5 DEF CheckMember, CheckMemberThrows, CheckRow, CheckRowThrows
    <2>2. req[r].msg.site \in sitesValid \/ req[r].msg.site \in siteRows =>
              Known(req[r].msg.site)
      BY AdvertisedIsKnown DEF RegistryInv, Known
    <2>3. \E pc : /\ Goto(r, pc)
                  /\ pc \in {"dedupe", "produce", "revert"} => Known(req[r].msg.site)
      BY <1>5, <2>2 DEF CheckMember, CheckMemberThrows, CheckRow, CheckRowThrows
    <2> QED
      BY <1>g, <1>l, <2>1, <2>3
  <1>6. ASSUME NEW r \in Requests,
               \/ ClaimFirst(r) \/ ClaimSeen(r) \/ ClaimThrows(r) \/ ClaimResent(r)
               \/ Revert(r) \/ RevertThrows(r)
        PROVE  CheckedAreKnown' /\ LogIsKnown'
    <2>1. UNCHANGED log /\ req[r].pc \in {"dedupe", "revert"} /\ \E pc : Goto(r, pc)
      BY <1>6 DEF ClaimFirst, ClaimSeen, ClaimThrows, ClaimResent, Revert, RevertThrows, At
    <2> QED
      BY <1>g, <1>l, <2>1 DEF CheckedAreKnown
  <1>7. ASSUME NEW r \in Requests, Produce(r) \/ ProduceThrows(r)
        PROVE  CheckedAreKnown' /\ LogIsKnown'
    <2>1. /\ req[r].pc = "produce" /\ \E pc : Goto(r, pc)
          /\ UNCHANGED log \/ log' = Append(log, req[r].msg)
      BY <1>7 DEF Produce, ProduceThrows, At
    <2> QED
      BY <1>g, <1>l, <1>a, <2>1 DEF CheckedAreKnown
  <1> QED
    BY <1>1, <1>2, <1>3, <1>4, <1>5, <1>6, <1>7 DEF EdgeNext

-----------------------------------------------------------------------------
(* The theorems.                                                           *)

LEMMA EdgeInvNext == EdgeInv /\ [EdgeNext]_allEdgeVars => EdgeInv'
  <1> SUFFICES ASSUME EdgeInv, [EdgeNext]_allEdgeVars PROVE EdgeInv'
    OBVIOUS
  <1>1. RegistryInv' /\ EdgeTypeInv'
    BY EdgeKeepsRegistry, EdgeTypeNext DEF EdgeInv
  <1>2. ClaimsAreBacked' /\ ExcusesCover'
    BY <1>1, BackedNext, CoverNext DEF EdgeInv
  <1>3. CheckedAreKnown' /\ LogIsKnown'
    BY KnownNext DEF EdgeInv
  <1> QED
    BY <1>1, <1>2, <1>3 DEF EdgeInv

LEMMA EdgeInvariant == EdgeSpec => []EdgeInv
  BY EdgeInvInit, EdgeInvNext, PTL DEF EdgeSpec

\* Requests, claims and the topic keep their types; whatever is produced is a
\* batch that passed the schema.
THEOREM EdgeTypeCorrect == EdgeSpec => []EdgeTypeOK
  <1>1. EdgeInv => EdgeTypeOK
    BY DEF EdgeInv, EdgeTypeInv
  <1> QED
    BY <1>1, EdgeInvariant, PTL

\* A claim that answers retries 202 has its batch in the topic or a request at
\* work on it, but for the claims a crash or a failed HDEL orphaned.
THEOREM ClaimsBacked == EdgeSpec => []ClaimsAreBacked
  <1>1. EdgeInv => ClaimsAreBacked
    BY DEF EdgeInv
  <1> QED
    BY <1>1, EdgeInvariant, PTL

\* However requests for one batch race, retry and die, the topic holds one copy
\* of it and at most one more for every fault that defeated the dedupe.
THEOREM CopiesExcused == EdgeSpec => []CopiesAreExcused
  <1>1. ASSUME EdgeInv, NEW k \in Claim PROVE Copies(k) <= 1 + excuses[k]
    <2>1. Covered(k)
      BY <1>1 DEF EdgeInv, ExcusesCover, Covered
    <2>2. Copies(k) \in Nat /\ Cardinality(Holders(k)) \in Nat /\ excuses[k] \in Nat
      BY <1>1, <2>1, CoveredTyped DEF EdgeInv
    <2> QED
      BY <2>1, <2>2 DEF Covered, Unclaimed
  <1>2. EdgeInv => CopiesAreExcused
    BY <1>1 DEF CopiesAreExcused
  <1> QED
    BY <1>2, EdgeInvariant, PTL

\* A batch in the topic names a site with a row, or one whose creation is still
\* open or failed.
THEOREM LoggedKnown == EdgeSpec => []LoggedSitesAreKnown
  <1>1. EdgeInv => LoggedSitesAreKnown
    BY DEF EdgeInv, LogIsKnown, LoggedSitesAreKnown, Known
  <1> QED
    BY <1>1, EdgeInvariant, PTL

=============================================================================
