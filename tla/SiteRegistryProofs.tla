------------------------- MODULE SiteRegistryProofs -------------------------
(***************************************************************************)
(* Theorems about SiteRegistry, for every value of its constants.          *)
(***************************************************************************)
EXTENDS SiteRegistry, TLAPS

-----------------------------------------------------------------------------
(* The inductive invariant, one part per question.                         *)

\* An open creation holds a slug a client sent.
OpenSlugsTyped == \A c \in Creators : Open(c) => create[c].slug \in Sites
RegistryTypeInv == RegistryTypeOK /\ OpenSlugsTyped

\* After its SADD a creation's slug is advertised, unless Redis lost it since.
\* Rows never go away, so what a warm-up read is still there when it is added.
CommitsAreAdvertised ==
    \A c \in Creators : create[c].pc = "commit" => create[c].slug \in sitesValid \union lost
WarmUpsReadRows == \A a \in Apis : boot[a].slugs \subseteq siteRows
AdvertisedInv ==
    RowsAreAdvertised /\ CommitsAreAdvertised /\ WarmUpsReadRows /\ PhantomsComeFromCreations

\* An open creation's slug has no row and no other creation, and a successful
\* one's has its row.
CreatedHasRow == \A c \in Creators : create[c].pc = "created" => create[c].slug \in siteRows
UniqueInv == OneCreationPerSlug /\ OpenCreationHasNoRow /\ CreatedHasRow

RegistryInv == RegistryTypeInv /\ AdvertisedInv /\ UniqueInv

LEMMA RegistryInvInit == RegistryInit => RegistryInv
  BY RegistryAssumption, FailuresAssumption
     DEF RegistryInit, RegistryInv, RegistryTypeInv, RegistryTypeOK, OpenSlugsTyped, Open,
         CreatePC, BootPC, AdvertisedInv, RowsAreAdvertised, CommitsAreAdvertised,
         WarmUpsReadRows, PhantomsComeFromCreations, UniqueInv, OneCreationPerSlug,
         OpenCreationHasNoRow, CreatedHasRow

-----------------------------------------------------------------------------
(* Types.                                                                  *)

LEMMA FaultTyped ==
    ASSUME NEW kind, faults \in 0..MaxFaults, Fault(kind)
    PROVE  faults' \in 0..MaxFaults
  BY FailuresAssumption DEF Fault

LEMMA RegistryTypeNext == RegistryTypeInv /\ [RegistryNext]_registryVars => RegistryTypeInv'
  <1> SUFFICES ASSUME RegistryTypeInv, [RegistryNext]_registryVars PROVE RegistryTypeInv'
    OBVIOUS
  <1> USE DEF RegistryTypeInv, RegistryTypeOK, OpenSlugsTyped, Open, CreatePC, BootPC
  <1>1. ASSUME NEW c \in Creators, CreateInsert(c) PROVE RegistryTypeInv'
    BY <1>1 DEF CreateInsert, Serving
  <1>2. ASSUME NEW c \in Creators, CreateSAdd(c) PROVE RegistryTypeInv'
    BY <1>2 DEF CreateSAdd, SAdd
  <1>3. ASSUME NEW c \in Creators, CreateSAddFails(c) PROVE RegistryTypeInv'
    BY <1>3, FaultTyped DEF CreateSAddFails, SAdd
  <1>4. ASSUME NEW c \in Creators, CreateCommit(c) PROVE RegistryTypeInv'
    BY <1>4 DEF CreateCommit
  <1>5. ASSUME NEW c \in Creators, CreateCommitFails(c) PROVE RegistryTypeInv'
    BY <1>5, FaultTyped DEF CreateCommitFails
  <1>6. ASSUME NEW a \in Apis, WarmSelect(a) PROVE RegistryTypeInv'
    BY <1>6 DEF WarmSelect
  <1>7. ASSUME NEW a \in Apis, WarmSAdd(a) PROVE RegistryTypeInv'
    BY <1>7 DEF WarmSAdd, SAdd
  <1>8. ASSUME NEW a \in Apis, WarmFails(a) PROVE RegistryTypeInv'
    BY <1>8, FaultTyped DEF WarmFails
  <1>9. ASSUME NEW a \in Apis, Reboot(a) PROVE RegistryTypeInv'
    <2>1. siteRows' \subseteq Sites
      BY <1>9 DEF Reboot
    <2>2. create' \in [Creators -> [pc : CreatePC, slug : Sites \union {Nobody},
                                    api : Apis \union {Nobody}]]
      BY <1>9 DEF Reboot
    <2>3. OpenSlugsTyped'
      BY <1>9 DEF Reboot
    <2> QED
      BY <1>9, <2>1, <2>2, <2>3, FaultTyped DEF Reboot
  <1>10. ASSUME RedisLosesSites PROVE RegistryTypeInv'
    BY <1>10, FaultTyped DEF RedisLosesSites
  <1>11. CASE UNCHANGED registryVars
    BY <1>11 DEF registryVars
  <1> QED
    BY <1>1, <1>2, <1>3, <1>4, <1>5, <1>6, <1>7, <1>8, <1>9, <1>10, <1>11 DEF RegistryNext

\* No slug or process outside its type appears in the table, in Redis or in a
\* request, whatever fails or restarts.
THEOREM RegistryTypeCorrect == RegistrySpec => []RegistryTypeOK
  <1>1. RegistryInit => RegistryTypeInv
    BY RegistryInvInit DEF RegistryInv
  <1>2. RegistryTypeInv => RegistryTypeOK
    BY DEF RegistryTypeInv
  <1> QED
    BY <1>1, <1>2, RegistryTypeNext, PTL DEF RegistrySpec

-----------------------------------------------------------------------------
(* The table and the set.                                                  *)

LEMMA AdvertisedNext ==
    RegistryTypeInv /\ AdvertisedInv /\ [RegistryNext]_registryVars => AdvertisedInv'
  <1> SUFFICES ASSUME RegistryTypeInv, AdvertisedInv, [RegistryNext]_registryVars
               PROVE  AdvertisedInv'
    OBVIOUS
  <1> USE DEF RegistryTypeInv, RegistryTypeOK, AdvertisedInv, RowsAreAdvertised,
              CommitsAreAdvertised, WarmUpsReadRows, PhantomsComeFromCreations
  <1>1. ASSUME NEW c \in Creators, CreateInsert(c) PROVE AdvertisedInv'
    BY <1>1 DEF CreateInsert
  <1>2. ASSUME NEW c \in Creators, CreateSAdd(c) PROVE AdvertisedInv'
    BY <1>2 DEF CreateSAdd, SAdd
  <1>3. ASSUME NEW c \in Creators, CreateSAddFails(c) PROVE AdvertisedInv'
    BY <1>3 DEF CreateSAddFails, SAdd
  <1>4. ASSUME NEW c \in Creators, CreateCommit(c) PROVE AdvertisedInv'
    BY <1>4 DEF CreateCommit
  <1>5. ASSUME NEW c \in Creators, CreateCommitFails(c) PROVE AdvertisedInv'
    BY <1>5 DEF CreateCommitFails
  <1>6. ASSUME NEW a \in Apis, WarmSelect(a) PROVE AdvertisedInv'
    BY <1>6 DEF WarmSelect
  <1>7. ASSUME NEW a \in Apis, WarmSAdd(a) PROVE AdvertisedInv'
    BY <1>7 DEF WarmSAdd, SAdd
  <1>8. ASSUME NEW a \in Apis, WarmFails(a) PROVE AdvertisedInv'
    BY <1>8 DEF WarmFails
  <1>9. ASSUME NEW a \in Apis, Reboot(a) PROVE AdvertisedInv'
    BY <1>9 DEF Reboot, Open
  <1>10. ASSUME RedisLosesSites PROVE AdvertisedInv'
    BY <1>10 DEF RedisLosesSites
  <1>11. CASE UNCHANGED registryVars
    BY <1>11 DEF registryVars
  <1> QED
    BY <1>1, <1>2, <1>3, <1>4, <1>5, <1>6, <1>7, <1>8, <1>9, <1>10, <1>11 DEF RegistryNext

-----------------------------------------------------------------------------
(* Creations that race.                                                    *)

LEMMA UniqueNext ==
    RegistryTypeInv /\ UniqueInv /\ [RegistryNext]_registryVars => UniqueInv'
  <1> SUFFICES ASSUME RegistryTypeInv, UniqueInv, [RegistryNext]_registryVars
               PROVE  UniqueInv'
    OBVIOUS
  <1> USE DEF RegistryTypeInv, RegistryTypeOK, UniqueInv, OneCreationPerSlug,
              OpenCreationHasNoRow, CreatedHasRow, Open
  <1>1. ASSUME NEW c \in Creators, CreateInsert(c) PROVE UniqueInv'
    BY <1>1 DEF CreateInsert, Inserting
  <1>2. ASSUME NEW c \in Creators, CreateSAdd(c) PROVE UniqueInv'
    BY <1>2 DEF CreateSAdd
  <1>3. ASSUME NEW c \in Creators, CreateSAddFails(c) PROVE UniqueInv'
    BY <1>3 DEF CreateSAddFails
  <1>4. ASSUME NEW c \in Creators, CreateCommit(c) PROVE UniqueInv'
    BY <1>4 DEF CreateCommit
  <1>5. ASSUME NEW c \in Creators, CreateCommitFails(c) PROVE UniqueInv'
    BY <1>5 DEF CreateCommitFails
  <1>6. ASSUME NEW a \in Apis, WarmSelect(a) \/ WarmSAdd(a) \/ WarmFails(a) PROVE UniqueInv'
    BY <1>6 DEF WarmSelect, WarmSAdd, WarmFails
  <1>9. ASSUME NEW a \in Apis, Reboot(a) PROVE UniqueInv'
    BY <1>9 DEF Reboot
  <1>10. ASSUME RedisLosesSites PROVE UniqueInv'
    BY <1>10 DEF RedisLosesSites
  <1>11. CASE UNCHANGED registryVars
    BY <1>11 DEF registryVars
  <1> QED
    BY <1>1, <1>2, <1>3, <1>4, <1>5, <1>6, <1>9, <1>10, <1>11 DEF RegistryNext

LEMMA RegistryInvNext == RegistryInv /\ [RegistryNext]_registryVars => RegistryInv'
  BY RegistryTypeNext, AdvertisedNext, UniqueNext DEF RegistryInv

\* A step that only counts a failure of another component.
LEMMA RegistryInvFault ==
    ASSUME RegistryInv, NEW kind, Fault(kind),
           UNCHANGED <<siteRows, sitesValid, lost, create, boot>>
    PROVE  RegistryInv'
  BY FaultTyped
     DEF RegistryInv, RegistryTypeInv, RegistryTypeOK, OpenSlugsTyped, Open, AdvertisedInv,
         RowsAreAdvertised, CommitsAreAdvertised, WarmUpsReadRows,
         PhantomsComeFromCreations, UniqueInv, OneCreationPerSlug, OpenCreationHasNoRow,
         CreatedHasRow

LEMMA RegistryInvariant == RegistrySpec => []RegistryInv
  BY RegistryInvInit, RegistryInvNext, PTL DEF RegistrySpec

\* A slug that has a row, or a creation that may yet give it one or has failed.
\* Such a slug stays so: a row remains, an open creation ends one of these ways.
Known(slug) ==
    slug \in siteRows \/ \E c \in Creators :
        create[c].slug = slug /\ create[c].pc \in {"commit", "failed"}

LEMMA KnownStays ==
    ASSUME RegistryTypeInv, [RegistryNext]_registryVars, NEW slug, Known(slug)
    PROVE  Known(slug)'
  <1> USE DEF RegistryTypeInv, RegistryTypeOK, Known
  <1>1. ASSUME NEW c \in Creators, CreateInsert(c) \/ CreateSAdd(c) \/ CreateSAddFails(c)
        PROVE  Known(slug)'
    BY <1>1 DEF CreateInsert, CreateSAdd, CreateSAddFails
  <1>2. ASSUME NEW c \in Creators, CreateCommit(c) \/ CreateCommitFails(c)
        PROVE  Known(slug)'
    BY <1>2 DEF CreateCommit, CreateCommitFails
  <1>3. ASSUME NEW a \in Apis, WarmSelect(a) \/ WarmSAdd(a) \/ WarmFails(a)
        PROVE  Known(slug)'
    BY <1>3 DEF WarmSelect, WarmSAdd, WarmFails
  <1>4. ASSUME NEW a \in Apis, Reboot(a) PROVE Known(slug)'
    BY <1>4 DEF Reboot, Open
  <1>5. CASE RedisLosesSites
    BY <1>5 DEF RedisLosesSites
  <1>6. CASE UNCHANGED registryVars
    BY <1>6 DEF registryVars
  <1> QED
    BY <1>1, <1>2, <1>3, <1>4, <1>5, <1>6 DEF RegistryNext

LEMMA AdvertisedIsKnown ==
    ASSUME AdvertisedInv, NEW slug \in sitesValid
    PROVE  Known(slug)
  BY DEF AdvertisedInv, PhantomsComeFromCreations, Known

\* A committed site is in `sites:valid` unless Redis itself dropped it, through
\* any interleaving of creations, warm-ups, failures and restarts.
THEOREM RowsAdvertised == RegistrySpec => []RowsAreAdvertised
  <1>1. RegistryInv => RowsAreAdvertised
    BY DEF RegistryInv, AdvertisedInv
  <1> QED
    BY <1>1, RegistryInvariant, PTL

\* An advertised slug without a row is the doing of a creation that is open or
\* failed, never of a warm-up.
THEOREM PhantomsExplained == RegistrySpec => []PhantomsComeFromCreations
  <1>1. RegistryInv => PhantomsComeFromCreations
    BY DEF RegistryInv, AdvertisedInv
  <1> QED
    BY <1>1, RegistryInvariant, PTL

\* Of the creations of one slug, however they race, at most one is open or
\* successful.
THEOREM OneCreation == RegistrySpec => []OneCreationPerSlug
  <1>1. RegistryInv => OneCreationPerSlug
    BY DEF RegistryInv, UniqueInv
  <1> QED
    BY <1>1, RegistryInvariant, PTL

\* While a creation of a slug is open, the slug has no row.
THEOREM OpenHasNoRow == RegistrySpec => []OpenCreationHasNoRow
  <1>1. RegistryInv => OpenCreationHasNoRow
    BY DEF RegistryInv, UniqueInv
  <1> QED
    BY <1>1, RegistryInvariant, PTL

=============================================================================
