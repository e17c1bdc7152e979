------------------------ MODULE AlertReceiverProofs ------------------------
(***************************************************************************)
(* The alerting service's memory, for every size of it and any batches.    *)
(***************************************************************************)
EXTENDS AlertReceiver, SequenceTheorems, TLAPS

-----------------------------------------------------------------------------
(* The inductive invariant.                                                *)

KeysDistinct == \A i, j \in DOMAIN keys : keys[i] = keys[j] => i = j

\* RaisedOnce, as the steps keep it: a key in memory is one alert more than keys
\* that were forgotten, and a batch without a key has none to spare.
RaisedExactly ==
    \A b \in BatchIds : raised[b] = forgotten[b] + IF Remembered(b) THEN 1 ELSE 0

\* A memory that suppressed an event of a batch, or still could, announced one.
Announced(lines, b, memory) ==
    \E key \in lines : key.says = "delivered" /\ key.batch = b /\ key.memory = memory
KeysWereAnnounced ==
    /\ \A b \in BatchIds : Remembered(b) => Announced(logged, b, forgotten[b])
    /\ \A line \in logged : Announced(logged, line.batch, line.memory)

ReceiverInv == ReceiverTypeOK /\ KeysDistinct /\ RaisedExactly /\ KeysWereAnnounced

LEMMA ReceiverInvInit == ReceiverInit => ReceiverInv
  BY EmptySeq, ReceiverAssumption
     DEF ReceiverInit, ReceiverInv, ReceiverTypeOK, KeysDistinct, RaisedExactly, Remembered,
         KeysWereAnnounced

-----------------------------------------------------------------------------
(* DedupStore.add.                                                         *)

LEMMA EvictCountBound == EvictCount \in 1..MaxKeys
  BY ReceiverAssumption DEF EvictCount

\* The new key comes last; the oldest keys go, and each of them is forgotten.
LEMMA AddKeyKeeps ==
    ASSUME ReceiverTypeOK, KeysDistinct, NEW b \in BatchIds, ~ Remembered(b), AddKey(b)
    PROVE  /\ keys' \in Seq(BatchIds) /\ Len(keys') <= MaxKeys
           /\ forgotten' \in [BatchIds -> Nat]
           /\ KeysDistinct'
           /\ Remembered(b)' /\ forgotten'[b] = forgotten[b]
           /\ \A c \in BatchIds : c # b =>
                 \/ Remembered(c)' = Remembered(c) /\ forgotten'[c] = forgotten[c]
                 \/ Remembered(c) /\ ~ Remembered(c)' /\ forgotten'[c] = forgotten[c] + 1
  <1> DEFINE n == Len(keys)
             drop == IF n >= MaxKeys THEN EvictCount ELSE 0
             kept == SubSeq(keys, drop + 1, n)
             gone == {keys[i] : i \in 1..drop}
  <1>1. /\ keys' = Append(kept, b)
        /\ forgotten' = [c \in BatchIds |-> forgotten[c] + IF c \in gone THEN 1 ELSE 0]
    BY DEF AddKey
  <1>2. n \in Nat /\ n <= MaxKeys /\ DOMAIN keys = 1..n /\ \A i \in 1..n : keys[i] \in BatchIds
    BY LenProperties DEF ReceiverTypeOK
  <1>3. drop \in 0..n /\ n - drop < MaxKeys
    BY <1>2, EvictCountBound, ReceiverAssumption
  <1> HIDE DEF n, drop
  <1>4. /\ kept \in Seq(BatchIds) /\ Len(kept) = n - drop
        /\ \A i \in 1..(n - drop) : kept[i] = keys[drop + i]
    <2>1. \A i \in (drop + 1)..n : keys[i] \in BatchIds
      BY <1>2, <1>3
    <2>2. drop + 1 \in Int /\ n \in Int
      BY <1>2, <1>3
    <2> HIDE DEF kept
    <2>3. /\ kept \in Seq(BatchIds)
          /\ Len(kept) = IF drop + 1 <= n THEN n - (drop + 1) + 1 ELSE 0
          /\ \A i \in 1..(n - (drop + 1) + 1) : kept[i] = keys[drop + 1 + i - 1]
      BY <2>1, <2>2, SubSeqProperties DEF kept
    <2>4. Len(kept) = n - drop
      BY <1>2, <1>3, <2>3
    <2>5. ASSUME NEW i \in 1..(n - drop) PROVE kept[i] = keys[drop + i]
      <3>1. i \in 1..(n - (drop + 1) + 1) /\ drop + 1 + i - 1 = drop + i
        BY <1>2, <1>3
      <3> QED
        BY <2>3, <3>1
    <2> QED
      BY <2>3, <2>4, <2>5
  <1> HIDE DEF kept
  <1>5. /\ keys' \in Seq(BatchIds) /\ Len(keys') = n - drop + 1
        /\ DOMAIN keys' = 1..(n - drop + 1)
        /\ keys'[n - drop + 1] = b
        /\ \A i \in 1..(n - drop) : keys'[i] = keys[drop + i]
    <2>1. /\ Append(kept, b) \in Seq(BatchIds) /\ Len(Append(kept, b)) = Len(kept) + 1
          /\ Append(kept, b)[Len(kept) + 1] = b
          /\ \A i \in 1..Len(kept) : Append(kept, b)[i] = kept[i]
      BY <1>4, AppendProperties
    <2>2. DOMAIN keys' = 1..Len(keys')
      BY <1>1, <2>1, LenProperties
    <2> QED
      BY <1>1, <1>2, <1>3, <1>4, <2>1, <2>2
  <1>6. b \notin gone /\ \A i \in 1..n : keys[i] # b
    BY <1>2, <1>3 DEF Remembered
  <1>7. KeysDistinct'
    <2> SUFFICES ASSUME NEW i \in 1..(n - drop + 1), NEW j \in 1..(n - drop + 1),
                        keys'[i] = keys'[j]
                 PROVE  i = j
      BY <1>5 DEF KeysDistinct
    <2>1. ASSUME NEW k \in 1..(n - drop + 1), k # n - drop + 1
          PROVE  k \in 1..(n - drop) /\ drop + k \in 1..n /\ keys'[k] = keys[drop + k]
      BY <1>2, <1>3, <1>5, <2>1
    <2>2. CASE i = n - drop + 1 \/ j = n - drop + 1
      BY <1>5, <1>6, <2>1, <2>2
    <2>3. CASE i # n - drop + 1 /\ j # n - drop + 1
      <3>1. keys[drop + i] = keys[drop + j] /\ drop + i \in 1..n /\ drop + j \in 1..n
        BY <2>1, <2>3
      <3>2. drop + i = drop + j
        BY <1>2, <3>1 DEF KeysDistinct
      <3> QED
        BY <1>3, <3>2
    <2> QED
      BY <2>2, <2>3
  <1>8. Remembered(b)' /\ forgotten'[b] = forgotten[b]
    <2>1. n - drop + 1 \in DOMAIN keys'
      BY <1>2, <1>3, <1>5
    <2> QED
      BY <1>1, <1>5, <1>6, <2>1 DEF Remembered, ReceiverTypeOK
  <1>9. ASSUME NEW c \in BatchIds, c # b
        PROVE  \/ Remembered(c)' = Remembered(c) /\ forgotten'[c] = forgotten[c]
               \/ Remembered(c) /\ ~ Remembered(c)' /\ forgotten'[c] = forgotten[c] + 1
    <2>1. Remembered(c)' <=> \E i \in (drop + 1)..n : keys[i] = c
      <3>1. ASSUME NEW i \in DOMAIN keys', keys'[i] = c
            PROVE  \E j \in (drop + 1)..n : keys[j] = c
        <4>1. i \in 1..(n - drop) /\ drop + i \in (drop + 1)..n
          BY <1>2, <1>3, <1>5, <1>9, <3>1
        <4> QED
          BY <1>5, <3>1, <4>1
      <3>2. ASSUME NEW i \in (drop + 1)..n, keys[i] = c
            PROVE  \E j \in DOMAIN keys' : keys'[j] = c
        <4>1. i - drop \in 1..(n - drop) /\ i - drop \in 1..(n - drop + 1)
              /\ drop + (i - drop) = i
          BY <1>2, <1>3
        <4>2. keys'[i - drop] = c
          BY <1>5, <3>2, <4>1
        <4> QED
          BY <1>5, <4>1, <4>2
      <3> QED
        BY <3>1, <3>2 DEF Remembered
    <2>2. Remembered(c) <=> c \in gone \/ \E i \in (drop + 1)..n : keys[i] = c
      BY <1>2, <1>3 DEF Remembered
    <2>3. CASE c \in gone
      <3>1. PICK k \in 1..drop : keys[k] = c
        BY <2>3
      <3>2. ASSUME NEW i \in (drop + 1)..n PROVE keys[i] # c
        BY <1>2, <1>3, <3>1 DEF KeysDistinct
      <3>3. forgotten'[c] = forgotten[c] + 1
        BY <1>1, <2>3
      <3> QED
        BY <2>1, <2>2, <2>3, <3>2, <3>3
    <2>4. CASE c \notin gone
      <3>1. forgotten'[c] = forgotten[c]
        BY <1>1, <2>4 DEF ReceiverTypeOK
      <3> QED
        BY <2>1, <2>2, <2>4, <3>1 DEF Remembered
    <2> QED
      BY <2>3, <2>4
  <1>10. keys' \in Seq(BatchIds) /\ Len(keys') <= MaxKeys
    BY <1>2, <1>3, <1>5, ReceiverAssumption
  <1>11. forgotten' \in [BatchIds -> Nat]
    BY <1>1 DEF ReceiverTypeOK
  <1> QED
    BY <1>7, <1>8, <1>9, <1>10, <1>11

-----------------------------------------------------------------------------
(* The requests and a restart.                                             *)

\* A line that is logged is about its event, and the others stand.
LEMMA LineLogged ==
    ASSUME NEW r \in OutboxIds, NEW e \in Envelope, NEW says \in {"delivered", "duplicate"},
           ReceiverTypeOK, logged' = logged \union {LineOf(r, e, says)}
    PROVE  /\ logged' \subseteq Line
           /\ \E line \in logged' : line.event = r
           /\ says = "delivered" => Announced(logged', e.batch, forgotten[e.batch])
           /\ \A line \in logged' \ logged :
                 line.batch = e.batch /\ line.memory = forgotten[e.batch]
  <1> DEFINE new == LineOf(r, e, says)
  <1>1. e.batch \in BatchIds /\ forgotten[e.batch] \in Nat
    BY DEF Envelope, ReceiverTypeOK
  <1>2. /\ new.event = r /\ new.batch = e.batch /\ new.memory = forgotten[e.batch]
        /\ new.says = says /\ new \in Line
    BY <1>1 DEF LineOf, Line
  <1>3. logged' = logged \union {new}
    OBVIOUS
  <1> HIDE DEF new
  <1> QED
    BY <1>2, <1>3 DEF ReceiverTypeOK, Announced

LEMMA LinesStand ==
    ASSUME NEW lines, NEW more, lines \subseteq more, NEW b, NEW memory,
           Announced(lines, b, memory)
    PROVE  Announced(more, b, memory)
  BY DEF Announced

LEMMA HandleBusinessKeeps ==
    ASSUME ReceiverInv, NEW r \in OutboxIds, NEW e \in Envelope, HandleBusiness(r, e)
    PROVE  /\ ReceiverInv'
           /\ logged \subseteq logged'
           /\ e.inserted > 0 => \E line \in logged' : line.event = r
  <1> DEFINE b == e.batch
  <1>t. /\ b \in BatchIds /\ raised \in [BatchIds -> Nat] /\ forgotten \in [BatchIds -> Nat]
        /\ e.inserted \in Nat /\ ReceiverTypeOK /\ KeysDistinct
    BY DEF Envelope, ReceiverInv, ReceiverTypeOK
  <1>1. CASE e.inserted = 0 /\ UNCHANGED <<keys, raised, forgotten, logged>>
    BY <1>1, <1>t DEF ReceiverInv, ReceiverTypeOK, KeysDistinct, RaisedExactly, Remembered,
       KeysWereAnnounced
  <1>2. CASE Remembered(b) /\ Suppress(r, e)
    <2>1. /\ UNCHANGED <<keys, raised, forgotten>>
          /\ logged' = logged \union {LineOf(r, e, "duplicate")}
      BY <1>2 DEF Suppress
    <2>2. /\ logged' \subseteq Line /\ \E line \in logged' : line.event = r
          /\ \A line \in logged' \ logged : line.batch = b /\ line.memory = forgotten[b]
      BY <1>t, <2>1, LineLogged
    <2>3. Announced(logged, b, forgotten[b])
      BY <1>2, <1>t DEF ReceiverInv, KeysWereAnnounced
    <2> HIDE DEF b
    <2>4. \A c \in BatchIds : Remembered(c)' = Remembered(c)
      BY <2>1 DEF Remembered
    <2>5. \A c \in BatchIds : Remembered(c) => Announced(logged', c, forgotten[c])
      BY <2>1, LinesStand DEF ReceiverInv, KeysWereAnnounced
    <2>6. \A line \in logged' : Announced(logged', line.batch, line.memory)
      BY <2>1, <2>2, <2>3, LinesStand DEF ReceiverInv, KeysWereAnnounced
    <2>7. KeysWereAnnounced'
      BY <2>1, <2>4, <2>5, <2>6 DEF KeysWereAnnounced
    <2>8. ReceiverTypeOK' /\ KeysDistinct' /\ RaisedExactly'
      BY <1>t, <2>1, <2>2, <2>4
         DEF ReceiverInv, ReceiverTypeOK, KeysDistinct, RaisedExactly
    <2> QED
      BY <2>1, <2>2, <2>7, <2>8 DEF ReceiverInv
  <1>3. CASE ~ Remembered(b) /\ AddKey(b) /\ Raise(r, e)
    <2>1. /\ raised' = [raised EXCEPT ![b] = @ + 1]
          /\ logged' = logged \union {LineOf(r, e, "delivered")}
      BY <1>3 DEF Raise
    <2>2. /\ keys' \in Seq(BatchIds) /\ Len(keys') <= MaxKeys
          /\ forgotten' \in [BatchIds -> Nat] /\ KeysDistinct'
          /\ Remembered(b)' /\ forgotten'[b] = forgotten[b]
          /\ \A c \in BatchIds : c # b =>
                \/ Remembered(c)' = Remembered(c) /\ forgotten'[c] = forgotten[c]
                \/ Remembered(c) /\ ~ Remembered(c)' /\ forgotten'[c] = forgotten[c] + 1
      BY <1>3, <1>t, AddKeyKeeps
    <2>l. /\ logged' \subseteq Line /\ \E line \in logged' : line.event = r
          /\ Announced(logged', b, forgotten[b])
          /\ \A line \in logged' \ logged : line.batch = b /\ line.memory = forgotten[b]
      BY <1>t, <2>1, LineLogged
    <2> HIDE DEF b
    <2>3. ASSUME NEW c \in BatchIds
          PROVE  /\ raised'[c] = forgotten'[c] + IF Remembered(c)' THEN 1 ELSE 0
                 /\ Remembered(c)' => Announced(logged', c, forgotten'[c])
      <3>0. /\ raised[c] = forgotten[c] + IF Remembered(c) THEN 1 ELSE 0
            /\ Remembered(c) => Announced(logged, c, forgotten[c])
        BY DEF ReceiverInv, RaisedExactly, KeysWereAnnounced
      <3>1. CASE c = b
        <4>1. raised'[b] = raised[b] + 1 /\ ~ Remembered(b)
          BY <1>3, <1>t, <2>1 DEF b
        <4>2. raised'[c] = forgotten'[c] + IF Remembered(c)' THEN 1 ELSE 0
          BY <1>t, <2>2, <3>0, <3>1, <4>1
        <4>3. Announced(logged', c, forgotten'[c])
          BY <2>2, <2>l, <3>1
        <4> QED
          BY <4>2, <4>3
      <3>2. CASE c # b
        <4>1. raised'[c] = raised[c]
          BY <1>t, <2>1, <3>2
        <4>2. raised'[c] = forgotten'[c] + IF Remembered(c)' THEN 1 ELSE 0
          BY <1>t, <2>2, <3>0, <3>2, <4>1
        <4>3. ASSUME Remembered(c)' PROVE Announced(logged', c, forgotten'[c])
          <5>1. Remembered(c) /\ forgotten'[c] = forgotten[c]
            BY <2>2, <3>2, <4>3
          <5>2. Announced(logged', c, forgotten[c])
            BY <2>1, <3>0, <5>1, LinesStand
          <5> QED
            BY <5>1, <5>2
        <4> QED
          BY <4>2, <4>3
      <3> QED
        BY <3>1, <3>2
    <2>4. raised' \in [BatchIds -> Nat]
      BY <1>t, <2>1
    <2>5. \A line \in logged' : Announced(logged', line.batch, line.memory)
      BY <2>1, <2>l, LinesStand DEF ReceiverInv, KeysWereAnnounced
    <2>6. KeysWereAnnounced' /\ RaisedExactly' /\ ReceiverTypeOK'
      BY <2>2, <2>3, <2>4, <2>5, <2>l DEF KeysWereAnnounced, RaisedExactly, ReceiverTypeOK
    <2> QED
      BY <2>1, <2>2, <2>6, <2>l DEF ReceiverInv
  <1> QED
    BY <1>1, <1>2, <1>3, <1>t DEF HandleBusiness

LEMMA ReceiverRests ==
    ASSUME ReceiverInv, UNCHANGED <<keys, raised, forgotten, logged>>
    PROVE  ReceiverInv'
  BY DEF ReceiverInv, ReceiverTypeOK, KeysDistinct, RaisedExactly, Remembered,
     KeysWereAnnounced

LEMMA RestartKeeps ==
    ASSUME ReceiverInv, RestartReceiver
    PROVE  ReceiverInv'
  <1>1. keys' = <<>> /\ UNCHANGED <<raised, logged>>
        /\ forgotten' = [b \in BatchIds |-> forgotten[b] + IF Remembered(b) THEN 1 ELSE 0]
    BY DEF RestartReceiver
  <1>2. ReceiverTypeOK' /\ KeysDistinct' /\ \A b : ~ Remembered(b)'
    BY <1>1, EmptySeq, ReceiverAssumption
       DEF ReceiverInv, ReceiverTypeOK, KeysDistinct, Remembered
  <1>3. RaisedExactly'
    BY <1>1, <1>2 DEF ReceiverInv, ReceiverTypeOK, RaisedExactly
  <1>4. KeysWereAnnounced'
    BY <1>1, <1>2 DEF ReceiverInv, KeysWereAnnounced
  <1> QED
    BY <1>2, <1>3, <1>4 DEF ReceiverInv

LEMMA ExactlyIsOnce == ReceiverInv => RaisedOnce
  BY DEF ReceiverInv, ReceiverTypeOK, RaisedExactly, RaisedOnce

=============================================================================
