---------------------------- MODULE ConsoleProofs ----------------------------
(***************************************************************************)
(* Theorems about the pages of the web application.  Each page has an      *)
(* inductive invariant of its own; a step of one page leaves the others as *)
(* they are.                                                               *)
(***************************************************************************)
EXTENDS Console, FiniteSetTheorems, SequenceTheorems, TLAPS

-----------------------------------------------------------------------------
(* The ingest form: the inductive invariant.                               *)

\* A batch_id is left for every answer still to come.
BatchIdsLeft == form.batch + Cardinality(Awaited) + MaxCalls <= MaxBatchIds + Len(calls)

\* What the form may send again, what the API accepted and what the form called
\* queued was sent; what the form called queued was answered so by then.
LoadsWereSent ==
    /\ form.pending # NoPayload => \E i \in DOMAIN calls : calls[i].load = form.pending
    /\ \A p \in accepted : \E i \in DOMAIN calls : calls[i].load = p
    /\ \A p \in told :
          \E i \in DOMAIN calls : calls[i].load = p /\ calls[i].server = "done"

\* A claim has a POST that made it, or was left by a script sent twice; a POST is
\* answered 202 because it produced or because such a claim of its batch_id was there.
ClaimsHeld ==
    /\ \A c \in claims \ resent : \E i \in holders : ClaimOf(calls[i].load) = c
    /\ \A i \in DOMAIN calls : calls[i].server = "done" =>
          \/ \E j \in holders : calls[j].load.batch = calls[i].load.batch
          \/ \E c \in resent : c.batch = calls[i].load.batch
    /\ \A i \in holders : calls[i].server = "done" => calls[i].load \in accepted

\* One batch_id, one entry, unless it was edited after it was sent.
OneDraftPerBatch ==
    "edit" \in lapses \/ \A i, j \in DOMAIN calls :
        calls[i].load.batch = calls[j].load.batch => calls[i].load = calls[j].load

\* One answer at a time, and it is about the pending payload, unless the form was
\* reset while it awaited an answer.
OneAwaited ==
    \/ "reset" \in lapses
    \/ /\ \A i \in Awaited : form.status = "submitting" /\ calls[i].load = form.pending
       /\ \A i, j \in Awaited : i = j
       /\ form.pending # NoPayload => form.pending.batch = form.batch
       /\ form.status \in {"submitting", "retryable_error"} => form.pending # NoPayload

\* An entry that was called queued is no longer in the form.
QueuedIsGone == \A p \in told : p.draft # form.draft

\* A user who gives up nothing has sent what the form called queued or refused and
\* what it may send again, and no entry twice under two batch_ids but refused ones.
NothingGivenUp ==
    lapses = {} =>
        /\ \A i \in DOMAIN calls : calls[i].load \in told \union refused \union {form.pending}
        /\ \A p, q \in told \union ({form.pending} \ {NoPayload}) : p.draft = q.draft => p = q

FormInv == /\ FormTypeOK /\ BatchIdsLeft /\ LoadsWereSent /\ ClaimsHeld
           /\ OneDraftPerBatch /\ OneAwaited /\ QueuedIsGone /\ NothingGivenUp

-----------------------------------------------------------------------------
(* The POSTs of the form.                                                  *)

Call == [load : Payload, server : {"sent"} \union Outcomes, open : BOOLEAN]

LEMMA AwaitedCounted ==
    ASSUME calls \in Seq(Call)
    PROVE  /\ IsFiniteSet(Awaited) /\ Cardinality(Awaited) \in Nat
           /\ Cardinality(Awaited) <= Len(calls)
           /\ DOMAIN calls = 1..Len(calls) /\ Len(calls) \in Nat
  <1>1. /\ Len(calls) \in Nat /\ DOMAIN calls = 1..Len(calls)
        /\ Awaited \subseteq 1..Len(calls)
    BY DEF Awaited
  <1>2. IsFiniteSet(1..Len(calls)) /\ Cardinality(1..Len(calls)) = Len(calls)
    <2>1. 1 \in Int /\ Len(calls) \in Int
      BY <1>1
    <2>2. /\ IsFiniteSet(1..Len(calls))
          /\ Cardinality(1..Len(calls)) = IF 1 > Len(calls) THEN 0 ELSE Len(calls) - 1 + 1
      BY <2>1, FS_Interval
    <2> QED
      BY <1>1, <2>2
  <1>3. IsFiniteSet(Awaited) /\ Cardinality(Awaited) <= Cardinality(1..Len(calls))
    BY <1>1, <1>2, FS_Subset
  <1>4. Cardinality(Awaited) \in Nat
    BY <1>3, FS_CardinalityType
  <1> QED
    BY <1>1, <1>2, <1>3, <1>4

LEMMA SendCall ==
    ASSUME calls \in Seq(Call), Len(calls) <= MaxCalls, NEW p \in Payload, Send(p)
    PROVE  /\ calls' \in Seq(Call) /\ Len(calls') = Len(calls) + 1 /\ Len(calls') <= MaxCalls
           /\ DOMAIN calls' = DOMAIN calls \union {Len(calls) + 1}
           /\ \A i \in DOMAIN calls : calls'[i] = calls[i]
           /\ calls'[Len(calls) + 1] = [load |-> p, server |-> "sent", open |-> TRUE]
           /\ Awaited' = Awaited \union {Len(calls) + 1}
           /\ Cardinality(Awaited') = Cardinality(Awaited) + 1
  <1> DEFINE new == [load |-> p, server |-> "sent", open |-> TRUE]
  <1>1. new \in Call /\ new.open
    BY DEF Call
  <1>2. calls' = Append(calls, new) /\ Len(calls) < MaxCalls /\ MaxCalls \in Nat
    BY FormAssumption DEF Send
  <1> HIDE DEF new
  <1>3. /\ calls' \in Seq(Call) /\ Len(calls') = Len(calls) + 1
        /\ DOMAIN calls = 1..Len(calls) /\ DOMAIN calls' = 1..(Len(calls) + 1)
        /\ Len(calls) \in Nat
        /\ \A i \in DOMAIN calls : calls'[i] = calls[i]
        /\ calls'[Len(calls) + 1] = new
    BY <1>1, <1>2
  <1>4. Awaited' = Awaited \union {Len(calls) + 1} /\ Len(calls) + 1 \notin Awaited
    BY <1>1, <1>3 DEF Awaited
  <1>5. Cardinality(Awaited \union {Len(calls) + 1}) = Cardinality(Awaited) + 1
    BY <1>4, AwaitedCounted, FS_AddElement
  <1>6. DOMAIN calls' = DOMAIN calls \union {Len(calls) + 1}
    BY <1>3
  <1> QED
    BY <1>2, <1>3, <1>4, <1>5, <1>6 DEF new

\* A call is closed, or the API has handled it: what was sent stays.
LEMMA CallChanged ==
    ASSUME calls \in Seq(Call), NEW i \in DOMAIN calls, NEW new \in Call,
           calls' = [calls EXCEPT ![i] = new]
    PROVE  /\ calls' \in Seq(Call) /\ Len(calls') = Len(calls)
           /\ DOMAIN calls' = DOMAIN calls
           /\ calls'[i] = new /\ \A j \in DOMAIN calls : j # i => calls'[j] = calls[j]
  OBVIOUS

LEMMA CloseCall ==
    ASSUME calls \in Seq(Call), NEW i \in Awaited, Closed(i)
    PROVE  /\ calls' \in Seq(Call) /\ Len(calls') = Len(calls)
           /\ DOMAIN calls' = DOMAIN calls
           /\ \A j \in DOMAIN calls :
                 calls'[j].load = calls[j].load /\ calls'[j].server = calls[j].server
           /\ Awaited' = Awaited \ {i}
           /\ Cardinality(Awaited') = Cardinality(Awaited) - 1
  <1> DEFINE new == [calls[i] EXCEPT !.open = FALSE]
  <1>1. i \in DOMAIN calls /\ calls' = [calls EXCEPT ![i] = new]
    BY DEF Awaited, Closed
  <1>2. /\ new \in Call /\ new.load = calls[i].load /\ new.server = calls[i].server
        /\ ~ new.open
    <2>1. calls[i] \in Call
      BY <1>1
    <2> QED
      BY <2>1 DEF Call
  <1> HIDE DEF new
  <1>3. /\ calls' \in Seq(Call) /\ Len(calls') = Len(calls)
        /\ DOMAIN calls' = DOMAIN calls
        /\ calls'[i] = new /\ \A j \in DOMAIN calls : j # i => calls'[j] = calls[j]
    BY <1>1, <1>2, CallChanged
  <1>4. Awaited' = Awaited \ {i}
    BY <1>2, <1>3 DEF Awaited
  <1>5. Cardinality(Awaited \ {i}) = Cardinality(Awaited) - 1
    BY AwaitedCounted, FS_RemoveElement
  <1> QED
    BY <1>2, <1>3, <1>4, <1>5

LEMMA HandleCall ==
    ASSUME calls \in Seq(Call), NEW i \in DOMAIN calls, NEW outcome \in Outcomes,
           calls' = [calls EXCEPT ![i].server = outcome]
    PROVE  /\ calls' \in Seq(Call) /\ Len(calls') = Len(calls)
           /\ DOMAIN calls' = DOMAIN calls
           /\ \A j \in DOMAIN calls :
                 /\ calls'[j].load = calls[j].load
                 /\ calls'[j].server = IF j = i THEN outcome ELSE calls[j].server
           /\ Awaited' = Awaited
  <1> DEFINE new == [calls[i] EXCEPT !.server = outcome]
  <1>1. calls' = [calls EXCEPT ![i] = new]
    OBVIOUS
  <1>2. /\ new \in Call /\ new.load = calls[i].load /\ new.server = outcome
        /\ new.open = calls[i].open
    <2>1. calls[i] \in Call
      OBVIOUS
    <2> QED
      BY <2>1 DEF Call
  <1> HIDE DEF new
  <1>3. /\ calls' \in Seq(Call) /\ Len(calls') = Len(calls)
        /\ DOMAIN calls' = DOMAIN calls
        /\ calls'[i] = new /\ \A j \in DOMAIN calls : j # i => calls'[j] = calls[j]
    BY <1>1, <1>2, CallChanged
  <1>4. Awaited' = Awaited
    BY <1>2, <1>3 DEF Awaited
  <1> QED
    BY <1>2, <1>3, <1>4

-----------------------------------------------------------------------------
(* The steps of the form.                                                  *)

FormState == [batch : BatchNo, draft : Drafts \union {Blank}, status : Statuses,
              pending : Payload \union {NoPayload}, sites : {"loading", "none", "some"}]

LEMMA FormTyped ==
    ASSUME FormTypeOK
    PROVE  /\ form \in FormState
           /\ form.batch \in BatchNo /\ form.batch \in Nat /\ form.draft \in Drafts \union {Blank}
           /\ form.pending \in Payload \union {NoPayload}
           /\ calls \in Seq(Call) /\ DOMAIN calls = 1..Len(calls) /\ Len(calls) \in Nat
           /\ \A i \in DOMAIN calls : calls[i] \in Call /\ calls[i].load \in Payload
           /\ MaxCalls \in Nat /\ MaxBatchIds \in Nat /\ NoPayload \notin Payload
           /\ Blank \notin Drafts
  <1>1. form \in FormState /\ calls \in Seq(Call)
    BY DEF FormTypeOK, FormState, Call
  <1>2. NoPayload \notin Payload /\ \A b \in BatchNo : b \in Nat
    BY DEF NoPayload, Payload, BatchNo
  <1>3. /\ form.batch \in BatchNo /\ form.draft \in Drafts \union {Blank}
        /\ form.pending \in Payload \union {NoPayload}
    BY <1>1 DEF FormState
  <1>4. DOMAIN calls = 1..Len(calls) /\ Len(calls) \in Nat
    BY <1>1
  <1>5. ASSUME NEW i \in DOMAIN calls PROVE calls[i] \in Call /\ calls[i].load \in Payload
    <2>1. calls[i] \in Call
      BY <1>1
    <2> QED
      BY <2>1 DEF Call
  <1> QED
    BY <1>1, <1>2, <1>3, <1>4, <1>5, FormAssumption

\* The API does nothing in a step that sends calls or hands out answers.
LEMMA ClaimsStand ==
    ASSUME FormTypeOK, ClaimsHeld, UNCHANGED apiVars,
           DOMAIN calls \subseteq DOMAIN calls',
           \A i \in DOMAIN calls :
               calls'[i].load = calls[i].load /\ calls'[i].server = calls[i].server,
           \A i \in DOMAIN calls' \ DOMAIN calls : calls'[i].server = "sent"
    PROVE  ClaimsHeld'
  <1>1. /\ accepted' = accepted /\ claims' = claims /\ holders' = holders
        /\ resent' = resent /\ holders \subseteq DOMAIN calls
    BY DEF apiVars, FormTypeOK
  <1>2. ASSUME NEW c \in claims \ resent PROVE \E i \in holders : ClaimOf(calls'[i].load) = c
    <2>1. PICK i \in holders : ClaimOf(calls[i].load) = c
      BY DEF ClaimsHeld
    <2>2. calls'[i].load = calls[i].load
      BY <1>1
    <2> QED
      BY <2>1, <2>2
  <1>3. ASSUME NEW i \in DOMAIN calls', calls'[i].server = "done"
        PROVE  \/ \E j \in holders : calls'[j].load.batch = calls'[i].load.batch
               \/ \E c \in resent : c.batch = calls'[i].load.batch
    <2>1. i \in DOMAIN calls /\ calls[i].server = "done" /\ calls'[i].load = calls[i].load
      BY <1>3
    <2>2. \/ \E j \in holders : calls[j].load.batch = calls[i].load.batch
          \/ \E c \in resent : c.batch = calls[i].load.batch
      BY <2>1 DEF ClaimsHeld
    <2>3. \A j \in holders : calls'[j].load = calls[j].load
      BY <1>1
    <2> QED
      BY <2>1, <2>2, <2>3
  <1>4. ASSUME NEW i \in holders, calls'[i].server = "done" PROVE calls'[i].load \in accepted
    BY <1>1, <1>4 DEF ClaimsHeld
  <1> QED
    BY <1>1, <1>2, <1>3, <1>4 DEF ClaimsHeld

\* A step that changes nothing but what the form shows.
LEMMA FormEdited ==
    ASSUME FormInv, UNCHANGED <<calls, apiVars, told, refused, lapses>>,
           form' \in FormState, form'.pending = form.pending, form'.batch = form.batch,
           \/ form'.status = form.status
           \/ form.status # "submitting" /\ form'.status = "field_error",
           \A p \in told : p.draft # form'.draft
    PROVE  FormInv'
  <1>1. FormTypeOK'
    BY DEF FormInv, FormTypeOK, FormState, apiVars
  <1>2. Awaited' = Awaited
    BY DEF Awaited
  <1>3. BatchIdsLeft' /\ LoadsWereSent' /\ ClaimsHeld' /\ OneDraftPerBatch'
    BY <1>2 DEF FormInv, BatchIdsLeft, LoadsWereSent, ClaimsHeld, OneDraftPerBatch, apiVars
  <1>4. OneAwaited'
    BY <1>2 DEF FormInv, OneAwaited
  <1>5. QueuedIsGone' /\ NothingGivenUp'
    BY DEF QueuedIsGone, NothingGivenUp, FormInv
  <1> QED
    BY <1>1, <1>3, <1>4, <1>5 DEF FormInv

LEMMA EditsKeep ==
    ASSUME FormInv,
           LoadSites \/ SubmitInvalid \/ \E d \in Drafts \union {Blank} : Enter(d)
    PROVE  FormInv'
  <1>t. form \in FormState
    BY FormTyped DEF FormInv
  <1>1. CASE LoadSites
    <2>1. PICK found \in {"none", "some"} : form' = [form EXCEPT !.sites = found]
      BY <1>1 DEF LoadSites
    <2> QED
      BY <1>t, <1>1, <2>1, FormEdited DEF LoadSites, FormState, FormInv, QueuedIsGone
  <1>2. CASE SubmitInvalid
    BY <1>t, <1>2, FormEdited
       DEF SubmitInvalid, CanSubmit, FormState, FormInv, QueuedIsGone, Statuses
  <1>3. ASSUME NEW d \in Drafts \union {Blank}, Enter(d) PROVE FormInv'
    BY <1>t, <1>3, FormEdited DEF Enter, FormState
  <1> QED
    BY <1>1, <1>2, <1>3

\* A submit sends what the form shows; while nothing was edited under a batch_id
\* that was sent, that is the pending payload if there is one.
LEMMA FirstSubmitKeeps ==
    ASSUME FormInv, FirstSubmit
    PROVE  FormInv'
  <1> DEFINE p == [batch |-> form.batch, draft |-> form.draft]
             n == Len(calls) + 1
             others == {j \in DOMAIN calls : calls[j].load.batch = p.batch
                                             /\ calls[j].load.draft # p.draft}
  <1>t. FormTypeOK /\ BatchIdsLeft /\ LoadsWereSent /\ ClaimsHeld /\ OneDraftPerBatch
        /\ OneAwaited /\ QueuedIsGone /\ NothingGivenUp
    BY DEF FormInv
  <1>1. /\ form' = [form EXCEPT !.status = "submitting", !.pending = p]
        /\ Send(p) /\ lapses' = lapses \union {"edit" : i \in others}
        /\ UNCHANGED <<apiVars, told, refused>>
        /\ form.status \notin {"submitting", "success"} /\ form.draft # Blank
    BY DEF FirstSubmit, CanSubmit, Lapses
  <1>2. p \in Payload /\ p # NoPayload /\ p.batch = form.batch /\ p.draft = form.draft
    BY <1>t, <1>1, FormTyped DEF Payload
  <1> HIDE DEF p
  <1>3. /\ form'.batch = form.batch /\ form'.draft = form.draft /\ form'.pending = p
        /\ form'.status = "submitting" /\ form' \in FormState
    BY <1>t, <1>1, <1>2, FormTyped DEF FormState, Statuses
  <1>4. /\ calls' \in Seq(Call) /\ Len(calls') = n /\ Len(calls') <= MaxCalls
        /\ DOMAIN calls' = DOMAIN calls \union {n} /\ n \notin DOMAIN calls
        /\ \A i \in DOMAIN calls : calls'[i] = calls[i]
        /\ calls'[n].load = p /\ calls'[n].server = "sent"
        /\ Awaited' = Awaited \union {n} /\ Cardinality(Awaited') = Cardinality(Awaited) + 1
    <2>1. calls \in Seq(Call) /\ Len(calls) <= MaxCalls /\ n \notin DOMAIN calls
      BY <1>t, FormTyped DEF FormTypeOK
    <2>2. /\ calls' \in Seq(Call) /\ Len(calls') = n /\ Len(calls') <= MaxCalls
          /\ DOMAIN calls' = DOMAIN calls \union {n}
          /\ \A i \in DOMAIN calls : calls'[i] = calls[i]
          /\ calls'[n] = [load |-> p, server |-> "sent", open |-> TRUE]
          /\ Awaited' = Awaited \union {n} /\ Cardinality(Awaited') = Cardinality(Awaited) + 1
      BY <1>1, <1>2, <2>1, SendCall
    <2> QED
      BY <2>1, <2>2
  <1>5. FormTypeOK'
    BY <1>t, <1>1, <1>3, <1>4 DEF FormTypeOK, FormState, Call, apiVars
  <1>6. BatchIdsLeft'
    <2>1. Cardinality(Awaited) \in Nat
      BY <1>t, AwaitedCounted, FormTyped
    <2> QED
      BY <1>t, <1>3, <1>4, <2>1, FormTyped DEF BatchIdsLeft
  <1>7. LoadsWereSent'
    BY <1>t, <1>1, <1>3, <1>4 DEF LoadsWereSent, apiVars
  <1>12. ClaimsHeld'
    BY <1>t, <1>1, <1>4, ClaimsStand
  <1>8. OneDraftPerBatch'
    <2>1. CASE others # {}
      BY <1>1, <2>1 DEF OneDraftPerBatch
    <2>2. CASE others = {}
      <3>1. ASSUME NEW j \in DOMAIN calls, calls[j].load.batch = p.batch PROVE calls[j].load = p
        BY <1>t, <1>2, <2>2, <3>1, FormTyped DEF Payload
      <3> QED
        BY <1>t, <1>1, <1>4, <3>1 DEF OneDraftPerBatch
    <2> QED
      BY <2>1, <2>2
  <1>9. OneAwaited'
    <2>1. CASE "reset" \in lapses
      BY <1>1, <2>1 DEF OneAwaited
    <2>2. CASE "reset" \notin lapses
      <3>1. Awaited = {}
        BY <1>t, <1>1, <2>2 DEF OneAwaited
      <3> QED
        BY <1>2, <1>3, <1>4, <3>1 DEF OneAwaited
    <2> QED
      BY <2>1, <2>2
  <1>10. QueuedIsGone'
    BY <1>t, <1>1, <1>3 DEF QueuedIsGone
  <1>11. NothingGivenUp'
    <2> SUFFICES ASSUME lapses' = {}
                 PROVE  /\ \A i \in DOMAIN calls' : calls'[i].load \in told \union refused \union {p}
                        /\ \A q, r \in told \union {p} : q.draft = r.draft => q = r
      BY <1>1, <1>3 DEF NothingGivenUp
    <2>1. lapses = {} /\ others = {}
      BY <1>1
    <2>2. form.pending # NoPayload => form.pending = p
      <3> SUFFICES ASSUME form.pending # NoPayload PROVE form.pending = p
        OBVIOUS
      <3>1. PICK i \in DOMAIN calls : calls[i].load = form.pending
        BY <1>t DEF LoadsWereSent
      <3>2. calls[i].load.batch = p.batch
        BY <1>t, <1>2, <2>1, <3>1 DEF OneAwaited
      <3>3. calls[i].load.draft = p.draft
        BY <2>1, <3>2
      <3> QED
        BY <1>t, <1>2, <3>1, <3>2, <3>3, FormTyped DEF Payload
    <2>3. \A i \in DOMAIN calls : calls[i].load \in told \union refused \union {p}
      BY <1>t, <2>1, <2>2, FormTyped DEF NothingGivenUp
    <2>4. \A q \in told : q.draft # p.draft
      BY <1>t, <1>2 DEF QueuedIsGone
    <2> QED
      BY <1>t, <1>4, <2>1, <2>3, <2>4 DEF NothingGivenUp
  <1> QED
    BY <1>5, <1>6, <1>7, <1>8, <1>9, <1>10, <1>11, <1>12 DEF FormInv

\* A retry sends the pending payload once more.
LEMMA RetryKeeps ==
    ASSUME FormInv, Retry
    PROVE  FormInv'
  <1> DEFINE p == form.pending
             n == Len(calls) + 1
  <1>t. FormTypeOK /\ BatchIdsLeft /\ LoadsWereSent /\ ClaimsHeld /\ OneDraftPerBatch
        /\ OneAwaited /\ QueuedIsGone /\ NothingGivenUp
    BY DEF FormInv
  <1>1. /\ form' = [form EXCEPT !.status = "submitting"]
        /\ Send(p) /\ UNCHANGED <<apiVars, told, refused, lapses>>
        /\ form.status = "retryable_error" /\ p # NoPayload
    BY DEF Retry
  <1>2. p \in Payload
    BY <1>t, <1>1, FormTyped
  <1>3. /\ form'.batch = form.batch /\ form'.draft = form.draft /\ form'.pending = p
        /\ form'.status = "submitting" /\ form' \in FormState
    BY <1>t, <1>1, FormTyped DEF FormState, Statuses
  <1>4. /\ calls' \in Seq(Call) /\ Len(calls') = n /\ Len(calls') <= MaxCalls
        /\ DOMAIN calls' = DOMAIN calls \union {n} /\ n \notin DOMAIN calls
        /\ \A i \in DOMAIN calls : calls'[i] = calls[i]
        /\ calls'[n].load = p /\ calls'[n].server = "sent"
        /\ Awaited' = Awaited \union {n} /\ Cardinality(Awaited') = Cardinality(Awaited) + 1
    <2>1. calls \in Seq(Call) /\ Len(calls) <= MaxCalls /\ n \notin DOMAIN calls
      BY <1>t, FormTyped DEF FormTypeOK
    <2>2. /\ calls' \in Seq(Call) /\ Len(calls') = n /\ Len(calls') <= MaxCalls
          /\ DOMAIN calls' = DOMAIN calls \union {n}
          /\ \A i \in DOMAIN calls : calls'[i] = calls[i]
          /\ calls'[n] = [load |-> p, server |-> "sent", open |-> TRUE]
          /\ Awaited' = Awaited \union {n} /\ Cardinality(Awaited') = Cardinality(Awaited) + 1
      BY <1>1, <1>2, <2>1, SendCall
    <2> QED
      BY <2>1, <2>2
  <1>5. FormTypeOK'
    BY <1>t, <1>1, <1>3, <1>4 DEF FormTypeOK, FormState, Call, apiVars
  <1>6. BatchIdsLeft'
    <2>1. Cardinality(Awaited) \in Nat
      BY <1>t, AwaitedCounted, FormTyped
    <2> QED
      BY <1>t, <1>3, <1>4, <2>1, FormTyped DEF BatchIdsLeft
  <1>7. LoadsWereSent'
    BY <1>t, <1>1, <1>3, <1>4 DEF LoadsWereSent, apiVars
  <1>12. ClaimsHeld'
    BY <1>t, <1>1, <1>4, ClaimsStand
  <1>8. OneDraftPerBatch'
    <2>1. PICK k \in DOMAIN calls : calls[k].load = p
      BY <1>t, <1>1 DEF LoadsWereSent
    <2> QED
      BY <1>t, <1>1, <1>4, <2>1 DEF OneDraftPerBatch
  <1>9. OneAwaited'
    <2>1. "reset" \notin lapses => Awaited = {}
      BY <1>t, <1>1 DEF OneAwaited
    <2> QED
      BY <1>t, <1>1, <1>3, <1>4, <2>1 DEF OneAwaited
  <1>10. QueuedIsGone'
    BY <1>t, <1>1, <1>3 DEF QueuedIsGone
  <1>11. NothingGivenUp'
    BY <1>t, <1>1, <1>3, <1>4 DEF NothingGivenUp
  <1> QED
    BY <1>5, <1>6, <1>7, <1>8, <1>9, <1>10, <1>11, <1>12 DEF FormInv

\* The form is mounted anew, whether or not the calls on their way still find it.
LEMMA MountedAnew ==
    ASSUME FormInv, RoomForReset, form' \in FormState, form'.batch = form.batch + 1,
           form'.pending = NoPayload, form'.draft = Blank, form'.status = "idle",
           calls' \in Seq(Call), Len(calls') = Len(calls), DOMAIN calls' = DOMAIN calls,
           \A i \in DOMAIN calls :
               calls'[i].load = calls[i].load /\ calls'[i].server = calls[i].server,
           Awaited' \subseteq Awaited, Lapses(GivenUp),
           UNCHANGED <<apiVars, told, refused>>
    PROVE  FormInv'
  <1>t. FormTypeOK /\ BatchIdsLeft /\ LoadsWereSent /\ ClaimsHeld /\ OneDraftPerBatch
        /\ OneAwaited /\ QueuedIsGone /\ NothingGivenUp
    BY DEF FormInv
  <1>1. /\ lapses' = lapses \union GivenUp /\ GivenUp \subseteq {"reset", "abandon"}
        /\ "reset" \in GivenUp <=> Awaited # {}
        /\ "abandon" \in GivenUp <=> form.pending # NoPayload
    BY DEF Lapses, GivenUp
  <1> HIDE DEF GivenUp
  <1>5. FormTypeOK'
    BY <1>t, <1>1 DEF FormTypeOK, FormState, Call, apiVars
  <1>6. BatchIdsLeft'
    <2>1. Cardinality(Awaited') \in Nat /\ Cardinality(Awaited') <= Len(calls)
      <3>1. IsFiniteSet(Awaited) /\ Cardinality(Awaited) \in Nat
            /\ Cardinality(Awaited) <= Len(calls) /\ Len(calls) \in Nat
        BY <1>t, AwaitedCounted, FormTyped
      <3>2. IsFiniteSet(Awaited') /\ Cardinality(Awaited') <= Cardinality(Awaited)
        BY <3>1, FS_Subset
      <3>3. Cardinality(Awaited') \in Nat
        BY <3>2, FS_CardinalityType
      <3> QED
        BY <3>1, <3>2, <3>3
    <2> QED
      BY <1>t, <2>1, FormTyped DEF BatchIdsLeft, RoomForReset
  <1>7. LoadsWereSent'
    BY <1>t DEF LoadsWereSent, apiVars
  <1>12. ClaimsHeld'
    BY <1>t, ClaimsStand
  <1>8. OneDraftPerBatch'
    BY <1>t, <1>1 DEF OneDraftPerBatch
  <1>9. OneAwaited'
    BY <1>t, <1>1 DEF OneAwaited
  <1>10. QueuedIsGone'
    BY <1>t, FormAssumption DEF QueuedIsGone, FormTypeOK, Payload
  <1>11. NothingGivenUp'
    BY <1>t, <1>1 DEF NothingGivenUp
  <1> QED
    BY <1>5, <1>6, <1>7, <1>8, <1>9, <1>10, <1>11, <1>12 DEF FormInv

LEMMA ResetsKeep ==
    ASSUME FormInv, StartOver \/ Reload
    PROVE  FormInv'
  <1>t. FormTypeOK
    BY DEF FormInv
  <1>1. RoomForReset /\ form.batch + 1 \in BatchNo
    BY <1>t, FormTyped DEF StartOver, Reload, RoomForReset, BatchNo
  <1>2. CASE StartOver
    <2>1. /\ form' = [batch |-> form.batch + 1, draft |-> Blank, status |-> "idle",
                      pending |-> NoPayload, sites |-> form.sites]
          /\ Lapses(GivenUp) /\ UNCHANGED <<calls, apiVars, told, refused>>
      BY <1>2 DEF StartOver, Mounted
    <2>2. form' \in FormState
      BY <1>t, <1>1, <2>1, FormTyped DEF FormState, Statuses
    <2>3. Awaited' = Awaited
      BY <2>1 DEF Awaited
    <2> QED
      BY <1>t, <1>1, <2>1, <2>2, <2>3, FormTyped, MountedAnew
  <1>3. CASE Reload
    <2>1. /\ form' = [batch |-> form.batch + 1, draft |-> Blank, status |-> "idle",
                      pending |-> NoPayload, sites |-> "loading"]
          /\ calls' = [i \in DOMAIN calls |-> [calls[i] EXCEPT !.open = FALSE]]
          /\ Lapses(GivenUp) /\ UNCHANGED <<apiVars, told, refused>>
      BY <1>3 DEF Reload, Mounted
    <2>2. form' \in FormState
      BY <1>1, <2>1 DEF FormState, Statuses
    <2>3. ASSUME NEW i \in DOMAIN calls
          PROVE  /\ calls'[i] \in Call /\ ~ calls'[i].open
                 /\ calls'[i].load = calls[i].load /\ calls'[i].server = calls[i].server
      BY <1>t, <2>1, FormTyped DEF Call
    <2>4. calls' \in Seq(Call) /\ Len(calls') = Len(calls) /\ DOMAIN calls' = DOMAIN calls
      <3>1. calls' = [i \in 1..Len(calls) |-> calls'[i]] /\ Len(calls) \in Nat
        BY <1>t, <2>1, FormTyped
      <3> QED
        BY <1>t, <2>3, <3>1, FormTyped
    <2>5. Awaited' = {}
      BY <2>3, <2>4 DEF Awaited
    <2> QED
      BY <1>1, <2>1, <2>2, <2>3, <2>4, <2>5, MountedAnew
  <1> QED
    BY <1>2, <1>3

\* What a step of the API's does to a POST and to what it holds of it.
LEMMA ApiStep ==
    ASSUME FormTypeOK, NEW i \in DOMAIN calls, ApiHandles(i)
    PROVE  /\ UNCHANGED <<form, told, refused, lapses>>
           /\ calls[i].server = "sent"
           /\ calls' \in Seq(Call) /\ Len(calls') = Len(calls) /\ DOMAIN calls' = DOMAIN calls
           /\ \A j \in DOMAIN calls :
                 /\ calls'[j].load = calls[j].load
                 /\ j # i => calls'[j].server = calls[j].server
           /\ Awaited' = Awaited
           /\ accepted \subseteq accepted' /\ accepted' \subseteq accepted \union {calls[i].load}
           /\ holders \subseteq holders' /\ holders' \subseteq holders \union {i}
           /\ resent \subseteq resent' /\ resent' \subseteq resent \union {ClaimOf(calls[i].load)}
           /\ \A c \in claims' \ resent' :
                 c \in claims \/ (c = ClaimOf(calls[i].load) /\ i \in holders')
           /\ claims' \subseteq claims \union {ClaimOf(calls[i].load)}
           /\ calls'[i].server = "done" =>
                 \/ i \in holders /\ calls[i].load \in accepted'
                 \/ i \notin holders' /\ ClaimOf(calls[i].load) \in claims \union resent'
  <1>t. calls \in Seq(Call) /\ {"done", "notFound", "unknown"} \subseteq Outcomes
    BY FormTyped DEF Outcomes, Refusals, Breakdowns
  <1>u. UNCHANGED <<form, told, refused, lapses>>
    BY DEF ApiHandles
  <1>1. ASSUME NEW outcome \in {"done", "notFound", "unknown"}, Replies(i, outcome)
        PROVE  /\ calls' \in Seq(Call) /\ Len(calls') = Len(calls)
               /\ DOMAIN calls' = DOMAIN calls
               /\ \A j \in DOMAIN calls :
                     /\ calls'[j].load = calls[j].load
                     /\ j # i => calls'[j].server = calls[j].server
               /\ calls'[i].server = outcome
               /\ Awaited' = Awaited
    <2>1. calls' = [calls EXCEPT ![i].server = outcome]
      BY <1>1 DEF Replies
    <2>2. outcome \in Outcomes
      BY <1>t
    <2>3. /\ calls' \in Seq(Call) /\ Len(calls') = Len(calls)
          /\ DOMAIN calls' = DOMAIN calls
          /\ \A j \in DOMAIN calls :
                /\ calls'[j].load = calls[j].load
                /\ calls'[j].server = IF j = i THEN outcome ELSE calls[j].server
          /\ Awaited' = Awaited
      BY <1>t, <2>1, <2>2, HandleCall
    <2> QED
      BY <2>3
  <1>2. CASE TurnsAway(i)
    <2>1. PICK outcome \in {"notFound", "unknown"} : Replies(i, outcome)
      BY <1>2 DEF TurnsAway
    <2>2. /\ calls[i].server = "sent" /\ accepted' = accepted /\ claims' = claims
          /\ holders' = holders /\ resent' = resent
      BY <1>2 DEF TurnsAway, Unseen, apiVars
    <2> QED
      BY <1>u, <1>1, <2>1, <2>2
  <1>3. CASE SeesFirst(i)
    <2>1. /\ calls[i].server = "sent" /\ calls' = calls /\ accepted' = accepted
          /\ holders' = holders \union {i} /\ resent' = resent
          /\ claims' \subseteq claims \union {ClaimOf(calls[i].load)}
      BY <1>3 DEF SeesFirst, Unseen
    <2>2. Awaited' = Awaited
      BY <2>1 DEF Awaited
    <2> QED
      BY <1>t, <1>u, <2>1, <2>2
  <1>4. CASE SeesDuplicate(i)
    <2>1. /\ calls[i].server = "sent" /\ i \notin holders /\ Replies(i, "done")
          /\ ClaimOf(calls[i].load) \in claims
          /\ accepted' = accepted /\ claims' = claims /\ holders' = holders /\ resent' = resent
      BY <1>4 DEF SeesDuplicate, Unseen, apiVars
    <2> QED
      BY <1>u, <1>1, <2>1
  <1>5. CASE Produces(i)
    <2>1. /\ calls[i].server = "sent" /\ i \in holders /\ Replies(i, "done")
          /\ accepted' = accepted \union {calls[i].load}
          /\ claims' = claims /\ holders' = holders /\ resent' = resent
      BY <1>5 DEF Produces, AtWork
    <2> QED
      BY <1>u, <1>1, <2>1
  <1>6. CASE ProduceFails(i)
    <2>1. /\ calls[i].server = "sent" /\ Replies(i, "unknown")
          /\ accepted' \in {accepted, accepted \union {calls[i].load}}
          /\ claims' \subseteq claims /\ holders' = holders /\ resent' = resent
      BY <1>6 DEF ProduceFails, AtWork
    <2> QED
      BY <1>u, <1>1, <2>1
  <1>7. CASE SeesItself(i)
    <2>1. /\ calls[i].server = "sent" /\ i \notin holders /\ Replies(i, "done")
          /\ accepted' = accepted /\ holders' = holders
          /\ claims' = claims \union {ClaimOf(calls[i].load)}
          /\ resent' = resent \union {ClaimOf(calls[i].load)}
      BY <1>7 DEF SeesItself, Unseen
    <2> QED
      BY <1>u, <1>1, <2>1
  <1> QED
    BY <1>2, <1>3, <1>4, <1>5, <1>6, <1>7 DEF ApiHandles

LEMMA ApiHandlesKeeps ==
    ASSUME FormInv, NEW i \in DOMAIN calls, ApiHandles(i)
    PROVE  FormInv'
  <1>t. FormTypeOK /\ BatchIdsLeft /\ LoadsWereSent /\ ClaimsHeld /\ OneDraftPerBatch
        /\ OneAwaited /\ QueuedIsGone /\ NothingGivenUp
    BY DEF FormInv
  <1>1. /\ UNCHANGED <<form, told, refused, lapses>>
        /\ calls[i].server = "sent"
        /\ calls' \in Seq(Call) /\ Len(calls') = Len(calls) /\ DOMAIN calls' = DOMAIN calls
        /\ \A j \in DOMAIN calls :
              /\ calls'[j].load = calls[j].load
              /\ j # i => calls'[j].server = calls[j].server
        /\ Awaited' = Awaited
    BY <1>t, ApiStep
  <1>2. /\ accepted \subseteq accepted' /\ accepted' \subseteq accepted \union {calls[i].load}
        /\ holders \subseteq holders' /\ holders' \subseteq holders \union {i}
        /\ resent \subseteq resent' /\ resent' \subseteq resent \union {ClaimOf(calls[i].load)}
        /\ \A c \in claims' \ resent' :
              c \in claims \/ (c = ClaimOf(calls[i].load) /\ i \in holders')
        /\ calls'[i].server = "done" =>
              \/ i \in holders /\ calls[i].load \in accepted'
              \/ i \notin holders' /\ ClaimOf(calls[i].load) \in claims \union resent'
        /\ claims' \subseteq claims \union {ClaimOf(calls[i].load)}
    BY <1>t, ApiStep
  <1>3. calls[i].load \in Payload /\ holders \subseteq DOMAIN calls
    BY <1>t, FormTyped DEF FormTypeOK
  <1>5. FormTypeOK'
    BY <1>t, <1>1, <1>2, <1>3 DEF FormTypeOK, Call
  <1>6. BatchIdsLeft'
    BY <1>t, <1>1 DEF BatchIdsLeft
  <1>7. LoadsWereSent'
    <2>1. form'.pending # NoPayload => \E j \in DOMAIN calls' : calls'[j].load = form'.pending
      BY <1>t, <1>1 DEF LoadsWereSent
    <2>2. \A p \in accepted' : \E j \in DOMAIN calls' : calls'[j].load = p
      BY <1>t, <1>1, <1>2 DEF LoadsWereSent
    <2>3. ASSUME NEW p \in told'
          PROVE  \E j \in DOMAIN calls' : calls'[j].load = p /\ calls'[j].server = "done"
      <3>1. PICK j \in DOMAIN calls : calls[j].load = p /\ calls[j].server = "done"
        BY <1>t, <1>1 DEF LoadsWereSent
      <3>2. j # i
        BY <1>1, <3>1
      <3> QED
        BY <1>1, <3>1, <3>2
    <2> QED
      BY <2>1, <2>2, <2>3 DEF LoadsWereSent
  <1>12. ClaimsHeld'
    <2>1. ASSUME NEW c \in claims' \ resent' PROVE \E j \in holders' : ClaimOf(calls'[j].load) = c
      <3>1. CASE c \in claims
        <4>1. PICK j \in holders : ClaimOf(calls[j].load) = c
          BY <1>t, <1>2, <2>1, <3>1 DEF ClaimsHeld
        <4>2. j \in holders' /\ calls'[j].load = calls[j].load
          BY <1>1, <1>2, <1>3
        <4> QED
          BY <4>1, <4>2
      <3>2. CASE c = ClaimOf(calls[i].load) /\ i \in holders'
        <4>1. calls'[i].load = calls[i].load
          BY <1>1
        <4> QED
          BY <3>2, <4>1
      <3> QED
        BY <1>2, <2>1, <3>1, <3>2
    <2>2. ASSUME NEW k \in DOMAIN calls, calls'[k].server = "done"
          PROVE  \/ \E j \in holders' : calls'[j].load.batch = calls'[k].load.batch
                 \/ \E c \in resent' : c.batch = calls'[k].load.batch
      <3>1. CASE k # i
        <4>1. \/ \E j \in holders : calls[j].load.batch = calls[k].load.batch
              \/ \E c \in resent : c.batch = calls[k].load.batch
          BY <1>t, <1>1, <2>2, <3>1 DEF ClaimsHeld
        <4> QED
          BY <1>1, <1>2, <1>3, <4>1
      <3>2. CASE k = i /\ i \in holders
        BY <1>2, <3>2
      <3>4. CASE k = i /\ ClaimOf(calls[i].load) \in resent'
        <4>1. calls'[k].load = calls[i].load
          BY <1>1, <3>4
        <4> QED
          BY <3>4, <4>1 DEF ClaimOf
      <3>3. CASE k = i /\ ClaimOf(calls[i].load) \in claims \ resent
        <4>1. PICK j \in holders : ClaimOf(calls[j].load) = ClaimOf(calls[i].load)
          BY <1>t, <3>3 DEF ClaimsHeld
        <4>2. calls[j].load.batch = calls[i].load.batch
          BY <4>1 DEF ClaimOf
        <4>3. /\ j \in holders' /\ calls'[j].load = calls[j].load
              /\ calls'[k].load = calls[i].load
          BY <1>1, <1>2, <1>3, <3>3
        <4> QED
          BY <4>2, <4>3
      <3> QED
        BY <1>2, <2>2, <3>1, <3>2, <3>3, <3>4
    <2>3. ASSUME NEW k \in holders', calls'[k].server = "done" PROVE calls'[k].load \in accepted'
      <3>1. CASE k = i
        BY <1>1, <1>2, <2>3, <3>1
      <3>2. CASE k # i
        <4>1. k \in holders /\ k \in DOMAIN calls /\ calls[k].server = "done"
          BY <1>1, <1>2, <1>3, <2>3, <3>2
        <4> QED
          BY <1>t, <1>1, <1>2, <4>1 DEF ClaimsHeld
      <3> QED
        BY <3>1, <3>2
    <2> QED
      BY <1>1, <2>1, <2>2, <2>3 DEF ClaimsHeld
  <1>8. OneDraftPerBatch'
    BY <1>t, <1>1 DEF OneDraftPerBatch
  <1>9. OneAwaited'
    <2>1. \A j \in Awaited : j \in DOMAIN calls
      BY DEF Awaited
    <2>2. /\ form' = form /\ lapses' = lapses /\ Awaited' = Awaited
          /\ \A j \in Awaited : calls'[j].load = calls[j].load
      BY <1>1, <2>1
    <2> QED
      BY <1>t, <2>2 DEF OneAwaited
  <1>10. QueuedIsGone'
    BY <1>t, <1>1 DEF QueuedIsGone
  <1>11. NothingGivenUp'
    BY <1>t, <1>1 DEF NothingGivenUp
  <1> QED
    BY <1>5, <1>6, <1>7, <1>8, <1>9, <1>10, <1>11, <1>12 DEF FormInv

LEMMA ForgottenKeeps ==
    ASSUME FormInv, NEW c \in claims, ClaimForgotten(c)
    PROVE  FormInv'
  <1>1. /\ UNCHANGED <<form, calls, accepted, holders, resent, told, refused, lapses>>
        /\ claims' \subseteq claims
    BY DEF ClaimForgotten
  <1>2. Awaited' = Awaited
    BY <1>1 DEF Awaited
  <1>3. FormTypeOK'
    BY <1>1 DEF FormInv, FormTypeOK
  <1>4. BatchIdsLeft' /\ LoadsWereSent' /\ OneDraftPerBatch'
    BY <1>1, <1>2 DEF FormInv, BatchIdsLeft, LoadsWereSent, OneDraftPerBatch
  <1>5. ClaimsHeld'
    BY <1>1 DEF FormInv, ClaimsHeld
  <1>6. OneAwaited' /\ QueuedIsGone' /\ NothingGivenUp'
    BY <1>1, <1>2 DEF FormInv, OneAwaited, QueuedIsGone, NothingGivenUp
  <1> QED
    BY <1>3, <1>4, <1>5, <1>6 DEF FormInv

\* An awaited answer is handled, by any of the three branches.
LEMMA AnswerKeeps ==
    ASSUME FormInv, NEW i \in Awaited, Closed(i),
           form' \in [batch : Nat, draft : Drafts \union {Blank}, status : Statuses,
                      pending : Payload \union {NoPayload}, sites : {"loading", "none", "some"}],
           \/ /\ form'.batch = form.batch + 1 /\ form'.pending = NoPayload
              /\ form'.status \notin {"submitting", "retryable_error"}
              /\ \/ told' = told \union {calls[i].load} /\ refused' = refused
                    /\ calls[i].server = "done" /\ form'.draft = Blank
                 \/ told' = told /\ refused' = refused \union {calls[i].load}
                    /\ form'.draft = form.draft
           \/ /\ form'.batch = form.batch /\ form'.pending = form.pending
              /\ form'.status = "retryable_error" /\ form'.draft = form.draft
              /\ told' = told /\ refused' = refused,
           UNCHANGED <<apiVars, lapses>>
    PROVE  FormInv'
  <1>t. FormTypeOK /\ BatchIdsLeft /\ LoadsWereSent /\ ClaimsHeld /\ OneDraftPerBatch
        /\ OneAwaited /\ QueuedIsGone /\ NothingGivenUp
    BY DEF FormInv
  <1>1. i \in DOMAIN calls /\ calls[i].load \in Payload /\ calls \in Seq(Call)
    BY <1>t, FormTyped DEF Awaited
  <1>2. /\ calls' \in Seq(Call) /\ Len(calls') = Len(calls) /\ DOMAIN calls' = DOMAIN calls
        /\ \A j \in DOMAIN calls :
              calls'[j].load = calls[j].load /\ calls'[j].server = calls[j].server
        /\ Awaited' = Awaited \ {i} /\ Cardinality(Awaited') = Cardinality(Awaited) - 1
    BY <1>1, CloseCall
  <1>3. Cardinality(Awaited) \in Nat /\ Cardinality(Awaited') \in Nat /\ Len(calls) <= MaxCalls
    <2>1. IsFiniteSet(Awaited) /\ Cardinality(Awaited) \in Nat
      BY <1>1, AwaitedCounted
    <2>2. IsFiniteSet(Awaited')
      BY <1>2, <2>1, FS_Subset
    <2>3. Cardinality(Awaited') \in Nat
      BY <2>2, FS_CardinalityType
    <2> QED
      BY <1>t, <2>1, <2>3 DEF FormTypeOK
  <1>6. BatchIdsLeft' /\ form'.batch \in BatchNo
    BY SMTT(20), <1>t, <1>2, <1>3, FormTyped DEF BatchIdsLeft, BatchNo
  <1>5. FormTypeOK'
    <2>1. form' \in FormState
      BY <1>6 DEF FormState
    <2> QED
      BY <1>t, <1>1, <1>2, <2>1 DEF FormTypeOK, FormState, Call, apiVars
  <1>7. LoadsWereSent'
    BY SMTT(20), <1>t, <1>1, <1>2 DEF LoadsWereSent, apiVars
  <1>12. ClaimsHeld'
    BY <1>t, <1>2, ClaimsStand
  <1>8. OneDraftPerBatch'
    BY <1>t, <1>2 DEF OneDraftPerBatch
  <1>a. "reset" \notin lapses => Awaited' = {} /\ calls[i].load = form.pending
    BY <1>t, <1>2 DEF OneAwaited
  <1>n. form.pending # NoPayload \/ "reset" \in lapses
    BY <1>t, <1>1, <1>a, FormTyped
  <1>9. OneAwaited'
    BY <1>t, <1>a, <1>n DEF OneAwaited
  <1>10. QueuedIsGone'
    <2>1. Blank \notin Drafts /\ calls[i].load.draft # Blank /\ \A p \in told : p.draft # Blank
      BY <1>t, <1>1, FormAssumption DEF FormTypeOK, Payload
    <2> QED
      BY <1>t, <2>1 DEF QueuedIsGone
  <1>11. NothingGivenUp'
    <2> SUFFICES ASSUME lapses = {} PROVE NothingGivenUp'
      BY DEF NothingGivenUp
    <2>1. calls[i].load = form.pending /\ form.pending # NoPayload
      BY <1>a, <1>n
    <2> QED
      BY <1>t, <1>2, <2>1 DEF NothingGivenUp
  <1> QED
    BY <1>5, <1>6, <1>7, <1>8, <1>9, <1>10, <1>11, <1>12 DEF FormInv

LEMMA RepliesKeep ==
    ASSUME FormInv, NEW i \in DOMAIN calls, Succeeds(i) \/ IsRefused(i) \/ MayRetry(i)
    PROVE  FormInv'
  <1>t. form \in FormState /\ form.batch \in Nat
    BY FormTyped DEF FormInv
  <1>1. CASE Succeeds(i)
    <2>1. /\ i \in Awaited /\ Closed(i) /\ told' = told \union {calls[i].load}
          /\ form' = [form EXCEPT !.status = "success", !.pending = NoPayload,
                                  !.draft = Blank, !.batch = @ + 1]
          /\ UNCHANGED <<apiVars, refused, lapses>>
      BY <1>1 DEF Succeeds
    <2>2. calls[i].server = "done"
      BY <1>1 DEF Succeeds, Result
    <2>3. /\ form'.batch = form.batch + 1 /\ form'.pending = NoPayload
          /\ form'.status = "success" /\ form'.draft = Blank
          /\ form' \in [batch : Nat, draft : Drafts \union {Blank}, status : Statuses,
                        pending : Payload \union {NoPayload}, sites : {"loading", "none", "some"}]
      <3>1. form' = [batch |-> form.batch + 1, draft |-> Blank, status |-> "success",
                     pending |-> NoPayload, sites |-> form.sites]
        BY <1>t, <2>1 DEF FormState
      <3>2. form.draft \in Drafts \union {Blank} /\ form.sites \in {"loading", "none", "some"}
        BY <1>t DEF FormState
      <3> QED
        BY <1>t, <3>1, <3>2 DEF Statuses
    <2> QED
      BY <2>1, <2>2, <2>3, AnswerKeeps
  <1>2. CASE IsRefused(i)
    <2>1. /\ i \in Awaited /\ Closed(i) /\ refused' = refused \union {calls[i].load}
          /\ form' = [form EXCEPT !.status = "field_error", !.pending = NoPayload,
                                  !.batch = @ + 1]
          /\ UNCHANGED <<apiVars, told, lapses>>
      BY <1>2 DEF IsRefused
    <2>2. /\ form'.batch = form.batch + 1 /\ form'.pending = NoPayload
          /\ form'.status = "field_error" /\ form'.draft = form.draft
          /\ form' \in [batch : Nat, draft : Drafts \union {Blank}, status : Statuses,
                        pending : Payload \union {NoPayload}, sites : {"loading", "none", "some"}]
      <3>1. form' = [batch |-> form.batch + 1, draft |-> form.draft, status |-> "field_error",
                     pending |-> NoPayload, sites |-> form.sites]
        BY <1>t, <2>1 DEF FormState
      <3>2. form.draft \in Drafts \union {Blank} /\ form.sites \in {"loading", "none", "some"}
        BY <1>t DEF FormState
      <3> QED
        BY <1>t, <3>1, <3>2 DEF Statuses
    <2> QED
      BY <2>1, <2>2, AnswerKeeps
  <1>3. CASE MayRetry(i)
    <2>1. /\ i \in Awaited /\ Closed(i)
          /\ form' = [form EXCEPT !.status = "retryable_error"]
          /\ UNCHANGED <<apiVars, told, refused, lapses>>
      BY <1>3 DEF MayRetry, Retried
    <2> QED
      BY <1>t, <2>1, AnswerKeeps DEF FormState, Statuses
  <1> QED
    BY <1>1, <1>2, <1>3

LEMMA FormInvInit == FormInit => FormInv
  <1> SUFFICES ASSUME FormInit PROVE FormInv
    OBVIOUS
  <1>1. /\ form = [batch |-> 1, draft |-> Blank, status |-> "idle", pending |-> NoPayload,
                   sites |-> "loading"]
        /\ calls = <<>> /\ accepted = {} /\ claims = {} /\ holders = {} /\ resent = {}
        /\ told = {} /\ refused = {} /\ lapses = {}
    BY DEF FormInit, Mounted
  <1>2. 1 \in BatchNo /\ MaxCalls \in Nat /\ MaxBatchIds \in Nat /\ 1 + MaxCalls <= MaxBatchIds
    BY FormAssumption DEF BatchNo
  <1>3. Awaited = {} /\ Cardinality(Awaited) = 0 /\ Len(calls) = 0 /\ calls \in Seq(Call)
        /\ DOMAIN calls = {}
    BY <1>1, FS_EmptySet DEF Awaited
  <1>4. FormTypeOK
    BY <1>1, <1>2, <1>3 DEF FormTypeOK, Statuses, Call
  <1>5. BatchIdsLeft
    BY <1>1, <1>2, <1>3 DEF BatchIdsLeft
  <1>6. /\ LoadsWereSent /\ ClaimsHeld /\ OneDraftPerBatch
        /\ OneAwaited /\ QueuedIsGone /\ NothingGivenUp
    BY <1>1, <1>3
       DEF LoadsWereSent, ClaimsHeld, OneDraftPerBatch, OneAwaited, QueuedIsGone, NothingGivenUp
  <1> QED
    BY <1>4, <1>5, <1>6 DEF FormInv

LEMMA FormInvNext == FormInv /\ (FormNext \/ UNCHANGED formVars) => FormInv'
  <1> SUFFICES ASSUME FormInv, FormNext \/ UNCHANGED formVars PROVE FormInv'
    OBVIOUS
  <1>1. CASE FormUser
    BY <1>1, EditsKeep, FirstSubmitKeeps, RetryKeeps, ResetsKeep DEF FormUser
  <1>2. ASSUME NEW i \in DOMAIN calls, FormReply(i) PROVE FormInv'
    BY <1>2, ApiHandlesKeeps, RepliesKeep DEF FormReply
  <1>3. CASE UNCHANGED formVars
    <2>1. UNCHANGED <<form, calls, accepted, claims, holders, resent, told, refused, lapses>>
      BY <1>3 DEF formVars, apiVars
    <2>2. Awaited' = Awaited
      BY <2>1 DEF Awaited
    <2>3. FormTypeOK' /\ BatchIdsLeft' /\ LoadsWereSent' /\ ClaimsHeld'
      BY <2>1, <2>2 DEF FormInv, FormTypeOK, BatchIdsLeft, LoadsWereSent, ClaimsHeld
    <2> QED
      BY <2>1, <2>2, <2>3
         DEF FormInv, OneDraftPerBatch, OneAwaited, QueuedIsGone, NothingGivenUp
  <1>4. ASSUME NEW c \in claims, ClaimForgotten(c) PROVE FormInv'
    BY <1>4, ForgottenKeeps
  <1> QED
    BY <1>1, <1>2, <1>3, <1>4 DEF FormNext

\* What the invariant says of the form's properties.
LEMMA FormFollows == FormInv => EntryAcceptedOnce /\ QueuedIsAccepted /\ RetryIsOffered
  <1> SUFFICES ASSUME FormInv PROVE EntryAcceptedOnce /\ QueuedIsAccepted /\ RetryIsOffered
    OBVIOUS
  <1>t. /\ FormTypeOK /\ LoadsWereSent /\ ClaimsHeld /\ OneDraftPerBatch
        /\ OneAwaited /\ NothingGivenUp
    BY DEF FormInv
  <1>1. EntryAcceptedOnce
    <2> SUFFICES ASSUME NEW p \in accepted, NEW q \in accepted, p # q, p.draft = q.draft,
                        lapses = {}
                 PROVE  \E r \in refused \cap accepted : r.draft = p.draft
      BY DEF EntryAcceptedOnce
    <2>1. \A r \in {p, q} : r \in told \union refused \union ({form.pending} \ {NoPayload})
      <3>1. PICK i \in DOMAIN calls, j \in DOMAIN calls : calls[i].load = p /\ calls[j].load = q
        BY <1>t DEF LoadsWereSent
      <3>2. p \in Payload /\ q \in Payload
        BY <1>t DEF FormTypeOK
      <3> QED
        BY <1>t, <3>1, <3>2, FormTyped DEF NothingGivenUp
    <2> QED
      BY <1>t, <2>1 DEF NothingGivenUp
  <1>2. QueuedIsAccepted
    <2> SUFFICES ASSUME NEW p \in told, p \notin accepted,
                        \A i \in holders : calls[i].load.batch = p.batch => calls[i].server = "done",
                        \A c \in resent : c.batch # p.batch
                 PROVE  "edit" \in lapses /\ \E q \in accepted : q.batch = p.batch
      BY DEF QueuedIsAccepted
    <2>1. PICK i \in DOMAIN calls : calls[i].load = p /\ calls[i].server = "done"
      BY <1>t DEF LoadsWereSent
    <2>2. PICK j \in holders : calls[j].load.batch = p.batch
      BY <1>t, <2>1 DEF ClaimsHeld
    <2>3. calls[j].load \in accepted /\ j \in DOMAIN calls
      BY <1>t, <2>2 DEF ClaimsHeld, FormTypeOK
    <2>4. calls[j].load # calls[i].load /\ calls[j].load.batch = calls[i].load.batch
      BY <2>1, <2>2, <2>3
    <2>5. "edit" \in lapses
      BY <1>t, <2>3, <2>4 DEF OneDraftPerBatch
    <2> QED
      BY <2>2, <2>3, <2>5
  <1>3. RetryIsOffered
    BY <1>t DEF OneAwaited, RetryIsOffered
  <1> QED
    BY <1>1, <1>2, <1>3

-----------------------------------------------------------------------------
(* The dashboard: the inductive invariant.                                 *)

Ascending(ids) == \A i, j \in DOMAIN ids : i < j => ids[i] < ids[j]

\* One page is on its way at a time, while the table is loading, and it was asked
\* for from the table's cursor.
OneFetch ==
    /\ \A f, g \in DOMAIN fetches : fetches[f].pc # "free" /\ fetches[g].pc # "free" => f = g
    /\ \A f \in DOMAIN fetches :
          fetches[f].pc # "free" => walk.loading /\ fetches[f].after = walk.cursor

\* The table shows, in order, the committed sites up to its cursor but for those
\* that the walk had passed when they were committed.
ShownToCursor ==
    /\ Ascending(walk.shown) /\ ToSet(walk.shown) \subseteq Live
    /\ walk.cursor = 0 => walk.shown = <<>> \/ (walk.status = "shown" /\ ~ walk.loading)
    /\ walk.status = "first" => walk.cursor = 0
    /\ walk.cursor # 0 =>
          /\ walk.cursor \in Live /\ walk.cursor <= high
          /\ \A id \in ToSet(walk.shown) : id <= walk.cursor
          /\ \A id \in Live : id <= walk.cursor => id \in ToSet(walk.shown) \union passed

\* A page goes on from the cursor it was asked with, up to the next one or to the end.
PagesGoOn ==
    \A f \in DOMAIN fetches : fetches[f].pc = "read" =>
        LET page == fetches[f].page
            next == fetches[f].next
        IN  /\ Ascending(page) /\ ToSet(page) \subseteq Live
            /\ \A id \in ToSet(page) : id > fetches[f].after
            /\ next = 0 => due \ passed \subseteq ToSet(walk.shown) \union ToSet(page)
            /\ next # 0 =>
                  /\ next \in Live /\ next <= high /\ next > fetches[f].after
                  /\ \A id \in ToSet(page) : id <= next
                  /\ \A id \in Live : fetches[f].after < id /\ id <= next =>
                        id \in ToSet(page) \union passed

ListingInv == /\ ListingTypeOK /\ OneFetch /\ ShownToCursor /\ PagesGoOn /\ ListingIsExact

-----------------------------------------------------------------------------
(* The form that creates sites: the inductive invariant.                   *)

\* One answer is awaited, about the slug the form shows.
OnePost ==
    /\ \A p \in DOMAIN posts :
          posts[p].awaited => creating.submitting /\ posts[p].slug = creating.slug
    /\ \A p, q \in DOMAIN posts : posts[p].awaited /\ posts[q].awaited => p = q

\* What the requests know of the rows they inserted or met.
PostsKnow ==
    /\ \A p \in DOMAIN posts :
          /\ posts[p].server = "sent" => posts[p].row = 0
          /\ posts[p].server = "open" =>
                posts[p].row \in DOMAIN rows /\ rows[posts[p].row].state = "open"
          /\ posts[p].server = "done" => posts[p].row \in Live
          /\ posts[p].server = "conflict" => Taken(posts[p].slug, "live")
          /\ posts[p].server \in {"sent", "open", "done", "conflict", "zod", "unknown"}
    /\ \A p, q \in DOMAIN posts :
          posts[p].server = "open" /\ posts[q].server = "open"
          /\ posts[p].row = posts[q].row => p = q

CreateInv == CreateTypeOK /\ OnePost /\ PostsKnow /\ FormTellsTheTruth

-----------------------------------------------------------------------------
(* The steps of the dashboard.                                             *)

SiteRow == [slug : Slugs, state : {"open", "live", "gone"}]
Fetch == [pc : {"free", "sent", "read"}, after : Cursor, page : Seq(RowNo), next : Cursor]

LEMMA ListingTyped ==
    ASSUME ListingTypeOK
    PROVE  /\ rows \in Seq(SiteRow) /\ DOMAIN rows = 1..Len(rows) /\ Len(rows) \in Nat
           /\ Len(rows) <= MaxSites /\ DOMAIN rows \subseteq RowNo /\ Live \subseteq RowNo
           /\ walk.shown \in Seq(RowNo) /\ walk.cursor \in Cursor /\ walk.loading \in BOOLEAN
           /\ walk.status \in {"first", "shown", "error"}
           /\ walk = [shown |-> walk.shown, cursor |-> walk.cursor, loading |-> walk.loading,
                      status |-> walk.status]
           /\ fetches \in [1..MaxFetches -> Fetch] /\ DOMAIN fetches = 1..MaxFetches
           /\ RowNo \subseteq Nat \ {0} /\ Cursor \subseteq Nat /\ 0 \in Cursor
           /\ RowNo \subseteq Cursor
  <1>1. MaxSites \in Nat
    BY ListingAssumption
  <1>2. rows \in Seq(SiteRow) /\ Len(rows) <= MaxSites
    BY DEF ListingTypeOK, SiteRow
  <1>3. DOMAIN rows = 1..Len(rows) /\ Len(rows) \in Nat /\ DOMAIN rows \subseteq RowNo
    BY <1>1, <1>2 DEF RowNo
  <1>4. /\ walk.shown \in Seq(RowNo) /\ walk.cursor \in Cursor /\ walk.loading \in BOOLEAN
        /\ walk.status \in {"first", "shown", "error"}
        /\ walk = [shown |-> walk.shown, cursor |-> walk.cursor, loading |-> walk.loading,
                   status |-> walk.status]
    BY DEF ListingTypeOK
  <1>5. fetches \in [1..MaxFetches -> Fetch] /\ DOMAIN fetches = 1..MaxFetches
    BY DEF ListingTypeOK, Fetch
  <1> QED
    BY <1>1, <1>2, <1>3, <1>4, <1>5 DEF RowNo, Cursor, Live

\* An ascending sequence of row numbers repeats none, and is no longer than there
\* are rows.
LEMMA AscendingIsInjective ==
    ASSUME NEW ids \in Seq(RowNo), Ascending(ids)
    PROVE  IsInjective(ids) /\ Len(ids) <= MaxSites
  <1>1. Len(ids) \in Nat /\ DOMAIN ids = 1..Len(ids) /\ \A i \in DOMAIN ids : ids[i] \in RowNo
    OBVIOUS
  <1>2. \A i \in DOMAIN ids : i \in Nat /\ ids[i] \in Nat
    BY <1>1 DEF RowNo
  <1>3. IsInjective(ids)
    BY <1>2 DEF Ascending, IsInjective
  <1>4. ids \in Injection(1..Len(ids), RowNo)
    BY <1>1, <1>3 DEF Injection
  <1>5. IsFiniteSet(RowNo) /\ Cardinality(RowNo) = MaxSites
    <2>1. MaxSites \in Nat /\ 1 \in Int /\ MaxSites \in Int
      BY ListingAssumption
    <2>2. /\ IsFiniteSet(1..MaxSites)
          /\ Cardinality(1..MaxSites) = IF 1 > MaxSites THEN 0 ELSE MaxSites - 1 + 1
      BY <2>1, FS_Interval
    <2> QED
      BY <2>1, <2>2 DEF RowNo
  <1>6. Cardinality(1..Len(ids)) <= Cardinality(RowNo)
    BY <1>4, <1>5, FS_Injection
  <1>7. Cardinality(1..Len(ids)) = Len(ids)
    <2>1. 1 \in Int /\ Len(ids) \in Int
      BY <1>1
    <2>2. Cardinality(1..Len(ids)) = IF 1 > Len(ids) THEN 0 ELSE Len(ids) - 1 + 1
      BY <2>1, FS_Interval
    <2> QED
      BY <1>1, <2>2
  <1> QED
    BY <1>3, <1>5, <1>6, <1>7

\* The committed rows beyond a cursor.
Beyond(after) == {id \in Live : id > after}

LEMMA BeyondIs ==
    ASSUME Live \subseteq RowNo, NEW after
    PROVE  /\ Beyond(after) \subseteq Nat
           /\ \A id : id \in Beyond(after) <=> id \in Live /\ id > after
  <1>1. \A id \in Live : id \in Nat
    BY DEF RowNo
  <1> QED
    BY <1>1 DEF Beyond

\* What was selected, element by element.
LEMMA SelectedIs ==
    ASSUME NEW found \in Seq(RowNo), NEW after \in Cursor, Live \subseteq RowNo,
           Selected(found, after, PageSize + 1)
    PROVE  LET n == Len(found) IN
           /\ n \in Nat /\ DOMAIN found = 1..n
           /\ \A i \in 1..n : found[i] \in RowNo /\ found[i] \in Nat
           /\ \A i, j \in 1..n : i < j => found[i] < found[j]
           /\ \A i \in 1..n : found[i] \in Beyond(after)
           /\ \A id \in Beyond(after) : \/ \E i \in 1..n : found[i] = id
                                        \/ n = PageSize + 1 /\ found[n] < id
  <1>1. Len(found) \in Nat /\ DOMAIN found = 1..Len(found)
    OBVIOUS
  <1>2. \A i \in 1..Len(found) : found[i] \in RowNo
    OBVIOUS
  <1>3. \A i \in 1..Len(found) : found[i] \in Nat
    BY <1>2 DEF RowNo
  <1>4. \A i, j \in 1..Len(found) : i < j => found[i] < found[j]
    BY <1>1 DEF Selected
  <1>5. \A i \in 1..Len(found) : found[i] \in Beyond(after)
    <2>1. ToSet(found) \subseteq Beyond(after)
      BY DEF Selected, Beyond
    <2> QED
      BY <1>1, <2>1 DEF ToSet
  <1>6. ASSUME NEW id \in Beyond(after), ~ \E i \in 1..Len(found) : found[i] = id
        PROVE  Len(found) = PageSize + 1 /\ found[Len(found)] < id
    <2>1. id \notin ToSet(found)
      BY <1>1, <1>6 DEF ToSet
    <2>2. Len(found) = PageSize + 1 /\ Last(found) < id
      BY <2>1 DEF Selected, Beyond
    <2> QED
      BY <2>2 DEF Last
  <1> QED
    BY <1>1, <1>2, <1>3, <1>4, <1>5, <1>6

\* The page of what was selected: a prefix of it, and whole if it was all there is.
LEMMA PageOfSelected ==
    ASSUME NEW found \in Seq(RowNo), NEW after \in Cursor, Live \subseteq RowNo,
           Len(found) <= PageSize + 1, Selected(found, after, PageSize + 1),
           NEW data, NEW next,
           data = PageOf(found).data, next = PageOf(found).next
    PROVE  /\ data \in Seq(RowNo) /\ Ascending(data)
           /\ ToSet(data) \subseteq Beyond(after)
           /\ next \in Cursor
           /\ next = 0 => Beyond(after) \subseteq ToSet(data)
           /\ next # 0 =>
                 /\ data # <<>> /\ next = Last(data)
                 /\ next \in Beyond(after)
                 /\ \A id \in ToSet(data) : id <= next
                 /\ \A id \in Beyond(after) : id <= next => id \in ToSet(data)
           /\ data # <<>> => Last(data) \in RowNo
  <1>0. PageSize \in Nat \ {0} /\ PageSize \in Nat /\ PageSize > 0
    BY ListingAssumption
  <1>1. PICK n : n = Len(found)
    OBVIOUS
  <1>2. /\ n \in Nat /\ DOMAIN found = 1..n
        /\ \A i \in 1..n : found[i] \in RowNo /\ found[i] \in Nat
        /\ \A i, j \in 1..n : i < j => found[i] < found[j]
        /\ \A i \in 1..n : found[i] \in Beyond(after)
        /\ \A id \in Beyond(after) : \/ \E i \in 1..n : found[i] = id
                                     \/ n = PageSize + 1 /\ found[n] < id
    BY <1>1, SelectedIs
  <1>3. Beyond(after) \subseteq Nat
    BY BeyondIs
  <1>4. CASE ~ n > PageSize
    <2>1. PageOf(found) = [data |-> found, next |-> 0]
      BY <1>1, <1>4 DEF PageOf
    <2>2. data = found /\ next = 0
      BY <2>1
    <2>3. found # <<>> => Last(found) \in RowNo
      BY <1>1, <1>2 DEF Last
    <2>4. Ascending(found)
      BY <1>2 DEF Ascending
    <2>5. ToSet(found) \subseteq Beyond(after)
      BY <1>2 DEF ToSet
    <2>6. n # PageSize + 1
      BY <1>0, <1>2, <1>4
    <2>7. Beyond(after) \subseteq ToSet(found)
      BY <1>2, <2>6 DEF ToSet
    <2> QED
      BY <2>2, <2>3, <2>4, <2>5, <2>7 DEF Cursor
  <1>5. CASE n > PageSize
    <2>1. n = PageSize + 1 /\ PageSize \in 1..n /\ n \in 1..n
      BY <1>0, <1>1, <1>2, <1>5
    <2>2. PICK front : front = SubSeq(found, 1, PageSize)
      OBVIOUS
    <2>3. /\ front \in Seq(RowNo) /\ Len(front) = PageSize
          /\ \A i \in 1..PageSize : front[i] = found[i]
      <3>1. found \in Seq(RowNo) /\ 1 \in 1..(Len(found) + 1) /\ PageSize \in 0..Len(found)
        BY <1>0, <1>1, <1>2, <2>1
      <3>2. /\ front \in Seq(RowNo)
            /\ Len(front) = IF 1 <= PageSize THEN PageSize - 1 + 1 ELSE 0
            /\ \A i \in 1..(PageSize - 1 + 1) : front[i] = found[1 + i - 1]
        BY <2>2, <3>1, SubSeqProperties
      <3>3. PageSize - 1 + 1 = PageSize /\ \A i \in 1..PageSize : 1 + i - 1 = i
        BY <1>0
      <3> QED
        BY <1>0, <3>2, <3>3
    <2>4. DOMAIN front = 1..PageSize /\ front # <<>>
      BY <1>0, <2>3
    <2>5. Front(found) = front
      BY <1>0, <1>1, <2>1, <2>2 DEF Front
    <2>6. Last(front) = found[PageSize]
      BY <1>0, <2>3 DEF Last
    <2>7. PageOf(found) = [data |-> front, next |-> Last(front)]
      BY <1>1, <1>5, <2>5 DEF PageOf
    <2>8. data = front /\ next = found[PageSize] /\ next = Last(data)
      BY <2>6, <2>7
    <2>9. found[PageSize] \in Beyond(after) /\ found[PageSize] \in RowNo
      BY <1>2, <2>1
    <2>10. found[PageSize] < found[n] /\ found[PageSize] \in Nat /\ found[n] \in Nat
      <3>1. PageSize < n
        BY <1>0, <2>1
      <3> QED
        BY <1>2, <2>1, <3>1
    <2>11. Ascending(front)
      <3>1. \A i \in 1..PageSize : i \in 1..n
        BY <1>0, <2>1
      <3>2. \A i, j \in 1..PageSize : i < j => front[i] < front[j]
        BY <1>2, <2>3, <3>1
      <3> QED
        BY <2>4, <3>2 DEF Ascending
    <2>12. ASSUME NEW id \in ToSet(front) PROVE id \in Beyond(after) /\ id <= found[PageSize]
      <3>1. PICK i \in 1..PageSize : id = front[i]
        BY <2>4 DEF ToSet
      <3>2. i \in 1..n /\ id = found[i] /\ (i = PageSize \/ i < PageSize)
        BY <1>0, <2>1, <2>3, <3>1
      <3>3. found[i] <= found[PageSize]
        BY <1>2, <2>1, <2>10, <3>2
      <3> QED
        BY <1>2, <3>2, <3>3
    <2>13. ASSUME NEW id \in Beyond(after), id <= found[PageSize] PROVE id \in ToSet(front)
      <3>1. id \in Nat
        BY <1>3
      <3>2. ~ found[n] < id /\ id # found[n]
        BY <2>10, <2>13, <3>1
      <3>3. PICK i \in 1..n : found[i] = id
        BY <1>2, <3>2
      <3>4. i # n
        BY <3>2, <3>3
      <3>5. i \in 1..PageSize
        BY <1>0, <2>1, <3>3, <3>4
      <3> QED
        BY <2>3, <2>4, <3>3, <3>5 DEF ToSet
    <2>14. found[PageSize] # 0 /\ found[PageSize] \in Cursor
      BY <2>9 DEF RowNo, Cursor
    <2> QED
      BY <2>3, <2>4, <2>8, <2>9, <2>11, <2>12, <2>13, <2>14
  <1>6. n > PageSize \/ ~ n > PageSize
    OBVIOUS
  <1> QED
    BY <1>4, <1>5, <1>6

\* What the parts of the invariant say when the table loads nothing.
LEMMA NotLoading ==
    ASSUME OneFetch, ~ walk.loading
    PROVE  \A f \in DOMAIN fetches : fetches[f].pc = "free"
  BY DEF OneFetch

LEMMA FetchChanged ==
    ASSUME ListingTypeOK, NEW f \in DOMAIN fetches, NEW new \in Fetch,
           fetches' = [fetches EXCEPT ![f] = new]
    PROVE  /\ fetches' \in [1..MaxFetches -> Fetch] /\ DOMAIN fetches' = DOMAIN fetches
           /\ fetches'[f] = new /\ \A g \in DOMAIN fetches : g # f => fetches'[g] = fetches[g]
  <1>1. fetches \in [1..MaxFetches -> Fetch]
    BY ListingTyped
  <1> QED
    BY <1>1

\* The record of a GET, sent and read.
LEMMA FetchSent ==
    ASSUME NEW after \in Cursor
    PROVE  /\ [NoFetch EXCEPT !.pc = "sent", !.after = after]
                  = [pc |-> "sent", after |-> after, page |-> <<>>, next |-> 0]
           /\ [pc |-> "sent", after |-> after, page |-> <<>>, next |-> 0] \in Fetch
           /\ NoFetch \in Fetch
  <1>1. [NoFetch EXCEPT !.pc = "sent"] = [pc |-> "sent", after |-> 0, page |-> <<>>, next |-> 0]
    BY DEF NoFetch
  <1>2. PICK r : r = [pc |-> "sent", after |-> 0, page |-> <<>>, next |-> 0]
    OBVIOUS
  <1>3. [r EXCEPT !.after = after] = [pc |-> "sent", after |-> after, page |-> <<>>, next |-> 0]
    BY <1>2
  <1>4. <<>> \in Seq(RowNo) /\ 0 \in Cursor
    BY DEF Cursor
  <1> QED
    BY <1>1, <1>2, <1>3, <1>4 DEF Fetch, NoFetch

LEMMA FetchRead ==
    ASSUME NEW get \in Fetch, NEW data \in Seq(RowNo), NEW next \in Cursor
    PROVE  /\ [get EXCEPT !.pc = "read", !.page = data, !.next = next]
                  = [pc |-> "read", after |-> get.after, page |-> data, next |-> next]
           /\ [pc |-> "read", after |-> get.after, page |-> data, next |-> next] \in Fetch
  <1>1. /\ get = [pc |-> get.pc, after |-> get.after, page |-> get.page, next |-> get.next]
        /\ get.after \in Cursor
    BY DEF Fetch
  <1>2. [get EXCEPT !.pc = "read"]
            = [pc |-> "read", after |-> get.after, page |-> get.page, next |-> get.next]
    BY <1>1
  <1>3. PICK q : q = [pc |-> "read", after |-> get.after, page |-> get.page, next |-> get.next]
    OBVIOUS
  <1>4. [q EXCEPT !.page = data]
            = [pc |-> "read", after |-> get.after, page |-> data, next |-> get.next]
    BY <1>3
  <1>5. PICK r : r = [pc |-> "read", after |-> get.after, page |-> data, next |-> get.next]
    OBVIOUS
  <1>6. [r EXCEPT !.next = next]
            = [pc |-> "read", after |-> get.after, page |-> data, next |-> next]
    BY <1>5
  <1>7. [pc |-> "read", after |-> get.after, page |-> data, next |-> next] \in Fetch
    BY <1>1 DEF Fetch
  <1> QED
    BY <1>2, <1>3, <1>4, <1>5, <1>6, <1>7

\* A page is asked for, from the table's cursor.
LEMMA AskKeeps ==
    ASSUME ListingInv, ~ walk.loading, Ask(walk.cursor),
           NEW st \in {"first", "shown"}, st = "first" => walk.cursor = 0,
           walk.cursor = 0 => walk.shown = <<>>,
           walk' = [shown |-> walk.shown, cursor |-> walk.cursor, loading |-> TRUE,
                    status |-> st],
           UNCHANGED <<rows, high, passed, due>>
    PROVE  ListingInv'
  <1>t. ListingTypeOK /\ OneFetch /\ ShownToCursor /\ PagesGoOn /\ ListingIsExact
    BY DEF ListingInv
  <1>1. /\ walk.shown \in Seq(RowNo) /\ walk.cursor \in Cursor
        /\ 0 \in Cursor
    BY <1>t, ListingTyped
  <1>2. PICK f \in DOMAIN fetches :
            fetches' = [fetches EXCEPT ![f] = [NoFetch EXCEPT !.pc = "sent",
                                                              !.after = walk.cursor]]
    BY DEF Ask
  <1> DEFINE new == [pc |-> "sent", after |-> walk.cursor, page |-> <<>>, next |-> 0]
  <1>3. new \in Fetch /\ fetches' = [fetches EXCEPT ![f] = new]
    <2>1. /\ [NoFetch EXCEPT !.pc = "sent", !.after = walk.cursor] = new
          /\ new \in Fetch
      BY <1>1, FetchSent
    <2> QED
      BY <1>2, <2>1
  <1>4. new.pc = "sent" /\ new.after = walk.cursor
    OBVIOUS
  <1> HIDE DEF new
  <1>5. /\ fetches' \in [1..MaxFetches -> Fetch] /\ DOMAIN fetches' = DOMAIN fetches
        /\ fetches'[f] = new /\ \A g \in DOMAIN fetches : g # f => fetches'[g] = fetches[g]
    BY <1>t, <1>3, FetchChanged
  <1>6. \A g \in DOMAIN fetches : fetches[g].pc = "free"
    BY <1>t, NotLoading
  <1>7. \A g \in DOMAIN fetches' : fetches'[g].pc # "free" => g = f
    BY <1>5, <1>6
  <1>8. Live' = Live
    BY DEF Live
  <1>9. ListingTypeOK'
    <2>1. fetches' \in [1..MaxFetches -> [pc : {"free", "sent", "read"}, after : Cursor,
                                         page : Seq(RowNo), next : Cursor]]
      BY <1>5 DEF Fetch
    <2>2. /\ walk' \in [shown : Seq(RowNo), cursor : Cursor, loading : BOOLEAN,
                        status : {"first", "shown", "error"}]
          /\ walk'.shown = walk.shown
      BY <1>1
    <2> QED
      BY <1>t, <2>1, <2>2 DEF ListingTypeOK, Cursor, RowNo
  <1>10. OneFetch'
    BY <1>4, <1>5, <1>7 DEF OneFetch
  <1>11. ShownToCursor'
    BY <1>t, <1>8 DEF ShownToCursor, Ascending, ToSet
  <1>12. PagesGoOn'
    BY <1>4, <1>5, <1>7 DEF PagesGoOn
  <1>13. ListingIsExact'
    BY <1>t DEF ListingIsExact, IsInjective
  <1> QED
    BY <1>9, <1>10, <1>11, <1>12, <1>13 DEF ListingInv

LEMMA AsksKeep == ListingInv /\ (FirstPage \/ LoadMore) => ListingInv'
  <1> SUFFICES ASSUME ListingInv, FirstPage \/ LoadMore PROVE ListingInv'
    OBVIOUS
  <1>t. ListingTypeOK /\ ShownToCursor
    BY DEF ListingInv
  <1>1. walk = [shown |-> walk.shown, cursor |-> walk.cursor, loading |-> walk.loading,
                status |-> walk.status]
    BY <1>t, ListingTyped
  <1>2. CASE FirstPage
    <2>1. /\ walk.status = "first" /\ ~ walk.loading /\ Ask(0)
          /\ walk' = [walk EXCEPT !.loading = TRUE] /\ UNCHANGED <<rows, high, passed, due>>
      BY <1>2 DEF FirstPage
    <2>2. walk.cursor = 0 /\ walk.shown = <<>>
      BY <1>t, <2>1 DEF ShownToCursor
    <2>3. walk' = [shown |-> walk.shown, cursor |-> walk.cursor, loading |-> TRUE,
                   status |-> "first"]
      BY <1>1, <2>1
    <2> QED
      BY <2>1, <2>2, <2>3, AskKeeps
  <1>3. CASE LoadMore
    <2>1. /\ walk.cursor # 0 /\ ~ walk.loading /\ Ask(walk.cursor)
          /\ walk' = [walk EXCEPT !.loading = TRUE, !.status = "shown"]
          /\ UNCHANGED <<rows, high, passed, due>>
      BY <1>3 DEF LoadMore
    <2>2. walk' = [shown |-> walk.shown, cursor |-> walk.cursor, loading |-> TRUE,
                   status |-> "shown"]
      BY <1>1, <2>1
    <2> QED
      BY <2>1, <2>2, AskKeeps
  <1> QED
    BY <1>2, <1>3

\* What a page of the committed rows adds to what the table shows.
LEMMA ReadKeeps == ASSUME ListingInv, NEW f \in DOMAIN fetches, ListRead(f) PROVE ListingInv'
  <1>t. ListingTypeOK /\ OneFetch /\ ShownToCursor /\ PagesGoOn /\ ListingIsExact
    BY DEF ListingInv
  <1>1. /\ Live \subseteq RowNo /\ RowNo \subseteq Nat \ {0} /\ RowNo \subseteq Cursor
        /\ Cursor \subseteq Nat /\ 0 \in Cursor
        /\ walk.cursor \in Cursor /\ high \in Cursor
        /\ fetches \in [1..MaxFetches -> Fetch]
    BY <1>t, ListingTyped DEF ListingTypeOK
  <1>2. fetches[f].pc = "sent" /\ UNCHANGED <<rows, walk, passed>>
    BY DEF ListRead
  <1>3. /\ fetches[f] \in Fetch
        /\ fetches[f].after = walk.cursor /\ walk.loading
        /\ \A g \in DOMAIN fetches : fetches[g].pc # "free" => g = f
    BY <1>t, <1>1, <1>2 DEF OneFetch
  <1>l. PICK n \in 0..(PageSize + 1) : \E found \in [1..n -> RowNo] :
            /\ Selected(found, fetches[f].after, PageSize + 1)
            /\ fetches' = [fetches EXCEPT ![f] = [@ EXCEPT !.pc = "read",
                              !.page = PageOf(found).data, !.next = PageOf(found).next]]
            /\ high' = IF PageOf(found).data = <<>> \/ Last(PageOf(found).data) < high THEN high
                       ELSE Last(PageOf(found).data)
            /\ due' = IF PageOf(found).next = 0 THEN Live ELSE due
    BY DEF ListRead
  <1>4. PICK found \in [1..n -> RowNo] :
            /\ Selected(found, fetches[f].after, PageSize + 1)
            /\ fetches' = [fetches EXCEPT ![f] = [@ EXCEPT !.pc = "read",
                              !.page = PageOf(found).data, !.next = PageOf(found).next]]
            /\ high' = IF PageOf(found).data = <<>> \/ Last(PageOf(found).data) < high THEN high
                       ELSE Last(PageOf(found).data)
            /\ due' = IF PageOf(found).next = 0 THEN Live ELSE due
    BY <1>l
  <1>5. PICK data, next : data = PageOf(found).data /\ next = PageOf(found).next
    OBVIOUS
  <1>6. found \in Seq(RowNo) /\ Len(found) <= PageSize + 1
    <2>1. PageSize \in Nat /\ n \in Nat
      BY ListingAssumption
    <2>2. found \in Seq(RowNo) /\ Len(found) = n
      BY <2>1
    <2> QED
      BY <2>1, <2>2
  <1>7. /\ data \in Seq(RowNo) /\ Ascending(data)
        /\ ToSet(data) \subseteq Beyond(walk.cursor)
        /\ next \in Cursor
        /\ next = 0 => Beyond(walk.cursor) \subseteq ToSet(data)
        /\ next # 0 =>
              /\ data # <<>> /\ next = Last(data)
              /\ next \in Beyond(walk.cursor)
              /\ \A id \in ToSet(data) : id <= next
              /\ \A id \in Beyond(walk.cursor) : id <= next => id \in ToSet(data)
        /\ data # <<>> => Last(data) \in RowNo
    <2>1. Selected(found, walk.cursor, PageSize + 1)
      BY <1>3, <1>4
    <2> QED
      BY ZenonT(40), <1>1, <1>5, <1>6, <2>1, PageOfSelected
  <1>b. \A id : id \in Beyond(walk.cursor) <=> id \in Live /\ id > walk.cursor
    BY DEF Beyond
  <1> DEFINE new == [pc |-> "read", after |-> walk.cursor, page |-> data, next |-> next]
  <1>8. new \in Fetch /\ fetches' = [fetches EXCEPT ![f] = new]
    <2>1. /\ [fetches[f] EXCEPT !.pc = "read", !.page = data, !.next = next] = new
          /\ new \in Fetch
      BY ZenonT(40), <1>3, <1>7, FetchRead
    <2> QED
      BY <1>4, <1>5, <2>1
  <1>9. new.pc = "read" /\ new.after = walk.cursor /\ new.page = data /\ new.next = next
    OBVIOUS
  <1> HIDE DEF new
  <1>10. /\ fetches' \in [1..MaxFetches -> Fetch] /\ DOMAIN fetches' = DOMAIN fetches
         /\ fetches'[f] = new /\ \A g \in DOMAIN fetches : g # f => fetches'[g] = fetches[g]
    BY <1>t, <1>8, FetchChanged
  <1>11. \A g \in DOMAIN fetches' : fetches'[g].pc # "free" => g = f
    BY <1>3, <1>10
  <1>12. Live' = Live
    BY <1>2 DEF Live
  <1>13. high' = IF data = <<>> \/ Last(data) < high THEN high ELSE Last(data)
    BY <1>4, <1>5
  <1>14. high' \in Cursor /\ high <= high' /\ (next # 0 => next <= high')
    <2>1. CASE data = <<>>
      BY <1>1, <1>7, <1>13, <2>1
    <2>2. CASE data # <<>>
      <3>1. Last(data) \in RowNo /\ Last(data) \in Nat /\ high \in Nat
        BY <1>1, <1>7, <2>2
      <3> QED
        BY <1>1, <1>7, <1>13, <2>2, <3>1
    <2> QED
      BY <2>1, <2>2
  <1>15. due' = (IF next = 0 THEN Live ELSE due) /\ due' \subseteq RowNo
    BY <1>1, <1>4, <1>5, <1>t DEF ListingTypeOK
  <1>16. ListingTypeOK'
    <2>1. fetches' \in [1..MaxFetches -> [pc : {"free", "sent", "read"}, after : Cursor,
                                         page : Seq(RowNo), next : Cursor]]
      BY <1>10 DEF Fetch
    <2> QED
      BY <1>t, <1>2, <1>14, <1>15, <2>1 DEF ListingTypeOK, Cursor, RowNo
  <1>17. OneFetch'
    BY <1>2, <1>3, <1>9, <1>10, <1>11 DEF OneFetch
  <1>18. ShownToCursor'
    <2>1. walk.cursor \in Nat /\ high \in Nat /\ high' \in Nat
      BY <1>1, <1>14
    <2>2. walk.cursor # 0 => walk.cursor <= high'
      BY <1>t, <1>14, <2>1 DEF ShownToCursor
    <2> QED
      BY <1>t, <1>2, <1>12, <2>2 DEF ShownToCursor, Ascending, ToSet
  <1>19. PagesGoOn'
    <2>1. \A id \in Live : id \notin Beyond(walk.cursor) => id \in ToSet(walk.shown) \union passed
      <3> SUFFICES ASSUME NEW id \in Live, id \notin Beyond(walk.cursor)
                   PROVE  id \in ToSet(walk.shown) \union passed
        OBVIOUS
      <3>1. id \in Nat \ {0} /\ walk.cursor \in Nat
        BY <1>1
      <3>2. id <= walk.cursor /\ walk.cursor # 0
        BY <1>b, <3>1
      <3> QED
        BY <1>t, <3>2 DEF ShownToCursor
    <2>2. Ascending(data) /\ ToSet(data) \subseteq Live /\ \A id \in ToSet(data) : id > walk.cursor
      BY <1>7, <1>b
    <2>3. next = 0 => due' \ passed \subseteq ToSet(walk.shown) \union ToSet(data)
      BY <1>7, <1>15, <2>1
    <2>4. next # 0 =>
             /\ next \in Live /\ next <= high' /\ next > walk.cursor
             /\ \A id \in ToSet(data) : id <= next
             /\ \A id \in Live : walk.cursor < id /\ id <= next => id \in ToSet(data) \union passed
      <3>1. \A id \in Live : walk.cursor < id => id > walk.cursor
        BY <1>1
      <3> QED
        BY <1>7, <1>b, <1>14, <3>1
    <2>5. ASSUME NEW g \in DOMAIN fetches', fetches'[g].pc = "read"
          PROVE  /\ fetches'[g].page = data /\ fetches'[g].next = next
                 /\ fetches'[g].after = walk.cursor
      BY <1>9, <1>10, <1>11, <2>5
    <2>6. ToSet(walk.shown)' = ToSet(walk.shown)
      BY <1>2 DEF ToSet
    <2> QED
      BY <1>2, <1>12, <2>2, <2>3, <2>4, <2>5, <2>6 DEF PagesGoOn, Ascending, ToSet
  <1>20. ListingIsExact'
    BY <1>t, <1>2, <1>3 DEF ListingIsExact, IsInjective
  <1> QED
    BY <1>16, <1>17, <1>18, <1>19, <1>20 DEF ListingInv

\* A sequence that grows by one whose elements lie beyond it stays ascending.
LEMMA AscendingJoined ==
    ASSUME NEW a \in Seq(RowNo), NEW b \in Seq(RowNo), Ascending(a), Ascending(b),
           \A x \in ToSet(a), y \in ToSet(b) : x < y
    PROVE  /\ a \o b \in Seq(RowNo) /\ Ascending(a \o b)
           /\ ToSet(a \o b) = ToSet(a) \union ToSet(b)
  <1>1. /\ Len(a) \in Nat /\ Len(b) \in Nat /\ DOMAIN a = 1..Len(a) /\ DOMAIN b = 1..Len(b)
        /\ a \o b \in Seq(RowNo) /\ Len(a \o b) = Len(a) + Len(b)
    OBVIOUS
  <1>2. DOMAIN (a \o b) = 1..(Len(a) + Len(b))
    BY <1>1
  <1>3. \A i \in 1..Len(a) : (a \o b)[i] = a[i]
    BY <1>1
  <1>4. \A i \in 1..(Len(a) + Len(b)) : i > Len(a) => (a \o b)[i] = b[i - Len(a)]
    BY <1>1
  <1>r. RowNo \subseteq Nat
    BY DEF RowNo
  <1>5. \A i \in 1..Len(a) : a[i] \in ToSet(a) /\ a[i] \in Nat
    <2>1. \A i \in 1..Len(a) : a[i] \in RowNo
      BY <1>1
    <2> QED
      BY <1>1, <1>r, <2>1 DEF ToSet
  <1>6. \A i \in 1..Len(b) : b[i] \in ToSet(b) /\ b[i] \in Nat
    <2>1. \A i \in 1..Len(b) : b[i] \in RowNo
      BY <1>1
    <2> QED
      BY <1>1, <1>r, <2>1 DEF ToSet
  <1>7. Ascending(a \o b)
    <2> SUFFICES ASSUME NEW i \in 1..(Len(a) + Len(b)), NEW j \in 1..(Len(a) + Len(b)), i < j
                 PROVE  (a \o b)[i] < (a \o b)[j]
      BY <1>2 DEF Ascending
    <2>1. CASE j <= Len(a)
      <3>1. i \in 1..Len(a) /\ j \in 1..Len(a)
        BY <1>1, <2>1
      <3> QED
        BY <1>1, <1>3, <3>1 DEF Ascending
    <2>2. CASE i > Len(a)
      <3>1. i - Len(a) \in 1..Len(b) /\ j - Len(a) \in 1..Len(b) /\ i - Len(a) < j - Len(a)
            /\ j > Len(a)
        BY <1>1, <2>2
      <3>2. b[i - Len(a)] < b[j - Len(a)]
        BY <1>1, <3>1 DEF Ascending
      <3> QED
        BY <1>4, <2>2, <3>1, <3>2
    <2>3. CASE i <= Len(a) /\ j > Len(a)
      <3>1. i \in 1..Len(a) /\ j - Len(a) \in 1..Len(b)
        BY <1>1, <2>3
      <3>2. a[i] < b[j - Len(a)]
        BY <1>5, <1>6, <3>1
      <3> QED
        BY <1>3, <1>4, <2>3, <3>1, <3>2
    <2> QED
      BY <1>1, <2>1, <2>2, <2>3
  <1>8. ToSet(a \o b) = ToSet(a) \union ToSet(b)
    <2>1. ASSUME NEW x \in ToSet(a \o b) PROVE x \in ToSet(a) \union ToSet(b)
      <3>1. PICK i \in 1..(Len(a) + Len(b)) : x = (a \o b)[i]
        BY <1>2 DEF ToSet
      <3>2. CASE i <= Len(a)
        <4>1. i \in 1..Len(a)
          BY <1>1, <3>2
        <4> QED
          BY <1>3, <1>5, <3>1, <4>1
      <3>3. CASE i > Len(a)
        <4>1. i - Len(a) \in 1..Len(b)
          BY <1>1, <3>3
        <4> QED
          BY <1>4, <1>6, <3>1, <3>3, <4>1
      <3> QED
        BY <1>1, <3>2, <3>3
    <2>2. ASSUME NEW x \in ToSet(a) PROVE x \in ToSet(a \o b)
      <3>1. PICK i \in 1..Len(a) : x = a[i]
        BY <1>1, <2>2 DEF ToSet
      <3>2. i \in DOMAIN (a \o b) /\ x = (a \o b)[i]
        BY <1>1, <1>2, <1>3, <3>1
      <3> QED
        BY <3>2 DEF ToSet
    <2>3. ASSUME NEW x \in ToSet(b) PROVE x \in ToSet(a \o b)
      <3>1. PICK i \in 1..Len(b) : x = b[i]
        BY <1>1, <2>3 DEF ToSet
      <3>2. i + Len(a) \in 1..(Len(a) + Len(b)) /\ i + Len(a) > Len(a)
            /\ (i + Len(a)) - Len(a) = i
        BY <1>1
      <3>3. i + Len(a) \in DOMAIN (a \o b) /\ x = (a \o b)[i + Len(a)]
        BY <1>2, <1>4, <3>1, <3>2
      <3> QED
        BY <3>3 DEF ToSet
    <2> QED
      BY <2>1, <2>2, <2>3
  <1> QED
    BY <1>1, <1>7, <1>8

\* No page is on its way any more.
LEMMA FetchesFreed ==
    ASSUME ListingTypeOK, OneFetch, NEW f \in DOMAIN fetches, fetches[f].pc # "free",
           fetches' = [fetches EXCEPT ![f] = NoFetch]
    PROVE  /\ fetches' \in [1..MaxFetches -> Fetch]
           /\ \A g \in DOMAIN fetches' : fetches'[g].pc = "free"
  <1>1. 0 \in Cursor
    BY DEF Cursor
  <1>2. NoFetch \in Fetch /\ NoFetch.pc = "free"
    BY <1>1, FetchSent DEF NoFetch
  <1>3. /\ fetches' \in [1..MaxFetches -> Fetch] /\ DOMAIN fetches' = DOMAIN fetches
        /\ fetches'[f] = NoFetch /\ \A g \in DOMAIN fetches : g # f => fetches'[g] = fetches[g]
    BY <1>2, FetchChanged
  <1>4. \A g \in DOMAIN fetches : g # f => fetches[g].pc = "free"
    BY DEF OneFetch
  <1> QED
    BY <1>2, <1>3, <1>4

LEMMA ShownKeeps ==
    ASSUME ListingInv, NEW f \in DOMAIN fetches, PageShown(f)
    PROVE  ListingInv'
  <1>t. ListingTypeOK /\ OneFetch /\ ShownToCursor /\ PagesGoOn /\ ListingIsExact
    BY DEF ListingInv
  <1>1. /\ Live \subseteq RowNo /\ RowNo \subseteq Nat \ {0} /\ walk.cursor \in Cursor
        /\ walk.shown \in Seq(RowNo) /\ Cursor \subseteq Nat
        /\ fetches \in [1..MaxFetches -> Fetch]
        /\ walk = [shown |-> walk.shown, cursor |-> walk.cursor, loading |-> walk.loading,
                   status |-> walk.status]
    BY <1>t, ListingTyped
  <1>2. /\ fetches[f].pc = "read" /\ fetches' = [fetches EXCEPT ![f] = NoFetch]
        /\ walk' = [walk EXCEPT !.shown = @ \o fetches[f].page, !.cursor = fetches[f].next,
                                !.loading = FALSE, !.status = "shown"]
        /\ UNCHANGED <<rows, high, passed, due>>
    BY DEF PageShown
  <1>3. PICK page, next : page = fetches[f].page /\ next = fetches[f].next
    OBVIOUS
  <1>4. page \in Seq(RowNo) /\ next \in Cursor
    <2>1. fetches[f] \in Fetch
      BY <1>1
    <2> QED
      BY <1>3, <2>1 DEF Fetch
  <1>5. fetches[f].after = walk.cursor /\ walk.loading
    BY <1>t, <1>2 DEF OneFetch
  <1>6. /\ Ascending(page) /\ ToSet(page) \subseteq Live
        /\ \A id \in ToSet(page) : id > walk.cursor
        /\ next = 0 => due \ passed \subseteq ToSet(walk.shown) \union ToSet(page)
        /\ next # 0 =>
              /\ next \in Live /\ next <= high /\ next > walk.cursor
              /\ \A id \in ToSet(page) : id <= next
              /\ \A id \in Live : walk.cursor < id /\ id <= next => id \in ToSet(page) \union passed
    BY <1>t, <1>2, <1>3, <1>5 DEF PagesGoOn
  <1>7. walk' = [shown |-> walk.shown \o page, cursor |-> next, loading |-> FALSE,
                 status |-> "shown"]
    <2>1. PICK shown : shown = walk.shown \o page
      OBVIOUS
    <2>2. walk' = [walk EXCEPT !.shown = shown, !.cursor = next, !.loading = FALSE,
                               !.status = "shown"]
      BY <1>2, <1>3, <2>1
    <2>3. PICK w : w = [shown |-> shown, cursor |-> walk.cursor, loading |-> walk.loading,
                        status |-> walk.status]
      OBVIOUS
    <2>4. [walk EXCEPT !.shown = shown] = w
      BY <1>1, <2>3
    <2>5. PICK x : x = [shown |-> shown, cursor |-> next, loading |-> walk.loading,
                        status |-> walk.status]
      OBVIOUS
    <2>6. [w EXCEPT !.cursor = next] = x
      BY <2>3, <2>5
    <2>7. PICK no : no = FALSE
      OBVIOUS
    <2>8. PICK y : y = [shown |-> shown, cursor |-> next, loading |-> no,
                        status |-> walk.status]
      OBVIOUS
    <2>9. [x EXCEPT !.loading = no] = y
      BY <2>5, <2>8
    <2>10. [y EXCEPT !.status = "shown"]
               = [shown |-> shown, cursor |-> next, loading |-> no, status |-> "shown"]
      BY <2>8
    <2>11. walk' = [walk EXCEPT !.shown = shown, !.cursor = next, !.loading = no,
                                !.status = "shown"]
      BY <2>2, <2>7
    <2>12. walk' = [shown |-> shown, cursor |-> next, loading |-> no, status |-> "shown"]
      BY <2>4, <2>6, <2>9, <2>10, <2>11
    <2> QED
      BY <2>1, <2>7, <2>12
  <1>8. /\ Ascending(walk.shown) /\ ToSet(walk.shown) \subseteq Live
        /\ walk.cursor = 0 => walk.shown = <<>>
        /\ walk.cursor # 0 =>
              /\ \A id \in ToSet(walk.shown) : id <= walk.cursor
              /\ \A id \in Live : id <= walk.cursor => id \in ToSet(walk.shown) \union passed
    BY <1>t, <1>5 DEF ShownToCursor
  <1>9. \A x \in ToSet(walk.shown), y \in ToSet(page) : x < y
    <2> SUFFICES ASSUME NEW x \in ToSet(walk.shown), NEW y \in ToSet(page) PROVE x < y
      OBVIOUS
    <2>1. walk.cursor # 0
      BY <1>8 DEF ToSet
    <2>2. x <= walk.cursor /\ y > walk.cursor /\ x \in Nat /\ y \in Nat /\ walk.cursor \in Nat
      BY <1>1, <1>6, <1>8, <2>1
    <2> QED
      BY <2>2
  <1>10. /\ walk.shown \o page \in Seq(RowNo) /\ Ascending(walk.shown \o page)
         /\ ToSet(walk.shown \o page) = ToSet(walk.shown) \union ToSet(page)
    BY <1>1, <1>4, <1>6, <1>8, <1>9, AscendingJoined
  <1>11. /\ IsInjective(walk.shown \o page) /\ Len(walk.shown \o page) <= MaxSites
    BY <1>10, AscendingIsInjective
  <1>12. PICK shown : /\ shown = walk.shown \o page
                      /\ walk' = [shown |-> shown, cursor |-> next, loading |-> FALSE,
                                  status |-> "shown"]
                      /\ shown \in Seq(RowNo) /\ Ascending(shown)
                      /\ ToSet(shown) = ToSet(walk.shown) \union ToSet(page)
                      /\ IsInjective(shown) /\ Len(shown) <= MaxSites
    BY <1>7, <1>10, <1>11
  <1>13. /\ walk'.shown = shown /\ walk'.cursor = next /\ ~ walk'.loading
         /\ walk'.status = "shown"
    BY <1>12
  <1>14. /\ fetches' \in [1..MaxFetches -> Fetch]
         /\ \A g \in DOMAIN fetches' : fetches'[g].pc = "free"
    BY <1>t, <1>2, FetchesFreed
  <1>15. Live' = Live
    BY <1>2 DEF Live
  <1>16. ListingTypeOK'
    <2>1. fetches' \in [1..MaxFetches -> [pc : {"free", "sent", "read"}, after : Cursor,
                                         page : Seq(RowNo), next : Cursor]]
      BY <1>14 DEF Fetch
    <2>2. walk' \in [shown : Seq(RowNo), cursor : Cursor, loading : BOOLEAN,
                     status : {"first", "shown", "error"}]
      BY <1>4, <1>12
    <2>3. Len(walk'.shown) <= MaxSites
      BY <1>12, <1>13
    <2> QED
      BY <1>t, <1>2, <2>1, <2>2, <2>3 DEF ListingTypeOK, Cursor, RowNo
  <1>17. OneFetch'
    BY <1>14 DEF OneFetch
  <1>18. /\ ToSet(shown) \subseteq Live
         /\ next # 0 =>
               /\ \A id \in ToSet(shown) : id <= next
               /\ \A id \in Live : id <= next => id \in ToSet(shown) \union passed
    <2>1. ToSet(shown) \subseteq Live
      BY <1>6, <1>8, <1>12
    <2>2. ASSUME next # 0, NEW id \in ToSet(shown) PROVE id <= next
      <3>1. CASE id \in ToSet(page)
        BY <1>6, <2>2, <3>1
      <3>2. CASE id \in ToSet(walk.shown)
        <4>1. walk.cursor # 0
          BY <1>8, <3>2 DEF ToSet
        <4>2. id <= walk.cursor /\ next > walk.cursor
          BY <1>6, <1>8, <2>2, <3>2, <4>1
        <4>3. id \in Nat /\ walk.cursor \in Nat /\ next \in Nat
          BY <1>1, <1>4, <2>1
        <4> QED
          BY <4>2, <4>3
      <3> QED
        BY <1>12, <2>2, <3>1, <3>2
    <2>3. ASSUME next # 0, NEW id \in Live, id <= next PROVE id \in ToSet(shown) \union passed
      <3>1. id \in Nat \ {0} /\ walk.cursor \in Nat
        BY <1>1
      <3>2. CASE walk.cursor < id
        BY <1>6, <1>12, <2>3, <3>2
      <3>3. CASE ~ walk.cursor < id
        <4>1. walk.cursor # 0 /\ id <= walk.cursor
          BY <3>1, <3>3
        <4> QED
          BY <1>8, <1>12, <4>1
      <3> QED
        BY <3>2, <3>3
    <2> QED
      BY <2>1, <2>2, <2>3
  <1>19. ShownToCursor'
    <2>1. ToSet(shown)' = ToSet(shown) /\ Ascending(shown)' = Ascending(shown)
      BY DEF ToSet, Ascending
    <2> QED
      BY <1>2, <1>6, <1>12, <1>13, <1>15, <1>18 DEF ShownToCursor
  <1>20. PagesGoOn'
    BY <1>14 DEF PagesGoOn
  <1>21. ListingIsExact'
    BY <1>2, <1>6, <1>12, <1>13 DEF ListingIsExact
  <1> QED
    BY <1>16, <1>17, <1>19, <1>20, <1>21 DEF ListingInv

LEMMA FailsKeeps ==
    ASSUME ListingInv, NEW f \in DOMAIN fetches, PageFails(f)
    PROVE  ListingInv'
  <1>t. ListingTypeOK /\ OneFetch /\ ShownToCursor /\ PagesGoOn /\ ListingIsExact
    BY DEF ListingInv
  <1>1. /\ fetches[f].pc # "free" /\ fetches' = [fetches EXCEPT ![f] = NoFetch]
        /\ walk' = [walk EXCEPT !.loading = FALSE, !.status = "error"]
        /\ UNCHANGED <<rows, high, passed, due>>
    BY DEF PageFails
  <1>2. /\ walk.shown \in Seq(RowNo) /\ walk.cursor \in Cursor
        /\ walk = [shown |-> walk.shown, cursor |-> walk.cursor, loading |-> walk.loading,
                   status |-> walk.status]
    BY <1>t, ListingTyped
  <1>3. walk.loading
    BY <1>t, <1>1 DEF OneFetch
  <1>4. walk' = [shown |-> walk.shown, cursor |-> walk.cursor, loading |-> FALSE,
                 status |-> "error"]
    BY <1>1, <1>2
  <1>5. /\ fetches' \in [1..MaxFetches -> Fetch]
        /\ \A g \in DOMAIN fetches' : fetches'[g].pc = "free"
    BY <1>t, <1>1, FetchesFreed
  <1>6. Live' = Live
    BY <1>1 DEF Live
  <1>7. ListingTypeOK'
    <2>1. fetches' \in [1..MaxFetches -> [pc : {"free", "sent", "read"}, after : Cursor,
                                         page : Seq(RowNo), next : Cursor]]
      BY <1>5 DEF Fetch
    <2>2. /\ walk' \in [shown : Seq(RowNo), cursor : Cursor, loading : BOOLEAN,
                        status : {"first", "shown", "error"}]
          /\ walk'.shown = walk.shown
      BY <1>2, <1>4
    <2> QED
      BY <1>t, <1>1, <2>1, <2>2 DEF ListingTypeOK, Cursor, RowNo
  <1>8. OneFetch' /\ PagesGoOn'
    BY <1>5 DEF OneFetch, PagesGoOn
  <1>9. ShownToCursor'
    BY <1>t, <1>1, <1>3, <1>4, <1>6 DEF ShownToCursor, Ascending, ToSet
  <1>10. ListingIsExact'
    BY <1>t, <1>4 DEF ListingIsExact, IsInjective
  <1> QED
    BY <1>7, <1>8, <1>9, <1>10 DEF ListingInv

\* A walk that has not begun.
LEMMA WalkBegins ==
    ASSUME rows' \in Seq(SiteRow), Len(rows') <= MaxSites, walk' = NoWalk,
           fetches' = [f \in 1..MaxFetches |-> NoFetch], high' = 0, passed' = {}, due' = {}
    PROVE  ListingInv'
  <1>1. 0 \in Cursor /\ <<>> \in Seq(RowNo) /\ MaxSites \in Nat /\ Len(<<>>) = 0
    BY ListingAssumption DEF Cursor
  <1>2. NoFetch \in Fetch /\ NoFetch.pc = "free"
    BY <1>1, FetchSent DEF NoFetch
  <1>3. /\ fetches' \in [1..MaxFetches -> Fetch]
        /\ \A f \in DOMAIN fetches' : fetches'[f].pc = "free"
    BY <1>2
  <1>4. /\ walk'.shown = <<>> /\ walk'.cursor = 0 /\ ~ walk'.loading /\ walk'.status = "first"
        /\ walk' \in [shown : Seq(RowNo), cursor : Cursor, loading : BOOLEAN,
                      status : {"first", "shown", "error"}]
    BY <1>1 DEF NoWalk
  <1>5. ListingTypeOK'
    <2>1. fetches' \in [1..MaxFetches -> [pc : {"free", "sent", "read"}, after : Cursor,
                                         page : Seq(RowNo), next : Cursor]]
      BY <1>3 DEF Fetch
    <2> QED
      BY <1>1, <1>4, <2>1 DEF ListingTypeOK, Cursor, RowNo, SiteRow
  <1>6. OneFetch' /\ PagesGoOn'
    BY <1>3 DEF OneFetch, PagesGoOn
  <1>7. ShownToCursor'
    BY <1>4 DEF ShownToCursor, Ascending, ToSet
  <1>8. ListingIsExact'
    BY <1>4 DEF ListingIsExact, IsInjective
  <1> QED
    BY <1>5, <1>6, <1>7, <1>8 DEF ListingInv

\* The table of sites changes: what becomes visible behind the walk is passed.
LEMMA RowsGrow ==
    ASSUME ListingInv, UNCHANGED <<walk, fetches, high, due>>,
           rows' \in Seq(SiteRow), Len(rows') <= MaxSites, Live \subseteq Live',
           passed \subseteq passed', passed' \subseteq RowNo,
           \A id \in Live' \ Live : id < high => id \in passed'
    PROVE  ListingInv'
  <1>t. ListingTypeOK /\ OneFetch /\ ShownToCursor /\ PagesGoOn /\ ListingIsExact
    BY DEF ListingInv
  <1>1. /\ walk.cursor \in Cursor /\ Cursor \subseteq Nat /\ high \in Cursor
        /\ fetches \in [1..MaxFetches -> Fetch]
    BY <1>t, ListingTyped DEF ListingTypeOK
  <1>2. \A id \in Live' : id \in Nat
    <2>1. Live' \subseteq DOMAIN rows' /\ DOMAIN rows' = 1..Len(rows') /\ Len(rows') \in Nat
      BY DEF Live
    <2> QED
      BY <2>1
  <1>3. \A last \in Live : last <= high =>
            \A id \in Live' : id <= last => id \in Live \/ id \in passed'
    <2> SUFFICES ASSUME NEW last \in Live, last <= high, NEW id \in Live', id <= last,
                        id \notin Live
                 PROVE  id \in passed'
      OBVIOUS
    <2>1. id \in Nat /\ last \in Nat /\ high \in Nat /\ id # last
      BY <1>1, <1>2
    <2> QED
      BY <2>1
  <1>4. ListingTypeOK'
    BY <1>t DEF ListingTypeOK, SiteRow, Cursor, RowNo
  <1>5. OneFetch'
    BY <1>t DEF OneFetch
  <1>6. ShownToCursor'
    <2>1. ASSUME walk.cursor # 0
          PROVE  /\ walk.cursor \in Live' /\ walk.cursor <= high
                 /\ \A id \in ToSet(walk.shown) : id <= walk.cursor
                 /\ \A id \in Live' : id <= walk.cursor =>
                       id \in ToSet(walk.shown) \union passed'
      <3>1. /\ walk.cursor \in Live /\ walk.cursor <= high
            /\ \A id \in ToSet(walk.shown) : id <= walk.cursor
            /\ \A id \in Live : id <= walk.cursor => id \in ToSet(walk.shown) \union passed
        BY <1>t, <2>1 DEF ShownToCursor
      <3> QED
        BY <1>3, <3>1
    <2>2. /\ Ascending(walk.shown) /\ ToSet(walk.shown) \subseteq Live'
          /\ walk.cursor = 0 => walk.shown = <<>> \/ (walk.status = "shown" /\ ~ walk.loading)
          /\ walk.status = "first" => walk.cursor = 0
      BY <1>t DEF ShownToCursor
    <2>3. walk' = walk /\ high' = high
      OBVIOUS
    <2> QED
      BY <2>1, <2>2, <2>3 DEF ShownToCursor, Ascending, ToSet
  <1>7. PagesGoOn'
    <2> SUFFICES ASSUME NEW f \in DOMAIN fetches, fetches[f].pc = "read"
                 PROVE  /\ Ascending(fetches[f].page) /\ ToSet(fetches[f].page) \subseteq Live'
                        /\ \A id \in ToSet(fetches[f].page) : id > fetches[f].after
                        /\ fetches[f].next = 0 =>
                              due \ passed' \subseteq ToSet(walk.shown) \union ToSet(fetches[f].page)
                        /\ fetches[f].next # 0 =>
                              /\ fetches[f].next \in Live' /\ fetches[f].next <= high
                              /\ fetches[f].next > fetches[f].after
                              /\ \A id \in ToSet(fetches[f].page) : id <= fetches[f].next
                              /\ \A id \in Live' :
                                    fetches[f].after < id /\ id <= fetches[f].next =>
                                        id \in ToSet(fetches[f].page) \union passed'
      BY DEF PagesGoOn, Ascending, ToSet
    <2>1. /\ Ascending(fetches[f].page) /\ ToSet(fetches[f].page) \subseteq Live
          /\ \A id \in ToSet(fetches[f].page) : id > fetches[f].after
          /\ fetches[f].next = 0 =>
                due \ passed \subseteq ToSet(walk.shown) \union ToSet(fetches[f].page)
          /\ fetches[f].next # 0 =>
                /\ fetches[f].next \in Live /\ fetches[f].next <= high
                /\ fetches[f].next > fetches[f].after
                /\ \A id \in ToSet(fetches[f].page) : id <= fetches[f].next
                /\ \A id \in Live : fetches[f].after < id /\ id <= fetches[f].next =>
                      id \in ToSet(fetches[f].page) \union passed
      BY <1>t DEF PagesGoOn
    <2>2. fetches[f].next # 0 =>
             \A id \in Live' : id <= fetches[f].next => id \in Live \/ id \in passed'
      BY <1>3, <2>1
    <2> QED
      BY <2>1, <2>2
  <1>8. ListingIsExact'
    BY <1>t DEF ListingIsExact, IsInjective, ToSet
  <1> QED
    BY <1>4, <1>5, <1>6, <1>7, <1>8 DEF ListingInv

LEMMA ListingInvNext == ListingInv /\ (ListingNext \/ UNCHANGED listingVars) => ListingInv'
  <1> SUFFICES ASSUME ListingInv, ListingNext \/ UNCHANGED listingVars PROVE ListingInv'
    OBVIOUS
  <1>t. ListingTypeOK
    BY DEF ListingInv
  <1>1. rows \in Seq(SiteRow) /\ Len(rows) <= MaxSites /\ DOMAIN fetches = 1..MaxFetches
    BY <1>t, ListingTyped
  <1>2. CASE FirstPage \/ LoadMore
    BY <1>2, AsksKeep
  <1>3. CASE OpenDashboard
    BY <1>1, <1>3, WalkBegins DEF OpenDashboard
  <1>4. ASSUME NEW f \in DOMAIN fetches, ListRead(f) \/ PageShown(f) \/ PageFails(f)
        PROVE  ListingInv'
    BY <1>4, ReadKeeps, ShownKeeps, FailsKeeps
  <1>5. CASE UNCHANGED listingVars
    BY <1>5 DEF listingVars, ListingInv, ListingTypeOK, OneFetch, ShownToCursor, PagesGoOn,
       ListingIsExact, Live
  <1> QED
    BY <1>2, <1>3, <1>4, <1>5 DEF ListingNext

-----------------------------------------------------------------------------
(* The steps of the form that creates sites.                               *)

Post == [slug : Slugs, row : {0} \union RowNo, awaited : BOOLEAN,
         server : {"sent", "open"} \union Outcomes]

\* What the form makes of an answer: only a 2xx reads as created, and only a
\* conflict as one.
LEMMA ToldIs ==
    ASSUME NEW outcome, NEW fate \in Fates,
           outcome \in {"done", "conflict", "zod", "unknown"} \/ fate = "lost"
    PROVE  /\ Told(outcome, fate) \in Answers
           /\ Told(outcome, fate) = "created" => outcome = "done"
           /\ Told(outcome, fate) = "CONFLICT" => outcome = "conflict"
  <1>1. CASE fate \in {"lost", "garbled"}
    <2>1. Result(outcome, fate) = "retryable"
      BY <1>1 DEF Result, Retryable
    <2> QED
      BY <2>1 DEF Told, Answers
  <1>2. ASSUME fate \in {"whole", "misshapen"}, outcome = "done"
        PROVE  Told(outcome, fate) \in {"created", "INTERNAL"}
    <2>1. Status(outcome) = 200
      BY <1>2 DEF Status
    <2>2. Result(outcome, fate) = IF fate = "whole" THEN "data" ELSE "refused"
      BY <1>2, <2>1 DEF Result, Retryable
    <2> QED
      BY <1>2, <2>2 DEF Told
  <1>3. ASSUME fate \in {"whole", "misshapen"}, outcome = "zod"
        PROVE  Told(outcome, fate) \in {"fields", "INTERNAL"}
    <2>1. Status(outcome) = 400
      BY <1>3 DEF Status
    <2>2. Result(outcome, fate) = "refused"
      BY <1>3, <2>1 DEF Result, Retryable
    <2> QED
      BY <1>3, <2>2 DEF Told
  <1>4. ASSUME fate \in {"whole", "misshapen"}, outcome = "conflict"
        PROVE  Told(outcome, fate) \in {"CONFLICT", "INTERNAL"}
    <2>1. Status(outcome) = 409 /\ ErrorCode(409) = "CONFLICT"
      BY <1>4 DEF Status, ErrorCode
    <2>2. Result(outcome, fate) = "refused"
      BY <1>4, <2>1 DEF Result, Retryable
    <2> QED
      BY <1>4, <2>1, <2>2 DEF Told
  <1>5. ASSUME fate \in {"whole", "misshapen"}, outcome = "unknown"
        PROVE  Told(outcome, fate) = "try again"
    <2>1. Status(outcome) = 500
      BY <1>5 DEF Status
    <2>2. Result(outcome, fate) = "retryable"
      BY <1>5, <2>1 DEF Result, Retryable
    <2> QED
      BY <1>5, <2>2 DEF Told
  <1> QED
    BY <1>1, <1>2, <1>3, <1>4, <1>5 DEF Fates, Answers

LEMMA CreateTyped ==
    ASSUME CreateTypeOK
    PROVE  /\ posts \in Seq(Post) /\ Len(posts) \in Nat /\ DOMAIN posts = 1..Len(posts)
           /\ Len(posts) <= MaxCreates
           /\ creating \in [submitting : BOOLEAN, says : Answers, slug : Slugs \union {"none"}]
           /\ \A p \in DOMAIN posts : posts[p] \in Post
  <1>1. posts \in Seq(Post)
    BY DEF CreateTypeOK, Post
  <1>2. /\ Len(posts) \in Nat /\ DOMAIN posts = 1..Len(posts)
        /\ \A p \in DOMAIN posts : posts[p] \in Post
    BY <1>1
  <1> QED
    BY <1>1, <1>2 DEF CreateTypeOK

\* A request changes: the others stay.
LEMMA PostChanged ==
    ASSUME posts \in Seq(Post), NEW p \in DOMAIN posts, NEW new \in Post,
           posts' = [posts EXCEPT ![p] = new]
    PROVE  /\ posts' \in Seq(Post) /\ Len(posts') = Len(posts) /\ DOMAIN posts' = DOMAIN posts
           /\ posts'[p] = new /\ \A q \in DOMAIN posts : q # p => posts'[q] = posts[q]
  OBVIOUS

LEMMA PostEnded ==
    ASSUME CreateTypeOK, NEW p \in DOMAIN posts, NEW outcome \in Outcomes, PostEnds(p, outcome)
    PROVE  /\ creating' = creating => CreateTypeOK'
           /\ posts' \in Seq(Post) /\ Len(posts') = Len(posts) /\ DOMAIN posts' = DOMAIN posts
           /\ \A q \in DOMAIN posts :
                 /\ posts'[q].slug = posts[q].slug /\ posts'[q].row = posts[q].row
                 /\ posts'[q].awaited = posts[q].awaited
                 /\ posts'[q].server = IF q = p THEN outcome ELSE posts[q].server
  <1> DEFINE new == [posts[p] EXCEPT !.server = outcome]
  <1>1. posts' = [posts EXCEPT ![p] = new]
    BY DEF PostEnds
  <1>2. posts \in Seq(Post) /\ Len(posts) <= MaxCreates /\ posts[p] \in Post
    BY CreateTyped
  <1>3. /\ new \in Post /\ new.slug = posts[p].slug /\ new.row = posts[p].row
        /\ new.awaited = posts[p].awaited /\ new.server = outcome
    BY <1>2 DEF Post
  <1> HIDE DEF new
  <1>4. /\ posts' \in Seq(Post) /\ Len(posts') = Len(posts) /\ DOMAIN posts' = DOMAIN posts
        /\ posts'[p] = new /\ \A q \in DOMAIN posts : q # p => posts'[q] = posts[q]
    BY <1>1, <1>2, <1>3, PostChanged
  <1>5. creating' = creating => CreateTypeOK'
    BY <1>2, <1>4 DEF CreateTypeOK, Post, RowNo
  <1> QED
    BY <1>3, <1>4, <1>5

\* What was true of the rows and the requests stays true for the form.
LEMMA TruthKept ==
    ASSUME FormTellsTheTruth, creating' = creating, Live \subseteq Live',
           \A slug : Taken(slug, "live") => Taken(slug, "live")',
           DOMAIN posts \subseteq DOMAIN posts',
           \A p \in DOMAIN posts :
              /\ posts'[p].slug = posts[p].slug
              /\ posts[p].row \in Live => posts'[p].row = posts[p].row
    PROVE  FormTellsTheTruth'
  BY DEF FormTellsTheTruth

\* An INSERT and the end of its transaction, in the table.
LEMMA RowInserted ==
    ASSUME ListingTypeOK, NEW slug \in Slugs, InsertSite(slug)
    PROVE  /\ rows' \in Seq(SiteRow) /\ Len(rows') <= MaxSites /\ Live' = Live
           /\ Len(rows) + 1 \in DOMAIN rows' /\ Len(rows) + 1 \in RowNo
           /\ Len(rows) + 1 \notin DOMAIN rows
           /\ rows'[Len(rows) + 1].state = "open"
           /\ \A id \in DOMAIN rows : id \in DOMAIN rows' /\ rows'[id] = rows[id]
  <1>1. /\ rows \in Seq(SiteRow) /\ Len(rows) \in Nat /\ DOMAIN rows = 1..Len(rows)
        /\ MaxSites \in Nat
    BY ListingTyped, ListingAssumption
  <1> DEFINE new == [slug |-> slug, state |-> "open"]
  <1>2. new \in SiteRow /\ new.state = "open"
    BY DEF SiteRow
  <1>3. Len(rows) < MaxSites /\ rows' = Append(rows, new)
    BY DEF InsertSite
  <1> HIDE DEF new
  <1>4. /\ rows' \in Seq(SiteRow) /\ Len(rows') = Len(rows) + 1
        /\ DOMAIN rows' = 1..(Len(rows) + 1)
        /\ rows'[Len(rows) + 1] = new /\ \A id \in 1..Len(rows) : rows'[id] = rows[id]
    BY <1>1, <1>2, <1>3
  <1>5. Live' = Live
    BY <1>1, <1>2, <1>4 DEF Live
  <1> QED
    BY <1>1, <1>2, <1>3, <1>4, <1>5 DEF RowNo

LEMMA RowSettled ==
    ASSUME ListingTypeOK, NEW id \in DOMAIN rows, rows[id].state = "open",
           NEW st \in {"live", "gone"}, rows' = [rows EXCEPT ![id].state = st]
    PROVE  /\ rows' \in Seq(SiteRow) /\ Len(rows') <= MaxSites /\ DOMAIN rows' = DOMAIN rows
           /\ Live' = IF st = "live" THEN Live \union {id} ELSE Live
           /\ \A slug : Taken(slug, "live") => Taken(slug, "live")'
           /\ \A j \in DOMAIN rows : j # id => rows'[j] = rows[j]
  <1>1. /\ rows \in Seq(SiteRow) /\ Len(rows) <= MaxSites /\ rows[id] \in SiteRow
    BY ListingTyped
  <1> DEFINE new == [rows[id] EXCEPT !.state = st]
  <1>2. new \in SiteRow /\ new.state = st
    BY <1>1 DEF SiteRow
  <1>3. rows' = [rows EXCEPT ![id] = new]
    OBVIOUS
  <1> HIDE DEF new
  <1>4. /\ rows' \in Seq(SiteRow) /\ Len(rows') = Len(rows) /\ DOMAIN rows' = DOMAIN rows
        /\ rows'[id] = new /\ \A j \in DOMAIN rows : j # id => rows'[j] = rows[j]
    BY <1>1, <1>2, <1>3
  <1>5. Live' = IF st = "live" THEN Live \union {id} ELSE Live
    <2>1. CASE st = "live"
      BY <1>2, <1>4, <2>1 DEF Live
    <2>2. CASE st = "gone"
      BY <1>2, <1>4, <2>2 DEF Live
    <2> QED
      BY <2>1, <2>2
  <1>6. ASSUME NEW slug, Taken(slug, "live") PROVE Taken(slug, "live")'
    <2>1. PICK j \in DOMAIN rows : rows[j] = [slug |-> slug, state |-> "live"]
      BY <1>6 DEF Taken
    <2>2. j # id
      BY <2>1
    <2> QED
      BY <1>4, <2>1, <2>2 DEF Taken
  <1> QED
    BY <1>1, <1>4, <1>5, <1>6

\* A step that leaves the rows alone.
LEMMA SubmitKeeps == ASSUME CreateInv, NEW slug \in Slugs, SubmitSite(slug) PROVE CreateInv'
  <1>t. CreateTypeOK /\ OnePost /\ PostsKnow /\ FormTellsTheTruth
    BY DEF CreateInv
  <1>1. /\ posts \in Seq(Post) /\ Len(posts) \in Nat /\ DOMAIN posts = 1..Len(posts)
    BY <1>t, CreateTyped
  <1> DEFINE new == [slug |-> slug, row |-> 0, awaited |-> TRUE, server |-> "sent"]
  <1>2. /\ ~ creating.submitting /\ Len(posts) < MaxCreates
        /\ creating' = [submitting |-> TRUE, says |-> "none", slug |-> slug]
        /\ posts' = Append(posts, new) /\ rows' = rows
    BY DEF SubmitSite, listingVars
  <1>3. /\ new \in Post /\ new.slug = slug /\ new.row = 0 /\ new.server = "sent"
    BY DEF Post
  <1> HIDE DEF new
  <1>4. /\ posts' \in Seq(Post) /\ Len(posts') = Len(posts) + 1
        /\ DOMAIN posts' = 1..(Len(posts) + 1)
        /\ posts'[Len(posts) + 1] = new /\ \A q \in 1..Len(posts) : posts'[q] = posts[q]
    BY <1>1, <1>2, <1>3
  <1>5. /\ DOMAIN posts' = DOMAIN posts \union {Len(posts) + 1}
        /\ Len(posts) + 1 \notin DOMAIN posts
    BY <1>1, <1>4
  <1>6. Live' = Live /\ \A s : Taken(s, "live") => Taken(s, "live")'
    BY <1>2 DEF Live, Taken
  <1>7. CreateTypeOK'
    <2>1. creating' \in [submitting : BOOLEAN, says : Answers, slug : Slugs \union {"none"}]
      BY <1>2 DEF Answers
    <2>2. Len(posts') <= MaxCreates
      BY <1>1, <1>2, <1>4, CreateAssumption
    <2> QED
      BY <1>4, <2>1, <2>2 DEF CreateTypeOK, Post, RowNo
  <1>8. OnePost'
    <2>1. \A q \in DOMAIN posts : ~ posts[q].awaited
      BY <1>t, <1>2 DEF OnePost
    <2>2. \A q \in DOMAIN posts' : posts'[q].awaited => q = Len(posts) + 1
      BY <1>1, <1>4, <1>5, <2>1
    <2> QED
      BY <1>2, <1>3, <1>4, <2>2 DEF OnePost
  <1>9. PostsKnow'
    <2>1. \A q \in DOMAIN posts : posts'[q] = posts[q]
      BY <1>1, <1>4
    <2> QED
      BY <1>t, <1>2, <1>3, <1>4, <1>5, <1>6, <2>1 DEF PostsKnow
  <1>10. FormTellsTheTruth'
    BY <1>2 DEF FormTellsTheTruth
  <1> QED
    BY <1>7, <1>8, <1>9, <1>10 DEF CreateInv

\* The form is filled in anew, or told to its user that it cannot be sent.
LEMMA EmptiedKeeps == CreateInv /\ (SubmitInvalidSite \/ LeaveForm) => CreateInv'
  <1> SUFFICES ASSUME CreateInv, SubmitInvalidSite \/ LeaveForm PROVE CreateInv'
    OBVIOUS
  <1>t. CreateTypeOK /\ OnePost /\ PostsKnow /\ FormTellsTheTruth
    BY DEF CreateInv
  <1>1. /\ posts \in Seq(Post) /\ Len(posts) \in Nat /\ DOMAIN posts = 1..Len(posts)
        /\ Len(posts) <= MaxCreates /\ \A p \in DOMAIN posts : posts[p] \in Post
    BY <1>t, CreateTyped
  <1>2. /\ creating'.says \in {"none", "fields"} /\ rows' = rows
        /\ creating' \in [submitting : BOOLEAN, says : Answers, slug : Slugs \union {"none"}]
    <2>1. rows' = rows /\ (creating' = EmptyForm \/ creating' = [EmptyForm EXCEPT !.says = "fields"])
      BY DEF SubmitInvalidSite, LeaveForm, listingVars
    <2>2. \E says \in {"none", "fields"} :
              creating' = [submitting |-> FALSE, says |-> says, slug |-> "none"]
      BY <2>1 DEF EmptyForm
    <2>3. PICK says \in {"none", "fields"} :
              creating' = [submitting |-> FALSE, says |-> says, slug |-> "none"]
      BY <2>2
    <2>4. creating'.says = says /\ says \in Answers
      BY <2>3 DEF Answers
    <2>5. creating' \in [submitting : BOOLEAN, says : Answers, slug : Slugs \union {"none"}]
      BY <2>3, <2>4
    <2> QED
      BY <2>1, <2>4, <2>5
  <1>3. \/ posts' = posts /\ ~ creating.submitting
        \/ posts' = [p \in DOMAIN posts |-> [posts[p] EXCEPT !.awaited = FALSE]]
    BY DEF SubmitInvalidSite, LeaveForm
  <1>4. /\ posts' \in Seq(Post) /\ Len(posts') = Len(posts) /\ DOMAIN posts' = DOMAIN posts
        /\ \A p \in DOMAIN posts :
              /\ posts'[p].slug = posts[p].slug /\ posts'[p].row = posts[p].row
              /\ posts'[p].server = posts[p].server /\ ~ posts'[p].awaited
    <2>1. CASE posts' = posts /\ ~ creating.submitting
      BY <1>t, <1>1, <2>1 DEF OnePost
    <2>2. CASE posts' = [p \in DOMAIN posts |-> [posts[p] EXCEPT !.awaited = FALSE]]
      <3>1. ASSUME NEW p \in DOMAIN posts
            PROVE  /\ posts'[p] \in Post
                   /\ posts'[p].slug = posts[p].slug /\ posts'[p].row = posts[p].row
                   /\ posts'[p].server = posts[p].server /\ ~ posts'[p].awaited
        <4>1. posts'[p] = [posts[p] EXCEPT !.awaited = FALSE] /\ posts[p] \in Post
          BY <1>1, <2>2
        <4> QED
          BY <4>1 DEF Post
      <3>2. posts' \in Seq(Post) /\ Len(posts') = Len(posts) /\ DOMAIN posts' = DOMAIN posts
        <4>1. DOMAIN posts' = 1..Len(posts) /\ posts' = [p \in 1..Len(posts) |-> posts'[p]]
          BY <1>1, <2>2
        <4>2. posts' \in [1..Len(posts) -> Post]
          BY <1>1, <3>1, <4>1
        <4>3. posts' \in Seq(Post)
          BY <1>1, <4>2, SeqDef
        <4> QED
          BY <1>1, <4>1, <4>3
      <3> QED
        BY <3>1, <3>2
    <2> QED
      BY <1>3, <2>1, <2>2
  <1>5. Live' = Live /\ \A s : Taken(s, "live") => Taken(s, "live")'
    BY <1>2 DEF Live, Taken
  <1>6. CreateTypeOK'
    BY <1>1, <1>2, <1>4 DEF CreateTypeOK, Post, RowNo
  <1>7. OnePost'
    BY <1>4 DEF OnePost
  <1>8. PostsKnow'
    BY <1>t, <1>2, <1>4, <1>5 DEF PostsKnow
  <1>9. FormTellsTheTruth'
    BY <1>2 DEF FormTellsTheTruth
  <1> QED
    BY <1>6, <1>7, <1>8, <1>9 DEF CreateInv

LEMMA AnsweredKeeps == ASSUME CreateInv, NEW p \in DOMAIN posts, SiteAnswered(p) PROVE CreateInv'
  <1>t. CreateTypeOK /\ OnePost /\ PostsKnow /\ FormTellsTheTruth
    BY DEF CreateInv
  <1>1. /\ posts \in Seq(Post) /\ Len(posts) <= MaxCreates /\ posts[p] \in Post
        /\ creating \in [submitting : BOOLEAN, says : Answers, slug : Slugs \union {"none"}]
    BY <1>t, CreateTyped
  <1>2. PICK fate \in Fates :
            /\ posts[p].server \in Outcomes \/ fate = "lost"
            /\ creating' = [creating EXCEPT !.submitting = FALSE,
                                            !.says = Told(posts[p].server, fate)]
    BY DEF SiteAnswered
  <1>3. posts[p].awaited /\ posts' = [posts EXCEPT ![p].awaited = FALSE] /\ rows' = rows
    BY DEF SiteAnswered, listingVars
  <1> DEFINE new == [posts[p] EXCEPT !.awaited = FALSE]
  <1>4. posts' = [posts EXCEPT ![p] = new]
    BY <1>3
  <1>5. /\ new \in Post /\ new.slug = posts[p].slug /\ new.row = posts[p].row
        /\ new.server = posts[p].server /\ ~ new.awaited
    BY <1>1 DEF Post
  <1> HIDE DEF new
  <1>6. /\ posts' \in Seq(Post) /\ Len(posts') = Len(posts) /\ DOMAIN posts' = DOMAIN posts
        /\ posts'[p] = new /\ \A q \in DOMAIN posts : q # p => posts'[q] = posts[q]
    BY <1>1, <1>4, <1>5, PostChanged
  <1>7. /\ posts[p].server \in {"done", "conflict", "zod", "unknown"} \/ fate = "lost"
        /\ creating.slug = posts[p].slug /\ creating.submitting
        /\ \A q \in DOMAIN posts : posts[q].awaited => q = p
    <2>1. posts[p].server \in {"sent", "open", "done", "conflict", "zod", "unknown"}
      BY <1>t DEF PostsKnow
    <2>2. "sent" \notin Outcomes /\ "open" \notin Outcomes
      BY DEF Outcomes, Refusals, Breakdowns
    <2> QED
      BY <1>t, <1>2, <1>3, <2>1, <2>2 DEF OnePost
  <1>8. PICK answer : answer = Told(posts[p].server, fate)
    OBVIOUS
  <1>9. /\ answer \in Answers
        /\ answer = "created" => posts[p].server = "done"
        /\ answer = "CONFLICT" => posts[p].server = "conflict"
    BY <1>7, <1>8, ToldIs
  <1>10. /\ creating' \in [submitting : BOOLEAN, says : Answers, slug : Slugs \union {"none"}]
         /\ creating'.says = answer /\ creating'.slug = creating.slug
    BY <1>1, <1>2, <1>8, <1>9
  <1>11. Live' = Live /\ \A s : Taken(s, "live") => Taken(s, "live")'
    BY <1>3 DEF Live, Taken
  <1>12. CreateTypeOK'
    BY <1>1, <1>6, <1>10 DEF CreateTypeOK, Post, RowNo
  <1>13. OnePost'
    BY <1>5, <1>6, <1>7 DEF OnePost
  <1>14. \A q \in DOMAIN posts : /\ posts'[q].server = posts[q].server
                                 /\ posts'[q].slug = posts[q].slug
                                 /\ posts'[q].row = posts[q].row
    BY <1>5, <1>6
  <1>15. PostsKnow'
    BY <1>t, <1>3, <1>6, <1>11, <1>14 DEF PostsKnow
  <1>16. FormTellsTheTruth'
    <2>1. answer = "created" => posts[p].row \in Live
      BY <1>t, <1>9 DEF PostsKnow
    <2>2. answer = "CONFLICT" => Taken(posts[p].slug, "live")
      BY <1>t, <1>9 DEF PostsKnow
    <2> QED
      BY <1>6, <1>7, <1>10, <1>11, <1>14, <2>1, <2>2 DEF FormTellsTheTruth
  <1> QED
    BY <1>12, <1>13, <1>15, <1>16 DEF CreateInv

\* The API ends a request without a row: a conflict with a committed row, or a 400.
LEMMA EndsKeep ==
    ASSUME CreateInv, NEW p \in DOMAIN posts, SiteConflicts(p) \/ SiteRefused(p)
    PROVE  CreateInv'
  <1>t. CreateTypeOK /\ OnePost /\ PostsKnow /\ FormTellsTheTruth
    BY DEF CreateInv
  <1>1. PICK outcome \in {"conflict", "zod"} :
            /\ PostEnds(p, outcome) /\ rows' = rows /\ creating' = creating
            /\ outcome = "conflict" => Taken(posts[p].slug, "live")
    BY DEF SiteConflicts, SiteRefused, listingVars
  <1>2. outcome \in Outcomes /\ outcome \notin {"sent", "open", "done"}
    BY DEF Outcomes, Refusals
  <1>3. /\ CreateTypeOK' /\ DOMAIN posts' = DOMAIN posts
        /\ \A q \in DOMAIN posts :
              /\ posts'[q].slug = posts[q].slug /\ posts'[q].row = posts[q].row
              /\ posts'[q].awaited = posts[q].awaited
              /\ posts'[q].server = IF q = p THEN outcome ELSE posts[q].server
    BY <1>t, <1>1, <1>2, PostEnded
  <1>4. Live' = Live /\ \A s : Taken(s, "live") => Taken(s, "live")'
    BY <1>1 DEF Live, Taken
  <1>5. OnePost'
    BY <1>t, <1>1, <1>3 DEF OnePost
  <1>6. PostsKnow'
    BY <1>t, <1>1, <1>2, <1>3, <1>4 DEF PostsKnow
  <1>7. FormTellsTheTruth'
    BY <1>t, <1>1, <1>3, <1>4, TruthKept
  <1> QED
    BY <1>3, <1>5, <1>6, <1>7 DEF CreateInv

\* A request inserts its row, which no other request has.
LEMMA InsertedKeeps ==
    ASSUME ListingInv, CreateInv, NEW p \in DOMAIN posts, SiteInserted(p)
    PROVE  ListingInv' /\ CreateInv'
  <1>t. CreateTypeOK /\ OnePost /\ PostsKnow /\ FormTellsTheTruth /\ ListingTypeOK
    BY DEF CreateInv, ListingInv
  <1>1. /\ posts \in Seq(Post) /\ Len(posts) <= MaxCreates /\ posts[p] \in Post
    BY <1>t, CreateTyped
  <1>2. PICK id : id = Len(rows) + 1
    OBVIOUS
  <1>3. /\ posts[p].server = "sent" /\ InsertSite(posts[p].slug)
        /\ posts' = [posts EXCEPT ![p].server = "open", ![p].row = id]
        /\ UNCHANGED <<creating, walk, fetches, high, passed, due>>
    BY <1>2 DEF SiteInserted
  <1>4. posts[p].slug \in Slugs
    BY <1>1 DEF Post
  <1>5. /\ rows' \in Seq(SiteRow) /\ Len(rows') <= MaxSites /\ Live' = Live
        /\ id \in DOMAIN rows' /\ id \in RowNo /\ id \notin DOMAIN rows
        /\ rows'[id].state = "open"
        /\ \A j \in DOMAIN rows : j \in DOMAIN rows' /\ rows'[j] = rows[j]
    BY <1>t, <1>2, <1>3, <1>4, RowInserted
  <1>6. \A s : Taken(s, "live") => Taken(s, "live")'
    BY <1>5 DEF Taken
  <1>7. ListingInv'
    <2>1. passed \subseteq RowNo
      BY <1>t DEF ListingTypeOK
    <2> QED
      BY <1>3, <1>5, <2>1, RowsGrow
  <1> DEFINE new == [slug |-> posts[p].slug, row |-> id, awaited |-> posts[p].awaited,
                     server |-> "open"]
  <1>8. /\ new \in Post /\ new.slug = posts[p].slug /\ new.row = id
        /\ new.awaited = posts[p].awaited /\ new.server = "open"
    BY <1>1, <1>5 DEF Post
  <1>9. posts' = [posts EXCEPT ![p] = new]
    <2>1. posts[p] = [slug |-> posts[p].slug, row |-> posts[p].row,
                      awaited |-> posts[p].awaited, server |-> posts[p].server]
      BY <1>1 DEF Post
    <2>2. PICK opened : opened = [slug |-> posts[p].slug, row |-> posts[p].row,
                                  awaited |-> posts[p].awaited, server |-> "open"]
      OBVIOUS
    <2>3. [posts[p] EXCEPT !.server = "open"] = opened
      BY <2>1, <2>2
    <2>4. [opened EXCEPT !.row = id] = new
      BY <2>2
    <2>5. PICK half : half = [posts EXCEPT ![p] = opened]
      OBVIOUS
    <2>6. [posts EXCEPT ![p].server = "open"] = half /\ half[p] = opened
      BY <1>1, <2>3, <2>5
    <2>7. posts' = [half EXCEPT ![p].row = id]
      BY <1>3, <2>6
    <2>8. posts' = [half EXCEPT ![p] = new]
      BY <2>4, <2>6, <2>7
    <2> QED
      BY <1>1, <2>5, <2>8
  <1> HIDE DEF new
  <1>10. /\ posts' \in Seq(Post) /\ Len(posts') = Len(posts) /\ DOMAIN posts' = DOMAIN posts
         /\ posts'[p] = new /\ \A q \in DOMAIN posts : q # p => posts'[q] = posts[q]
    BY <1>1, <1>8, <1>9, PostChanged
  <1>11. CreateTypeOK'
    BY <1>t, <1>1, <1>3, <1>10 DEF CreateTypeOK, Post, RowNo
  <1>12. OnePost'
    BY <1>t, <1>3, <1>8, <1>10 DEF OnePost
  <1>13. PostsKnow'
    <2>1. \A q \in DOMAIN posts : q # p /\ posts[q].server = "open" =>
              posts[q].row \in DOMAIN rows /\ rows[posts[q].row].state = "open"
      BY <1>t DEF PostsKnow
    <2>2. ASSUME NEW q \in DOMAIN posts'
          PROVE  /\ posts'[q].server = "sent" => posts'[q].row = 0
                 /\ posts'[q].server = "open" =>
                       posts'[q].row \in DOMAIN rows' /\ rows'[posts'[q].row].state = "open"
                 /\ posts'[q].server = "done" => posts'[q].row \in Live'
                 /\ posts'[q].server = "conflict" => Taken(posts[q].slug, "live")'
                 /\ posts'[q].server \in {"sent", "open", "done", "conflict", "zod", "unknown"}
      <3>1. CASE q = p
        BY <1>5, <1>8, <1>10, <3>1
      <3>2. CASE q # p
        <4>1. posts'[q] = posts[q]
          BY <1>10, <3>2
        <4>2. /\ posts[q].server = "sent" => posts[q].row = 0
              /\ posts[q].server = "done" => posts[q].row \in Live
              /\ posts[q].server = "conflict" => Taken(posts[q].slug, "live")
              /\ posts[q].server \in {"sent", "open", "done", "conflict", "zod", "unknown"}
          BY <1>t, <1>10 DEF PostsKnow
        <4> QED
          BY <1>5, <1>6, <1>10, <2>1, <3>2, <4>1, <4>2
      <3> QED
        BY <3>1, <3>2
    <2>3. ASSUME NEW q \in DOMAIN posts', NEW r \in DOMAIN posts', posts'[q].server = "open",
                 posts'[r].server = "open", posts'[q].row = posts'[r].row
          PROVE  q = r
      <3>1. \A s \in DOMAIN posts : s # p /\ posts'[s].server = "open" =>
                posts'[s].row # id /\ posts[s].server = "open" /\ posts'[s].row = posts[s].row
        BY <1>5, <1>10, <2>1
      <3>2. posts'[p].row = id
        BY <1>8, <1>10
      <3> QED
        BY <1>t, <1>10, <2>3, <3>1, <3>2 DEF PostsKnow
    <2> QED
      BY <2>2, <2>3 DEF PostsKnow
  <1>14. FormTellsTheTruth'
    <2>1. posts[p].row \notin Live
      <3>1. posts[p].row = 0
        BY <1>t, <1>3 DEF PostsKnow
      <3>2. 0 \notin RowNo /\ Live \subseteq RowNo
        BY <1>t, ListingTyped DEF RowNo
      <3> QED
        BY <3>1, <3>2
    <2>2. \A q \in DOMAIN posts : /\ posts'[q].slug = posts[q].slug
                                  /\ posts[q].row \in Live => posts'[q].row = posts[q].row
      BY <1>8, <1>10, <2>1
    <2> QED
      BY <1>t, <1>3, <1>5, <1>6, <1>10, <2>2, TruthKept
  <1> QED
    BY <1>7, <1>11, <1>12, <1>13, <1>14 DEF CreateInv

\* The transaction of a request ends: its row appears, behind a walk or before it,
\* or is gone.
LEMMA SettledKeeps ==
    ASSUME ListingInv, CreateInv, NEW p \in DOMAIN posts, SiteCommitted(p) \/ SiteFails(p)
    PROVE  ListingInv' /\ CreateInv'
  <1>t. CreateTypeOK /\ OnePost /\ PostsKnow /\ FormTellsTheTruth /\ ListingTypeOK
    BY DEF CreateInv, ListingInv
  <1>1. PICK id : id = posts[p].row
    OBVIOUS
  <1>2. PICK outcome \in {"done", "unknown"} :
            /\ PostEnds(p, outcome)
            /\ CommitSite(id) \/ (AbortSite(id) /\ outcome = "unknown")
    BY <1>1 DEF SiteCommitted, SiteFails
  <1>3. /\ posts[p].server = "open" /\ UNCHANGED <<creating, walk, fetches, high, due>>
    BY DEF SiteCommitted, SiteFails
  <1>4. outcome \in Outcomes /\ outcome \notin {"sent", "open", "conflict"}
    BY DEF Outcomes, Breakdowns
  <1>5. /\ CreateTypeOK' /\ DOMAIN posts' = DOMAIN posts
        /\ \A q \in DOMAIN posts :
              /\ posts'[q].slug = posts[q].slug /\ posts'[q].row = posts[q].row
              /\ posts'[q].awaited = posts[q].awaited
              /\ posts'[q].server = IF q = p THEN outcome ELSE posts[q].server
    BY <1>t, <1>2, <1>3, <1>4, PostEnded
  <1>6. id \in DOMAIN rows /\ rows[id].state = "open"
    BY <1>t, <1>1, <1>3 DEF PostsKnow
  <1>7. PICK st \in {"live", "gone"} :
            /\ rows' = [rows EXCEPT ![id].state = st]
            /\ passed' = IF st = "live" /\ id < high THEN passed \union {id} ELSE passed
            /\ outcome = "done" => st = "live"
    BY <1>2 DEF CommitSite, AbortSite
  <1>8. /\ rows' \in Seq(SiteRow) /\ Len(rows') <= MaxSites /\ DOMAIN rows' = DOMAIN rows
        /\ Live' = IF st = "live" THEN Live \union {id} ELSE Live
        /\ \A slug : Taken(slug, "live") => Taken(slug, "live")'
        /\ \A j \in DOMAIN rows : j # id => rows'[j] = rows[j]
    BY <1>t, <1>6, <1>7, RowSettled
  <1>9. ListingInv'
    <2>1. passed \subseteq RowNo /\ DOMAIN rows \subseteq RowNo
      BY <1>t, ListingTyped DEF ListingTypeOK
    <2>2. Live \subseteq Live' /\ passed \subseteq passed' /\ passed' \subseteq RowNo
      BY <1>6, <1>7, <1>8, <2>1
    <2>3. \A j \in Live' \ Live : j < high => j \in passed'
      BY <1>7, <1>8
    <2> QED
      BY <1>3, <1>8, <2>2, <2>3, RowsGrow
  <1>10. OnePost'
    BY <1>t, <1>3, <1>5 DEF OnePost
  <1>11. PostsKnow'
    <2>1. ASSUME NEW q \in DOMAIN posts'
          PROVE  /\ posts'[q].server = "sent" => posts'[q].row = 0
                 /\ posts'[q].server = "open" =>
                       posts'[q].row \in DOMAIN rows' /\ rows'[posts'[q].row].state = "open"
                 /\ posts'[q].server = "done" => posts'[q].row \in Live'
                 /\ posts'[q].server = "conflict" => Taken(posts[q].slug, "live")'
                 /\ posts'[q].server \in {"sent", "open", "done", "conflict", "zod", "unknown"}
      <3>1. CASE q = p
        BY <1>1, <1>4, <1>5, <1>7, <1>8, <3>1
      <3>2. CASE q # p
        <4>1. /\ posts[q].server = "sent" => posts[q].row = 0
              /\ posts[q].server = "open" =>
                    posts[q].row \in DOMAIN rows /\ rows[posts[q].row].state = "open"
              /\ posts[q].server = "done" => posts[q].row \in Live
              /\ posts[q].server = "conflict" => Taken(posts[q].slug, "live")
              /\ posts[q].server \in {"sent", "open", "done", "conflict", "zod", "unknown"}
          BY <1>t, <1>5 DEF PostsKnow
        <4>2. posts[q].server = "open" => posts[q].row # id
          BY <1>t, <1>1, <1>3, <1>5, <3>2 DEF PostsKnow
        <4> QED
          BY <1>5, <1>8, <3>2, <4>1, <4>2
      <3> QED
        BY <3>1, <3>2
    <2>2. ASSUME NEW q \in DOMAIN posts', NEW r \in DOMAIN posts', posts'[q].server = "open",
                 posts'[r].server = "open", posts'[q].row = posts'[r].row
          PROVE  q = r
      BY <1>t, <1>4, <1>5, <2>2 DEF PostsKnow
    <2> QED
      BY <2>1, <2>2 DEF PostsKnow
  <1>12. FormTellsTheTruth'
    <2>1. Live \subseteq Live'
      BY <1>8
    <2> QED
      BY <1>t, <1>3, <1>5, <1>8, <2>1, TruthKept
  <1> QED
    BY <1>5, <1>9, <1>10, <1>11, <1>12 DEF CreateInv

\* The two parts of the dashboard.
LEMMA SitesInvNext ==
    ListingInv /\ CreateInv /\ ((ListingNext /\ UNCHANGED createVars) \/ CreateNext)
        => ListingInv' /\ CreateInv'
  <1> SUFFICES ASSUME ListingInv, CreateInv,
                      (ListingNext /\ UNCHANGED createVars) \/ CreateNext
               PROVE  ListingInv' /\ CreateInv'
    OBVIOUS
  <1>1. CASE ListingNext /\ UNCHANGED createVars
    <2>1. ListingInv'
      BY <1>1, ListingInvNext
    <2>2. rows' = rows
      BY <1>1 DEF ListingNext, FirstPage, LoadMore, OpenDashboard, ListRead, PageShown, PageFails
    <2>3. CreateInv'
      BY <1>1, <2>2 DEF createVars, CreateInv, CreateTypeOK, OnePost, PostsKnow,
         FormTellsTheTruth, Live, Taken, RowNo
    <2> QED
      BY <2>1, <2>3
  <1>2. ASSUME UNCHANGED listingVars, CreateInv' PROVE ListingInv' /\ CreateInv'
    BY <1>2, ListingInvNext
  <1>3. CASE SubmitInvalidSite \/ LeaveForm
    <2>1. UNCHANGED listingVars
      BY <1>3 DEF SubmitInvalidSite, LeaveForm
    <2> QED
      BY <1>2, <1>3, <2>1, EmptiedKeeps
  <1>4. ASSUME NEW slug \in Slugs, SubmitSite(slug) PROVE ListingInv' /\ CreateInv'
    <2>1. UNCHANGED listingVars
      BY <1>4 DEF SubmitSite
    <2> QED
      BY <1>2, <1>4, <2>1, SubmitKeeps
  <1>5. ASSUME NEW p \in DOMAIN posts, SiteAnswered(p) PROVE ListingInv' /\ CreateInv'
    <2>1. UNCHANGED listingVars
      BY <1>5 DEF SiteAnswered
    <2> QED
      BY <1>2, <1>5, <2>1, AnsweredKeeps
  <1>6. ASSUME NEW p \in DOMAIN posts, SiteConflicts(p) \/ SiteRefused(p)
        PROVE  ListingInv' /\ CreateInv'
    <2>1. UNCHANGED listingVars
      BY <1>6 DEF SiteConflicts, SiteRefused
    <2> QED
      BY <1>2, <1>6, <2>1, EndsKeep
  <1>7. ASSUME NEW p \in DOMAIN posts, SiteInserted(p) PROVE ListingInv' /\ CreateInv'
    BY <1>7, InsertedKeeps
  <1>8. ASSUME NEW p \in DOMAIN posts, SiteCommitted(p) \/ SiteFails(p)
        PROVE  ListingInv' /\ CreateInv'
    BY <1>8, SettledKeeps
  <1> QED
    BY <1>1, <1>3, <1>4, <1>5, <1>6, <1>7, <1>8 DEF CreateNext

LEMMA SitesInvInit == ListingInit /\ CreateInit => ListingInv /\ CreateInv
  <1> SUFFICES ASSUME ListingInit, CreateInit PROVE ListingInv /\ CreateInv
    OBVIOUS
  <1>1. /\ Seeds \in Seq(Slugs) /\ Len(Seeds) <= MaxSites /\ Len(Seeds) \in Nat
        /\ DOMAIN Seeds = 1..Len(Seeds) /\ MaxSites \in Nat
    BY ListingAssumption
  <1>2. rows \in Seq(SiteRow) /\ Len(rows) = Len(Seeds) /\ DOMAIN rows = 1..Len(Seeds)
    <2>1. \A id \in 1..Len(Seeds) : [slug |-> Seeds[id], state |-> "live"] \in SiteRow
      BY <1>1 DEF SiteRow
    <2>2. rows = [id \in 1..Len(Seeds) |-> [slug |-> Seeds[id], state |-> "live"]]
      BY <1>1 DEF ListingInit
    <2>3. rows \in [1..Len(Seeds) -> SiteRow]
      BY <2>1, <2>2
    <2>4. rows \in Seq(SiteRow)
      BY <1>1, <2>3, SeqDef
    <2> QED
      BY <1>1, <2>2, <2>4
  <1>3. /\ walk = NoWalk /\ fetches = [f \in 1..MaxFetches |-> NoFetch]
        /\ high = 0 /\ passed = {} /\ due = {}
    BY DEF ListingInit
  <1>4. 0 \in Cursor /\ <<>> \in Seq(RowNo) /\ Len(<<>>) = 0
    BY DEF Cursor
  <1>5. NoFetch \in Fetch /\ NoFetch.pc = "free"
    BY <1>4, FetchSent DEF NoFetch
  <1>6. /\ fetches \in [1..MaxFetches -> Fetch]
        /\ \A f \in DOMAIN fetches : fetches[f].pc = "free"
    BY <1>3, <1>5
  <1>7. /\ walk.shown = <<>> /\ walk.cursor = 0 /\ ~ walk.loading /\ walk.status = "first"
        /\ walk \in [shown : Seq(RowNo), cursor : Cursor, loading : BOOLEAN,
                     status : {"first", "shown", "error"}]
    BY <1>3, <1>4 DEF NoWalk
  <1>8. ListingTypeOK
    <2>1. fetches \in [1..MaxFetches -> [pc : {"free", "sent", "read"}, after : Cursor,
                                        page : Seq(RowNo), next : Cursor]]
      BY <1>6 DEF Fetch
    <2> QED
      BY <1>1, <1>2, <1>3, <1>4, <1>7, <2>1 DEF ListingTypeOK, SiteRow
  <1>9. OneFetch /\ PagesGoOn
    BY <1>6 DEF OneFetch, PagesGoOn
  <1>10. ShownToCursor /\ ListingIsExact
    BY <1>7 DEF ShownToCursor, Ascending, ToSet, ListingIsExact, IsInjective
  <1>11. CreateInv
    <2>1. posts = <<>> /\ creating = EmptyForm
      BY DEF CreateInit
    <2>2. posts \in Seq(Post) /\ Len(posts) = 0 /\ DOMAIN posts = {}
      BY <2>1
    <2>3. CreateTypeOK
      BY <2>1, <2>2, CreateAssumption DEF CreateTypeOK, Post, EmptyForm, Answers
    <2>4. OnePost /\ PostsKnow
      BY <2>2 DEF OnePost, PostsKnow
    <2>5. FormTellsTheTruth
      BY <2>1 DEF FormTellsTheTruth, EmptyForm
    <2> QED
      BY <2>3, <2>4, <2>5 DEF CreateInv
  <1> QED
    BY <1>8, <1>9, <1>10, <1>11 DEF ListingInv

-----------------------------------------------------------------------------
(* Sums over months.  A total is a number of kilograms, so that what a sum *)
(* bounds follows from which kilograms it counts.                          *)

LEMMA SumTyped ==
    ASSUME NEW f \in [MonthNo -> Kg], NEW S \in SUBSET MonthNo
    PROVE  IsFiniteSet(Kilograms(f, S)) /\ SumOver(f, S) \in Nat
  <1>1. IsFiniteSet(MonthNo) /\ IsFiniteSet(1..MaxBatches)
    BY MetricsAssumption, FS_Interval DEF MonthNo
  <1>2. IsFiniteSet(MonthNo \X (1..MaxBatches))
    BY <1>1, FS_Product
  <1>3. Kilograms(f, S) \subseteq MonthNo \X (1..MaxBatches)
    <2>1. ASSUME NEW m \in S, NEW i \in 1..f[m]
          PROVE  m \in MonthNo /\ i \in 1..MaxBatches
      <3>1. f[m] \in 0..MaxBatches
        BY DEF Kg
      <3> QED
        BY <3>1, MetricsAssumption
    <2> QED
      BY <2>1 DEF Kilograms
  <1> QED
    BY <1>2, <1>3, FS_Subset, FS_CardinalityType DEF SumOver

LEMMA SumGrows ==
    ASSUME NEW f \in [MonthNo -> Kg], NEW g \in [MonthNo -> Kg],
           NEW S \in SUBSET MonthNo, NEW T \in SUBSET MonthNo,
           S \subseteq T, \A m \in S : f[m] <= g[m]
    PROVE  SumOver(f, S) <= SumOver(g, T)
  <1>1. Kilograms(f, S) \subseteq Kilograms(g, T)
    <2>1. ASSUME NEW m \in S, NEW i \in 1..f[m]
          PROVE  m \in T /\ i \in 1..g[m]
      <3>1. f[m] \in Nat /\ g[m] \in Nat
        BY DEF Kg
      <3> QED
        BY <3>1
    <2> QED
      BY <2>1 DEF Kilograms
  <1>2. IsFiniteSet(Kilograms(g, T))
    BY SumTyped
  <1> QED
    BY <1>1, <1>2, FS_Subset DEF SumOver

LEMMA SumSplits ==
    ASSUME NEW f \in [MonthNo -> Kg], NEW b \in MonthNo
    PROVE  /\ 1..(b - 1) \in SUBSET MonthNo /\ b..Months \in SUBSET MonthNo
           /\ SumOver(f, 1..(b - 1)) + SumOver(f, b..Months) = SumOver(f, MonthNo)
  <1>1. /\ 1..(b - 1) \in SUBSET MonthNo /\ b..Months \in SUBSET MonthNo
        /\ (1..(b - 1)) \union (b..Months) = MonthNo
        /\ (1..(b - 1)) \intersect (b..Months) = {}
    BY MetricsAssumption DEF MonthNo
  <1> DEFINE S == Kilograms(f, 1..(b - 1))
             T == Kilograms(f, b..Months)
  <1>2. S \union T = Kilograms(f, MonthNo) /\ S \intersect T = {}
    BY <1>1 DEF Kilograms
  <1>3. /\ IsFiniteSet(S) /\ IsFiniteSet(T)
        /\ Cardinality(S) \in Nat /\ Cardinality(T) \in Nat
    BY <1>1, SumTyped DEF SumOver
  <1>4. Cardinality(S \union T) = Cardinality(S) + Cardinality(T) - Cardinality(S \intersect T)
    BY <1>3, FS_Union
  <1>5. Cardinality({}) = 0
    BY FS_EmptySet
  <1>6. /\ SumOver(f, 1..(b - 1)) = Cardinality(S) /\ SumOver(f, b..Months) = Cardinality(T)
        /\ SumOver(f, MonthNo) = Cardinality(S \union T)
    BY <1>2 DEF SumOver
  <1>7. Cardinality(S \intersect T) = 0
    BY <1>2, <1>5
  <1> HIDE DEF S, T
  <1> QED
    BY <1>1, <1>3, <1>4, <1>6, <1>7

LEMMA SumOfOne ==
    ASSUME NEW f \in [MonthNo -> Kg], NEW m \in MonthNo
    PROVE  f[m] <= SumOver(f, MonthNo)
  <1>1. {m} \X (1..f[m]) \subseteq Kilograms(f, MonthNo)
    BY DEF Kilograms
  <1>2. IsFiniteSet(Kilograms(f, MonthNo))
    BY SumTyped
  <1>3. f[m] \in Nat
    BY DEF Kg
  <1>4. /\ IsFiniteSet({m}) /\ Cardinality({m}) = 1
        /\ IsFiniteSet(1..f[m]) /\ Cardinality(1..f[m]) = f[m]
    <2>1. IsFiniteSet({m}) /\ Cardinality({m}) = 1
      BY FS_Singleton
    <2>2. PICK k \in Nat : k = f[m]
      BY <1>3
    <2>3. /\ IsFiniteSet(1..k)
          /\ Cardinality(1..k) = IF 1 > k THEN 0 ELSE k - 1 + 1
      BY FS_Interval
    <2>4. Cardinality(1..k) = k
      BY <2>3
    <2> QED
      BY <2>1, <2>2, <2>3, <2>4
  <1>5. Cardinality({m} \X (1..f[m])) = f[m]
    BY <1>3, <1>4, FS_Product
  <1> QED
    BY <1>1, <1>2, <1>5, FS_Subset DEF SumOver

LEMMA SumPlusOne ==
    ASSUME NEW f \in [MonthNo -> Kg], NEW m \in MonthNo, NEW g,
           g = [f EXCEPT ![m] = @ + 1]
    PROVE  SumOver(g, MonthNo) = SumOver(f, MonthNo) + 1
  <1>1. f[m] \in Nat /\ g[m] = f[m] + 1 /\ \A n \in MonthNo \ {m} : g[n] = f[n]
    BY DEF Kg
  <1> DEFINE x == <<m, f[m] + 1>>
  <1>2. 1..g[m] = (1..f[m]) \union {f[m] + 1} /\ f[m] + 1 \notin 1..f[m]
    BY <1>1
  <1>3. Kilograms(g, MonthNo) = Kilograms(f, MonthNo) \union {x}
    BY <1>1, <1>2 DEF Kilograms
  <1>4. x \notin Kilograms(f, MonthNo)
    BY <1>2 DEF Kilograms
  <1>5. IsFiniteSet(Kilograms(f, MonthNo))
    BY SumTyped
  <1> QED
    BY <1>3, <1>4, <1>5, FS_AddElement DEF SumOver

-----------------------------------------------------------------------------
(* The metrics of a site: the data.                                        *)

MonthlyRow == [total : Kg, stale : BOOLEAN, there : BOOLEAN]
Batch == [captured : MonthNo, for : MonthNo]
DataTypeOK ==
    /\ month \in MonthNo
    /\ kg \in [MonthNo -> Kg]
    /\ monthly \in [MonthNo -> MonthlyRow]
    /\ handling \in Batch \union {NoBatch}
    /\ skipped \subseteq MonthNo

\* No row holds more than was measured, and the batch at work has room.
TotalsWereMeasured == \A m \in MonthNo : monthly[m].total <= kg[m]
RoomForBatch == Measured + (IF handling = NoBatch THEN 0 ELSE 1) <= MaxBatches

DataInv == DataTypeOK /\ TotalsWereMeasured /\ RoomForBatch /\ ClosedMonthsAreExact

\* What a closed month counts for in a read.
Held(m) == IF ~ monthly[m].there THEN 0
           ELSE IF monthly[m].stale THEN kg[m] ELSE monthly[m].total
Grows == \A m \in MonthNo : kg[m] <= kg'[m] /\ Held(m) <= Held(m)'

LEMMA NoBatchIsNone == NoBatch \notin Batch
  <1>1. NoBatch.captured = 0 /\ 0 \notin MonthNo
    BY MetricsAssumption DEF NoBatch, MonthNo
  <1> QED
    BY <1>1 DEF Batch

LEMMA MeasuredTyped ==
    ASSUME DataTypeOK
    PROVE  Measured \in Nat /\ \A m \in MonthNo : kg[m] <= Measured
  BY SumTyped, SumOfOne DEF DataTypeOK, Measured

\* A commit, and what it marks.
LEMMA CommitKeeps ==
    ASSUME DataInv, BatchCommitted
    PROVE  DataInv' /\ Grows
  <1>t. /\ kg \in [MonthNo -> Kg] /\ monthly \in [MonthNo -> MonthlyRow]
        /\ handling \in Batch /\ handling # NoBatch
        /\ month \in MonthNo /\ skipped \subseteq MonthNo
    BY DEF DataInv, DataTypeOK, BatchCommitted
  <1>1. PICK m : m = handling.for
    OBVIOUS
  <1>2. /\ m \in MonthNo /\ kg' = [kg EXCEPT ![m] = @ + 1] /\ handling' = NoBatch
        /\ skipped' = skipped \union {n \in {m} : monthly[n].there /\ ~ Marked(handling)}
        /\ month' = month
    BY <1>t, <1>1 DEF BatchCommitted, Batch
  <1>3. \/ Marked(handling) /\ monthly' = [monthly EXCEPT ![m].stale = TRUE, ![m].there = TRUE]
        \/ ~ Marked(handling) /\ monthly' = monthly
    BY <1>1 DEF BatchCommitted
  <1>m. Measured \in Nat /\ Measured + 1 <= MaxBatches /\ kg[m] \in Nat /\ kg[m] <= Measured
    BY <1>t, <1>2, MeasuredTyped DEF DataInv, RoomForBatch, Kg
  <1>4. /\ kg' \in [MonthNo -> Kg]
        /\ \A n \in MonthNo : n # m => kg'[n] = kg[n]
        /\ kg'[m] = kg[m] + 1
    <2>1. kg[m] + 1 \in Kg
      BY <1>m, MetricsAssumption DEF Kg
    <2> QED
      BY <1>t, <1>2, <2>1
  <1>5. /\ monthly' \in [MonthNo -> MonthlyRow]
        /\ \A n \in MonthNo : n # m => monthly'[n] = monthly[n]
        /\ monthly'[m].total = monthly[m].total
        /\ \/ monthly'[m].there /\ monthly'[m].stale
           \/ monthly'[m] = monthly[m] /\ ~ Marked(handling)
    <2>1. CASE Marked(handling) /\ monthly' = [monthly EXCEPT ![m].stale = TRUE,
                                                             ![m].there = TRUE]
      <3>1. PICK half : half = [monthly EXCEPT ![m].stale = TRUE]
        OBVIOUS
      <3>2. /\ half \in [MonthNo -> MonthlyRow] /\ half[m].stale
            /\ half[m].total = monthly[m].total
            /\ \A n \in MonthNo : n # m => half[n] = monthly[n]
        <4>1. monthly[m] \in MonthlyRow
          BY <1>t, <1>2
        <4>2. half[m] = [monthly[m] EXCEPT !.stale = TRUE]
          BY <1>t, <1>2, <3>1
        <4>3. half[m] \in MonthlyRow /\ half[m].stale /\ half[m].total = monthly[m].total
          BY <4>1, <4>2 DEF MonthlyRow
        <4> QED
          BY <1>t, <1>2, <3>1, <4>3
      <3>3. monthly' = [half EXCEPT ![m].there = TRUE]
        BY <2>1, <3>1
      <3>4. monthly'[m] = [half[m] EXCEPT !.there = TRUE] /\ half[m] \in MonthlyRow
        BY <1>2, <3>2, <3>3
      <3>5. /\ monthly'[m] \in MonthlyRow /\ monthly'[m].stale /\ monthly'[m].there
            /\ monthly'[m].total = monthly[m].total
        BY <3>2, <3>4 DEF MonthlyRow
      <3> QED
        BY <1>2, <3>2, <3>3, <3>5
    <2>2. CASE ~ Marked(handling) /\ monthly' = monthly
      BY <1>t, <1>2, <2>2
    <2> QED
      BY <1>3, <2>1, <2>2
  <1>d. /\ DataTypeOK'
        /\ \A n \in MonthNo : kg[n] \in Nat /\ monthly[n].total \in Nat /\ monthly[n].total <= kg[n]
    BY <1>t, <1>2, <1>4, <1>5 DEF DataTypeOK, DataInv, TotalsWereMeasured, MonthlyRow, Kg
  <1>6. TotalsWereMeasured'
    BY <1>2, <1>4, <1>5, <1>d DEF TotalsWereMeasured
  <1>7. RoomForBatch'
    <2>1. Measured' = Measured + 1
      BY <1>t, <1>2, SumPlusOne DEF Measured
    <2> QED
      BY <1>2, <1>m, <2>1 DEF RoomForBatch
  <1>8. ClosedMonthsAreExact'
    BY <1>t, <1>2, <1>4, <1>5 DEF ClosedMonthsAreExact, DataInv
  <1>9. Grows
    <2>1. ASSUME NEW n \in MonthNo PROVE kg[n] <= kg'[n] /\ Held(n) <= Held(n)'
      BY <1>4, <1>5, <1>d DEF Held
    <2> QED
      BY <2>1 DEF Grows
  <1> QED
    BY <1>d, <1>6, <1>7, <1>8, <1>9 DEF DataInv

LEMMA CloseKeeps ==
    ASSUME DataInv, NEW m \in MonthNo, EtlCloses(m)
    PROVE  DataInv' /\ Grows
  <1> DEFINE closed == [total |-> kg[m], stale |-> FALSE, there |-> TRUE]
  <1>t. /\ kg \in [MonthNo -> Kg] /\ monthly \in [MonthNo -> MonthlyRow]
        /\ \A n \in MonthNo : kg[n] \in Nat /\ monthly[n].total <= kg[n]
    BY DEF DataInv, DataTypeOK, TotalsWereMeasured, Kg
  <1>1. /\ monthly' = [monthly EXCEPT ![m] = closed] /\ skipped' = skipped \ {m}
        /\ UNCHANGED <<month, kg, handling>>
        /\ monthly[m].stale \/ ~ monthly[m].there
    BY DEF EtlCloses
  <1>2. /\ closed \in MonthlyRow /\ closed.total = kg[m] /\ closed.there /\ ~ closed.stale
    BY <1>t DEF MonthlyRow
  <1> HIDE DEF closed
  <1>3. /\ monthly' \in [MonthNo -> MonthlyRow] /\ monthly'[m] = closed
        /\ \A n \in MonthNo : n # m => monthly'[n] = monthly[n]
    BY <1>t, <1>1, <1>2
  <1>4. DataTypeOK' /\ TotalsWereMeasured'
    BY <1>t, <1>1, <1>2, <1>3 DEF DataInv, DataTypeOK, TotalsWereMeasured
  <1>5. RoomForBatch'
    BY <1>1 DEF DataInv, RoomForBatch, Measured
  <1>6. ClosedMonthsAreExact'
    BY <1>t, <1>1, <1>2, <1>3 DEF DataInv, ClosedMonthsAreExact
  <1>7. Grows
    <2>1. ASSUME NEW n \in MonthNo PROVE kg[n] <= kg'[n] /\ Held(n) <= Held(n)'
      <3>1. CASE n = m
        BY <1>t, <1>1, <1>2, <1>3, <3>1 DEF Held
      <3>2. CASE n # m
        <4>1. Held(n)' = Held(n) /\ Held(n) \in Nat /\ kg'[n] = kg[n] /\ kg[n] \in Nat
          BY <1>t, <1>1, <1>3, <3>2 DEF Held, MonthlyRow, Kg
        <4> QED
          BY <4>1
      <3> QED
        BY <3>1, <3>2
    <2> QED
      BY <2>1 DEF Grows
  <1> QED
    BY <1>4, <1>5, <1>6, <1>7 DEF DataInv

\* A step that writes neither measurements nor totals.
LEMMA OthersKeep ==
    ASSUME DataInv, UNCHANGED <<kg, monthly, skipped>>, month' \in MonthNo,
           \/ handling' \in {handling, NoBatch}
           \/ handling = NoBatch /\ handling' \in Batch /\ Measured < MaxBatches
    PROVE  DataInv' /\ Grows
  <1>t. /\ kg \in [MonthNo -> Kg] /\ monthly \in [MonthNo -> MonthlyRow]
    BY DEF DataInv, DataTypeOK
  <1>1. DataTypeOK'
    BY DEF DataInv, DataTypeOK
  <1>2. TotalsWereMeasured' /\ ClosedMonthsAreExact'
    BY DEF DataInv, TotalsWereMeasured, ClosedMonthsAreExact
  <1>3. RoomForBatch'
    <2>1. Measured' = Measured /\ Measured \in Nat /\ MaxBatches \in Nat
      BY MeasuredTyped, MetricsAssumption DEF DataInv, Measured
    <2> QED
      BY <2>1, NoBatchIsNone DEF DataInv, RoomForBatch
  <1>4. Grows
    <2>1. ASSUME NEW n \in MonthNo PROVE kg[n] <= kg'[n] /\ Held(n) <= Held(n)'
      <3>1. Held(n)' = Held(n) /\ Held(n) \in Nat /\ kg'[n] = kg[n] /\ kg[n] \in Nat
        BY <1>t DEF Held, MonthlyRow, Kg
      <3> QED
        BY <3>1
    <2> QED
      BY <2>1 DEF Grows
  <1> QED
    BY <1>1, <1>2, <1>3, <1>4 DEF DataInv

LEMMA DataInvNext ==
    ASSUME DataInv, MetricsNext \/ UNCHANGED metricsVars
    PROVE  DataInv' /\ Grows
  <1>m. month \in MonthNo
    BY DEF DataInv, DataTypeOK
  <1>1. CASE BatchCaptured
    <2>1. PICK m \in MonthNo : handling' = [captured |-> month, for |-> m]
      BY <1>1 DEF BatchCaptured
    <2>2. handling' \in Batch
      BY <1>m, <2>1 DEF Batch
    <2> QED
      BY <1>1, <1>m, <2>2, OthersKeep DEF BatchCaptured
  <1>2. CASE BatchCommitted
    BY <1>2, CommitKeeps
  <1>3. CASE BatchDropped
    BY <1>3, <1>m, OthersKeep DEF BatchDropped
  <1>4. CASE MonthEnds
    <2>1. month' \in MonthNo
      BY <1>4, <1>m, MetricsAssumption DEF MonthEnds, MonthNo
    <2> QED
      BY <1>4, <2>1, OthersKeep DEF MonthEnds
  <1>5. ASSUME NEW m \in MonthNo, EtlCloses(m) PROVE DataInv' /\ Grows
    BY <1>5, CloseKeeps
  <1>6. ASSUME NEW p \in Polls, PollNext(p) PROVE DataInv' /\ Grows
    <2>1. UNCHANGED <<month, kg, monthly, handling, skipped>>
      BY <1>6 DEF PollNext, PollStarts, ReadPrior, ReadCurrent, PollAnswered, PollFails
    <2> QED
      BY <1>m, <2>1, OthersKeep
  <1>7. CASE UNCHANGED metricsVars
    BY <1>7, <1>m, OthersKeep DEF metricsVars
  <1> QED
    BY <1>1, <1>2, <1>3, <1>4, <1>5, <1>6, <1>7 DEF MetricsNext

-----------------------------------------------------------------------------
(* The metrics of a site: the polls.                                       *)

Poll == [pc : {"idle", "begun", "prior", "answered"},
         boundary : {0} \union MonthNo, prior : Kg, current : Kg, floor : Kg]
Reading == [status : {"loading", "error", "ok"}, prior : Kg, current : Kg]

\* What a poll has read, with what the statements ahead of it would read now,
\* comes to no less than its floor; what it has read was measured.
Between(q) ==
    /\ q.pc # "idle" => q.boundary \in MonthNo
    /\ q.pc = "begun" => q.floor <= PriorTotal(q.boundary) + CurrentTotal(q.boundary)
    /\ q.pc \in {"prior", "answered"} => q.prior <= SumOver(kg, 1..(q.boundary - 1))
    /\ q.pc = "prior" => q.floor <= q.prior + CurrentTotal(q.boundary)
    /\ q.pc = "answered" =>
          /\ q.current <= CurrentTotal(q.boundary)
          /\ q.floor <= q.prior + q.current

PollsInv ==
    /\ polls \in [Polls -> Poll]
    /\ row \in Reading
    /\ \A p \in Polls : Between(polls[p])

MetricsInv == DataInv /\ PollsInv

LEMMA PriorIs ==
    ASSUME DataInv, NEW b \in MonthNo
    PROVE  /\ PriorTotal(b) \in Nat /\ CurrentTotal(b) \in Nat
           /\ PriorTotal(b) <= SumOver(kg, 1..(b - 1))
           /\ SumOver(kg, 1..(b - 1)) \in Nat /\ Measured \in Nat
           /\ SumOver(kg, 1..(b - 1)) + CurrentTotal(b) = Measured
           /\ Measured <= MaxBatches
  <1> DEFINE f == [m \in MonthNo |-> IF monthly[m].stale THEN kg[m] ELSE monthly[m].total]
             closed == {m \in 1..(b - 1) : monthly[m].there}
  <1>t. /\ kg \in [MonthNo -> Kg] /\ monthly \in [MonthNo -> MonthlyRow]
        /\ \A m \in MonthNo : kg[m] \in Nat /\ monthly[m].total <= kg[m]
    BY DEF DataInv, DataTypeOK, TotalsWereMeasured, Kg
  <1>1. f \in [MonthNo -> Kg] /\ \A m \in MonthNo : f[m] <= kg[m]
    BY <1>t DEF MonthlyRow
  <1>2. /\ 1..(b - 1) \in SUBSET MonthNo /\ b..Months \in SUBSET MonthNo
        /\ SumOver(kg, 1..(b - 1)) + SumOver(kg, b..Months) = SumOver(kg, MonthNo)
    BY <1>t, SumSplits
  <1>3. PriorTotal(b) = SumOver(f, closed)
    BY DEF PriorTotal
  <1> HIDE DEF f
  <1>4. closed \in SUBSET MonthNo /\ \A m \in closed : f[m] <= kg[m]
    BY <1>1, <1>2
  <1>5. SumOver(f, closed) <= SumOver(kg, 1..(b - 1))
    BY <1>t, <1>1, <1>2, <1>4, SumGrows
  <1>6. /\ SumOver(f, closed) \in Nat /\ SumOver(kg, 1..(b - 1)) \in Nat
        /\ SumOver(kg, b..Months) \in Nat
    BY <1>t, <1>1, <1>2, <1>4, SumTyped
  <1>7. Measured \in Nat /\ Measured <= MaxBatches
    BY MeasuredTyped, MetricsAssumption DEF DataInv, RoomForBatch
  <1> QED
    BY <1>2, <1>3, <1>5, <1>6, <1>7 DEF CurrentTotal, Measured

\* What a read would answer never falls, for whichever month it began in.
LEMMA ReadsGrow ==
    ASSUME DataInv, DataInv', Grows, NEW b \in MonthNo
    PROVE  /\ PriorTotal(b) <= PriorTotal(b)'
           /\ CurrentTotal(b) <= CurrentTotal(b)'
           /\ SumOver(kg, 1..(b - 1)) <= SumOver(kg', 1..(b - 1))
           /\ PriorTotal(b)' \in Nat /\ CurrentTotal(b)' \in Nat
           /\ SumOver(kg', 1..(b - 1)) \in Nat
  <1> DEFINE S == {m \in 1..(b - 1) : monthly[m].there}
             T == {m \in 1..(b - 1) : monthly'[m].there}
             f == [m \in MonthNo |-> IF monthly[m].stale THEN kg[m] ELSE monthly[m].total]
             g == [m \in MonthNo |-> IF monthly'[m].stale THEN kg'[m] ELSE monthly'[m].total]
  <1>t. /\ kg \in [MonthNo -> Kg] /\ kg' \in [MonthNo -> Kg]
        /\ monthly \in [MonthNo -> MonthlyRow] /\ monthly' \in [MonthNo -> MonthlyRow]
        /\ \A m \in MonthNo : kg[m] <= kg'[m] /\ Held(m) <= Held(m)'
    BY DEF DataInv, DataTypeOK, Grows
  <1>1. 1..(b - 1) \in SUBSET MonthNo /\ b..Months \in SUBSET MonthNo
    BY <1>t, SumSplits
  <1>2. f \in [MonthNo -> Kg] /\ g \in [MonthNo -> Kg]
    BY <1>t DEF MonthlyRow
  <1>3. ASSUME NEW m \in MonthNo
        PROVE  Held(m) = (IF monthly[m].there THEN f[m] ELSE 0)
               /\ Held(m)' = (IF monthly'[m].there THEN g[m] ELSE 0)
    BY <1>3 DEF Held
  <1>4. PriorTotal(b) = SumOver(f, S) /\ PriorTotal(b)' = SumOver(g, T)
    BY DEF PriorTotal, SumOver, Kilograms
  <1>5. \A m \in MonthNo : f[m] \in Nat /\ g[m] \in Nat
    BY <1>2 DEF Kg
  <1> HIDE DEF f, g
  <1>6. Kilograms(f, S) \subseteq Kilograms(g, T)
    <2>1. ASSUME NEW m \in S, NEW i \in 1..f[m]
          PROVE  m \in T /\ i \in 1..g[m]
      <3>1. m \in MonthNo /\ m \in 1..(b - 1)
        BY <1>1
      <3>2. f[m] >= 1 /\ Held(m) = f[m] /\ Held(m) <= Held(m)'
        BY <1>t, <1>3, <1>5, <3>1
      <3>3. monthly'[m].there /\ Held(m)' = g[m]
        BY <1>3, <1>5, <3>1, <3>2
      <3> QED
        BY <1>5, <3>1, <3>2, <3>3
    <2> QED
      BY <2>1 DEF Kilograms
  <1>7. IsFiniteSet(Kilograms(g, T))
    BY <1>1, <1>2, SumTyped
  <1>8. SumOver(f, S) <= SumOver(g, T)
    BY <1>6, <1>7, FS_Subset DEF SumOver
  <1>9. /\ SumOver(kg, b..Months) <= SumOver(kg', b..Months)
        /\ SumOver(kg, 1..(b - 1)) <= SumOver(kg', 1..(b - 1))
    BY <1>t, <1>1, SumGrows
  <1>10. CurrentTotal(b)' = SumOver(kg', b..Months)
    BY DEF CurrentTotal, SumOver, Kilograms
  <1>11. /\ SumOver(g, T) \in Nat /\ SumOver(kg', b..Months) \in Nat
         /\ SumOver(kg', 1..(b - 1)) \in Nat
    <2>1. T \in SUBSET MonthNo
      BY <1>1
    <2> QED
      BY <1>t, <1>1, <1>2, <2>1, SumTyped
  <1> QED
    BY <1>4, <1>8, <1>9, <1>10, <1>11 DEF CurrentTotal

LEMMA BetweenKept ==
    ASSUME DataInv, DataInv', Grows, NEW q \in Poll, Between(q)
    PROVE  Between(q)'
  <1>1. q.pc \in {"idle", "begun", "prior", "answered"}
        /\ q.prior \in Nat /\ q.current \in Nat /\ q.floor \in Nat
    BY DEF Poll, Kg
  <1>2. CASE q.pc = "idle"
    BY <1>2 DEF Between
  <1>3. CASE q.pc # "idle"
    <2>b. q.boundary \in MonthNo
      BY <1>3 DEF Between
    <2>1. /\ PriorTotal(q.boundary) \in Nat /\ CurrentTotal(q.boundary) \in Nat
          /\ SumOver(kg, 1..(q.boundary - 1)) \in Nat
      BY <2>b, PriorIs
    <2>2. /\ PriorTotal(q.boundary) <= PriorTotal(q.boundary)'
          /\ CurrentTotal(q.boundary) <= CurrentTotal(q.boundary)'
          /\ SumOver(kg, 1..(q.boundary - 1)) <= SumOver(kg', 1..(q.boundary - 1))
          /\ PriorTotal(q.boundary)' \in Nat /\ CurrentTotal(q.boundary)' \in Nat
          /\ SumOver(kg', 1..(q.boundary - 1)) \in Nat
      BY <2>b, ReadsGrow
    <2> QED
      BY SMTT(20), <1>1, <1>3, <2>b, <2>1, <2>2 DEF Between
  <1> QED
    BY <1>2, <1>3

LEMMA PollChanged ==
    ASSUME DataInv, DataInv', Grows, PollsInv, NEW p \in Polls,
           NEW new \in Poll, Between(new),
           polls' = [polls EXCEPT ![p] = new], row' \in Reading
    PROVE  PollsInv'
  <1>1. polls' \in [Polls -> Poll] /\ polls'[p] = new
        /\ \A q \in Polls : q # p => polls'[q] = polls[q]
    BY DEF PollsInv
  <1>2. ASSUME NEW q \in Polls PROVE Between(polls[q])'
    <2>1. PICK r : r = polls'[q]
      OBVIOUS
    <2>2. r \in Poll /\ Between(r)
      BY <1>1, <2>1 DEF PollsInv
    <2>3. Between(r)'
      BY <2>2, BetweenKept
    <2> QED
      BY <2>1, <2>3 DEF Between
  <1> QED
    BY <1>1, <1>2 DEF PollsInv

LEMMA NoPollTyped == NoPoll \in Poll /\ Between(NoPoll) /\ 0 \in Kg
  <1>1. 0 \in Kg
    BY MetricsAssumption DEF Kg
  <1> QED
    BY <1>1 DEF NoPoll, Poll, Between

LEMMA PollStepKeeps ==
    ASSUME DataInv, DataInv', Grows, PollsInv, NEW p \in Polls, PollNext(p)
    PROVE  PollsInv'
  <1>t. polls \in [Polls -> Poll] /\ polls[p] \in Poll /\ Between(polls[p]) /\ row \in Reading
    BY DEF PollsInv
  <1>1. CASE PollStarts(p)
    <2> DEFINE new == [NoPoll EXCEPT !.pc = "begun", !.boundary = month, !.floor = Effective]
    <2>1. polls' = [polls EXCEPT ![p] = new] /\ UNCHANGED row
      BY <1>1 DEF PollStarts, Begins
    <2>2. /\ month \in MonthNo /\ Effective \in Nat /\ Effective <= MaxBatches
      <3>1. month \in MonthNo
        BY DEF DataInv, DataTypeOK
      <3>2. /\ PriorTotal(month) \in Nat /\ CurrentTotal(month) \in Nat
            /\ PriorTotal(month) <= SumOver(kg, 1..(month - 1))
            /\ SumOver(kg, 1..(month - 1)) \in Nat /\ Measured \in Nat
            /\ SumOver(kg, 1..(month - 1)) + CurrentTotal(month) = Measured
            /\ Measured <= MaxBatches
        BY <3>1, PriorIs
      <3> QED
        BY <3>1, <3>2, MetricsAssumption DEF Effective
    <2>3. new = [pc |-> "begun", boundary |-> month, prior |-> 0, current |-> 0,
                 floor |-> Effective]
      <3> DEFINE begun == [NoPoll EXCEPT !.pc = "begun"]
                 bounded == [begun EXCEPT !.boundary = month]
      <3>1. begun = [pc |-> "begun", boundary |-> 0, prior |-> 0, current |-> 0, floor |-> 0]
        BY DEF NoPoll
      <3> HIDE DEF begun, new
      <3>2. bounded = [pc |-> "begun", boundary |-> month, prior |-> 0, current |-> 0,
                       floor |-> 0]
        BY <3>1
      <3>3. new = [bounded EXCEPT !.floor = Effective]
        BY DEF new, begun, NoPoll
      <3> HIDE DEF bounded, new
      <3> QED
        BY <3>2, <3>3
    <2>4. Effective \in Kg
      BY <2>2, MetricsAssumption DEF Kg
    <2>5. new \in Poll
      BY <2>2, <2>3, <2>4, NoPollTyped DEF Poll
    <2>6. Between(new)
      BY <2>2, <2>3 DEF Between, Effective
    <2> HIDE DEF new
    <2> QED
      BY <1>t, <2>1, <2>5, <2>6, PollChanged
  <1>2. CASE ReadPrior(p)
    <2>b. PICK b \in MonthNo : b = polls[p].boundary
      BY <1>2, <1>t DEF ReadPrior, Between
    <2>1. PICK half, new :
              /\ half = [polls[p] EXCEPT !.pc = "prior"]
              /\ new = [half EXCEPT !.prior = PriorTotal(b)]
              /\ polls' = [polls EXCEPT ![p] = new]
      BY <1>t, <1>2, <2>b DEF ReadPrior
    <2>2. /\ PriorTotal(b) \in Nat /\ CurrentTotal(b) \in Nat
          /\ PriorTotal(b) <= SumOver(kg, 1..(b - 1))
          /\ SumOver(kg, 1..(b - 1)) \in Nat /\ Measured \in Nat
          /\ SumOver(kg, 1..(b - 1)) + CurrentTotal(b) = Measured
          /\ Measured <= MaxBatches
      BY PriorIs
    <2>3. PriorTotal(b) \in Kg
      BY <2>2, MetricsAssumption DEF Kg
    <2>4. /\ half \in Poll /\ half.pc = "prior" /\ half.boundary = b
          /\ half.floor = polls[p].floor
      BY <1>t, <2>b, <2>1 DEF Poll
    <2>5. /\ new \in Poll /\ new.pc = "prior" /\ new.boundary = b
          /\ new.floor = polls[p].floor /\ new.prior = PriorTotal(b)
      BY <2>1, <2>3, <2>4 DEF Poll
    <2>6. polls[p].floor <= PriorTotal(b) + CurrentTotal(b)
      BY <1>t, <1>2, <2>b DEF ReadPrior, Between
    <2>7. Between(new)
      BY <2>2, <2>5, <2>6 DEF Between
    <2>8. UNCHANGED row
      BY <1>2 DEF ReadPrior
    <2> QED
      BY <1>t, <2>1, <2>5, <2>7, <2>8, PollChanged
  <1>3. CASE ReadCurrent(p)
    <2>b. PICK b \in MonthNo : b = polls[p].boundary
      BY <1>3, <1>t DEF ReadCurrent, Between
    <2>1. PICK half, new :
              /\ half = [polls[p] EXCEPT !.pc = "answered"]
              /\ new = [half EXCEPT !.current = CurrentTotal(b)]
              /\ polls' = [polls EXCEPT ![p] = new]
      BY <1>t, <1>3, <2>b DEF ReadCurrent
    <2>2. /\ CurrentTotal(b) \in Nat
          /\ SumOver(kg, 1..(b - 1)) \in Nat /\ Measured \in Nat
          /\ SumOver(kg, 1..(b - 1)) + CurrentTotal(b) = Measured
          /\ Measured <= MaxBatches
      BY PriorIs
    <2>3. CurrentTotal(b) \in Kg
      BY <2>2, MetricsAssumption DEF Kg
    <2>4. /\ half \in Poll /\ half.pc = "answered" /\ half.boundary = b
          /\ half.floor = polls[p].floor /\ half.prior = polls[p].prior
      BY <1>t, <2>b, <2>1 DEF Poll
    <2>5. /\ new \in Poll /\ new.pc = "answered" /\ new.boundary = b
          /\ new.floor = polls[p].floor /\ new.prior = polls[p].prior
          /\ new.current = CurrentTotal(b)
      BY <2>1, <2>3, <2>4 DEF Poll
    <2>6. /\ polls[p].floor <= polls[p].prior + CurrentTotal(b)
          /\ polls[p].prior <= SumOver(kg, 1..(b - 1))
      BY <1>t, <1>3, <2>b DEF ReadCurrent, Between
    <2>7. Between(new)
      BY <2>2, <2>5, <2>6 DEF Between
    <2>8. UNCHANGED row
      BY <1>3 DEF ReadCurrent
    <2> QED
      BY <1>t, <2>1, <2>5, <2>7, <2>8, PollChanged
  <1>4. CASE PollAnswered(p)
    <2>1. Shown(polls[p].prior, polls[p].current) \in Reading
      BY <1>t, NoPollTyped DEF Shown, Reading, NoReading, Poll
    <2> QED
      BY <1>4, <2>1, NoPollTyped, PollChanged DEF PollAnswered
  <1>5. CASE PollFails(p)
    <2>1. [NoReading EXCEPT !.status = "error"] \in Reading
      BY NoPollTyped DEF Reading, NoReading
    <2> QED
      BY <1>5, <2>1, NoPollTyped, PollChanged DEF PollFails
  <1> QED
    BY <1>1, <1>2, <1>3, <1>4, <1>5 DEF PollNext

LEMMA MetricsInvNext == MetricsInv /\ (MetricsNext \/ UNCHANGED metricsVars) => MetricsInv'
  <1> SUFFICES ASSUME MetricsInv, MetricsNext \/ UNCHANGED metricsVars PROVE MetricsInv'
    OBVIOUS
  <1>d. DataInv /\ PollsInv /\ DataInv' /\ Grows
    BY DataInvNext DEF MetricsInv
  <1>1. ASSUME NEW p \in Polls, PollNext(p) PROVE PollsInv'
    BY <1>d, <1>1, PollStepKeeps
  <1>2. ASSUME UNCHANGED <<polls, row>> PROVE PollsInv'
    <2>1. ASSUME NEW p \in Polls PROVE Between(polls[p])'
      <3>1. PICK q : q = polls[p]
        OBVIOUS
      <3>2. q \in Poll /\ Between(q)
        BY <1>d, <3>1 DEF PollsInv
      <3>3. Between(q)'
        BY <1>d, <3>2, BetweenKept
      <3> QED
        BY <1>2, <3>1, <3>3 DEF Between
    <2> QED
      BY <1>d, <1>2, <2>1 DEF PollsInv
  <1>3. CASE \/ BatchCaptured \/ BatchCommitted \/ BatchDropped \/ MonthEnds
             \/ \E m \in MonthNo : EtlCloses(m)
             \/ UNCHANGED metricsVars
    <2>1. UNCHANGED <<polls, row>>
      BY <1>3 DEF BatchCaptured, BatchCommitted, BatchDropped, MonthEnds, EtlCloses, metricsVars
    <2> QED
      BY <1>d, <1>2, <2>1 DEF MetricsInv
  <1> QED
    BY <1>d, <1>1, <1>3 DEF MetricsNext, MetricsInv

LEMMA MetricsInvInit == MetricsInit => MetricsInv
  <1> SUFFICES ASSUME MetricsInit PROVE MetricsInv
    OBVIOUS
  <1>1. 1 \in MonthNo /\ 0 \in Kg /\ MaxBatches \in Nat
    BY MetricsAssumption, NoPollTyped DEF MonthNo
  <1>2. DataTypeOK /\ TotalsWereMeasured /\ ClosedMonthsAreExact
    BY <1>1 DEF MetricsInit, DataTypeOK, MonthlyRow, NoRow, TotalsWereMeasured,
       ClosedMonthsAreExact
  <1>3. Measured = 0
    <2>1. Kilograms(kg, MonthNo) = {}
      <3>1. \A m \in MonthNo : 1..kg[m] = {}
        BY DEF MetricsInit
      <3> QED
        BY <3>1 DEF Kilograms
    <2> QED
      BY <2>1, FS_EmptySet DEF Measured, SumOver
  <1>4. RoomForBatch
    BY <1>1, <1>3 DEF MetricsInit, RoomForBatch
  <1>5. PollsInv
    BY <1>1, NoPollTyped DEF MetricsInit, PollsInv, Reading, NoReading
  <1> QED
    BY <1>2, <1>4, <1>5 DEF MetricsInv, DataInv

\* The boundary splits the measurements in two, and the ones before it are never
\* less than what was read of them.
LEMMA MetricsFollow == MetricsInv => MetricsTypeOK /\ ReadingIsBetween
  <1> SUFFICES ASSUME MetricsInv PROVE MetricsTypeOK /\ ReadingIsBetween
    OBVIOUS
  <1> USE DEF MetricsInv
  <1>1. MetricsTypeOK
    BY DEF DataInv, DataTypeOK, PollsInv, MetricsTypeOK, MonthlyRow, Batch, Poll, Reading
  <1>2. ASSUME NEW p \in Polls, polls[p].pc = "answered"
        PROVE  /\ polls[p].floor <= polls[p].prior + polls[p].current
               /\ polls[p].prior + polls[p].current <= Measured
    <2>b. PICK b \in MonthNo : b = polls[p].boundary
      BY <1>2 DEF PollsInv, Between
    <2>1. /\ polls[p].floor <= polls[p].prior + polls[p].current
          /\ polls[p].prior <= SumOver(kg, 1..(b - 1))
          /\ polls[p].current <= CurrentTotal(b)
          /\ polls[p].prior \in Nat /\ polls[p].current \in Nat
      BY <1>2, <2>b DEF PollsInv, Between, Poll, Kg
    <2>2. /\ CurrentTotal(b) \in Nat
          /\ SumOver(kg, 1..(b - 1)) \in Nat /\ Measured \in Nat
          /\ SumOver(kg, 1..(b - 1)) + CurrentTotal(b) = Measured
      BY PriorIs
    <2> QED
      BY <2>1, <2>2
  <1> QED
    BY <1>1, <1>2 DEF ReadingIsBetween

-----------------------------------------------------------------------------
(* The pages together.                                                     *)

WatchInv == watch \in Pages /\ faults \in 0..MaxFaults
ConsoleInv == FormInv /\ ListingInv /\ CreateInv /\ MetricsInv /\ WatchInv

LEMMA ConsoleInvInit == ConsoleInit => ConsoleInv
  BY FormInvInit, SitesInvInit, MetricsInvInit, FailuresAssumption
     DEF ConsoleInit, ConsoleInv, WatchInv

\* The pages share the fault budget, and spend it in the one way there is.
LEMMA WatchInvNext ==
    ASSUME WatchInv, [ConsoleNext]_consoleVars
    PROVE  WatchInv'
  <1>f. ASSUME UNCHANGED faults \/ \E kind : Fault(kind)
        PROVE  faults' \in 0..MaxFaults
    BY <1>f, FailuresAssumption DEF WatchInv, Fault
  <1>1. ASSUME FormNext PROVE faults' \in 0..MaxFaults
    <2>1. UNCHANGED faults \/ \E kind : Fault(kind)
      <3>1. CASE FormUser
        BY <3>1 DEF FormUser, LoadSites, Enter, SubmitInvalid, FirstSubmit, RetryFromForm,
           Retry, StartOver, Reload
      <3>2. ASSUME NEW i \in DOMAIN calls, FormReply(i)
            PROVE  UNCHANGED faults \/ \E kind : Fault(kind)
        BY <3>2 DEF FormReply, ApiHandles, TurnsAway, SeesFirst, SeesItself, SeesDuplicate,
           Produces, ProduceFails, Succeeds, IsRefused, MayRetry, Retried, Spoilt
      <3>3. ASSUME NEW c \in claims, ClaimForgotten(c)
            PROVE  UNCHANGED faults \/ \E kind : Fault(kind)
        BY <3>3 DEF ClaimForgotten
      <3> QED
        BY <1>1, <3>1, <3>2, <3>3 DEF FormNext
    <2> QED
      BY <1>f, <2>1
  <1>2. ASSUME ListingNext \/ CreateNext PROVE faults' \in 0..MaxFaults
    <2>1. UNCHANGED faults \/ \E kind : Fault(kind)
      BY <1>2 DEF ListingNext, FirstPage, LoadMore, Ask, OpenDashboard, ListRead, PageShown,
         PageFails, CreateNext, SubmitSite, SubmitInvalidSite, LeaveForm, SiteInserted,
         SiteConflicts, SiteRefused, SiteCommitted, SiteFails, SiteAnswered
    <2> QED
      BY <1>f, <2>1
  <1>3. ASSUME MetricsNext PROVE faults' \in 0..MaxFaults
    <2>1. UNCHANGED faults \/ \E kind : Fault(kind)
      BY <1>3 DEF MetricsNext, BatchCaptured, BatchCommitted, BatchDropped, MonthEnds,
         EtlCloses, PollNext, PollStarts, ReadPrior, ReadCurrent, PollAnswered, PollFails
    <2> QED
      BY <1>f, <2>1
  <1>4. CASE UNCHANGED consoleVars
    BY <1>4 DEF consoleVars, WatchInv
  <1> QED
    BY <1>1, <1>2, <1>3, <1>4
       DEF ConsoleNext, IngestPage, OnIngestPage, SitesPage, MetricsRow, OnMetricsRow, WatchInv

\* A step of one page leaves the others as they are.
LEMMA ConsoleInvNext == ConsoleInv /\ [ConsoleNext]_consoleVars => ConsoleInv'
  <1> SUFFICES ASSUME ConsoleInv, [ConsoleNext]_consoleVars PROVE ConsoleInv'
    OBVIOUS
  <1>t. FormInv /\ ListingInv /\ CreateInv /\ MetricsInv /\ WatchInv'
    BY WatchInvNext DEF ConsoleInv
  <1>1. UNCHANGED formVars => FormInv'
    BY <1>t, FormInvNext
  <1>2. UNCHANGED <<listingVars, createVars>> => ListingInv' /\ CreateInv'
    <2>1. UNCHANGED listingVars => ListingInv'
      BY <1>t, ListingInvNext
    <2>2. UNCHANGED <<listingVars, createVars>> => CreateInv'
      BY <1>t DEF listingVars, createVars, CreateInv, CreateTypeOK, OnePost, PostsKnow,
         FormTellsTheTruth, Live, Taken, RowNo
    <2> QED
      BY <2>1, <2>2
  <1>3. UNCHANGED metricsVars => MetricsInv'
    BY <1>t, MetricsInvNext
  <1>4. CASE IngestPage
    <2>1. FormInv'
      BY <1>t, <1>4, FormInvNext DEF IngestPage, OnIngestPage
    <2>2. UNCHANGED <<listingVars, createVars, metricsVars>>
      BY <1>4 DEF IngestPage, OnIngestPage
    <2> QED
      BY <1>t, <1>2, <1>3, <2>1, <2>2 DEF ConsoleInv
  <1>5. CASE SitesPage
    <2>1. ListingInv' /\ CreateInv'
      BY <1>t, <1>5, SitesInvNext DEF SitesPage
    <2>2. UNCHANGED <<formVars, metricsVars>>
      BY <1>5 DEF SitesPage
    <2> QED
      BY <1>t, <1>1, <1>3, <2>1, <2>2 DEF ConsoleInv
  <1>6. CASE MetricsRow
    <2>1. MetricsInv'
      BY <1>t, <1>6, MetricsInvNext DEF MetricsRow, OnMetricsRow
    <2>2. UNCHANGED <<formVars, listingVars, createVars>>
      BY <1>6 DEF MetricsRow, OnMetricsRow
    <2> QED
      BY <1>t, <1>1, <1>2, <2>1, <2>2 DEF ConsoleInv
  <1>7. CASE UNCHANGED consoleVars
    BY <1>t, <1>1, <1>2, <1>3, <1>7 DEF consoleVars, ConsoleInv
  <1> QED
    BY <1>4, <1>5, <1>6, <1>7 DEF ConsoleNext

LEMMA ConsoleInvariant == ConsoleSpec => []ConsoleInv
  BY ConsoleInvInit, ConsoleInvNext, PTL DEF ConsoleSpec

-----------------------------------------------------------------------------
(* Theorems.                                                               *)

\* However often an entry of the ingest form is sent, and whatever became of the
\* answers, a user who gives up nothing has it accepted under one batch_id, but for
\* one the form said was refused.
THEOREM EntriesAcceptedOnce == ConsoleSpec => []EntryAcceptedOnce
  <1>1. ConsoleInv => EntryAcceptedOnce
    BY FormFollows DEF ConsoleInv
  <1> QED
    BY <1>1, ConsoleInvariant, PTL

\* What the form calls queued is in the topic, unless a POST of its batch_id that was
\* there first is still at work or failed, or Redis ran the script of one twice, or the
\* entry was edited under a batch_id already sent and another payload of it is in the
\* topic.
THEOREM QueuedAccepted == ConsoleSpec => []QueuedIsAccepted
  <1>1. ConsoleInv => QueuedIsAccepted
    BY FormFollows DEF ConsoleInv
  <1> QED
    BY <1>1, ConsoleInvariant, PTL

\* The Retry button resends under the batch_id on the screen, unless the form was reset
\* while it awaited the answer that now offers the retry.
THEOREM RetryOffered == ConsoleSpec => []RetryIsOffered
  <1>1. ConsoleInv => RetryIsOffered
    BY FormFollows DEF ConsoleInv
  <1> QED
    BY <1>1, ConsoleInvariant, PTL

\* GET /sites by cursor repeats no site, and a walk to the end misses none there was
\* at its last page but those whose id the walk had passed before their COMMIT, for
\* every page size and however many sites are created meanwhile.
THEOREM ListingExact == ConsoleSpec => []ListingIsExact
  <1>1. ConsoleInv => ListingIsExact
    BY DEF ConsoleInv, ListingInv
  <1> QED
    BY <1>1, ConsoleInvariant, PTL

\* A site the form calls created is a committed row of one of its own requests, and
\* a site it calls in conflict is a committed row.
THEOREM TruthTold == ConsoleSpec => []FormTellsTheTruth
  <1>1. ConsoleInv => FormTellsTheTruth
    BY DEF ConsoleInv, CreateInv
  <1> QED
    BY <1>1, ConsoleInvariant, PTL

\* A month that is closed and not marked stale has its exact total, unless the ETL
\* closed it between a batch's capture of the month and its COMMIT.
THEOREM ClosedMonthsExact == ConsoleSpec => []ClosedMonthsAreExact
  <1>1. ConsoleInv => ClosedMonthsAreExact
    BY DEF ConsoleInv, MetricsInv, DataInv
  <1> QED
    BY <1>1, ConsoleInvariant, PTL

\* What a poll adds up from its two statements is no less than a read at its BEGIN
\* would have answered and no more than is measured by now, across commits, closed
\* months and the end of a month between them.
THEOREM ReadingBetween == ConsoleSpec => []ReadingIsBetween
  <1>1. ConsoleInv => ReadingIsBetween
    BY MetricsFollow DEF ConsoleInv
  <1> QED
    BY <1>1, ConsoleInvariant, PTL

\* The state of the three pages keeps its types; no total exceeds what was measured.
THEOREM ConsoleTypeCorrect == ConsoleSpec => []ConsoleTypeOK
  <1>1. ConsoleInv => ConsoleTypeOK
    BY MetricsFollow DEF ConsoleInv, FormInv, ListingInv, CreateInv, WatchInv, ConsoleTypeOK
  <1> QED
    BY <1>1, ConsoleInvariant, PTL

=============================================================================
