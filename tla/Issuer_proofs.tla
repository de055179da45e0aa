---------------------------- MODULE Issuer_proofs ----------------------------
(***************************************************************************)
(* What the issuer promises, for any number of calls and foreign assets.   *)
(*                                                                         *)
(* On a shared daemon, with late requests: a record returned once is       *)
(* visible, hence in the list every later call takes before it stages; an  *)
(* asset in an open batch is between its staging and its finalization,     *)
(* or its staging or cancellation was not acknowledged; and what a call    *)
(* has staged stays in some batch, a closed one once it was finalized.     *)
(* Alone on the daemon: once a call has found no active batch, every       *)
(* active batch holds just its own asset, so nobody but the call itself    *)
(* can have its batch cancelled.                                           *)
(* The sessions of the coordinator are calls of the issuer, so what holds  *)
(* of every issuer call holds of theirs; a session that is over stays over. *)
(* What is said of the issuer rests on the assumptions of Issuer alone.    *)
(***************************************************************************)
EXTENDS Coordinator, TLAPS

OpenAssets == UNION {b.assets : b \in Open}

-----------------------------------------------------------------------------
(* tapd's requests *)

LEMMA SealedLeavesNoneOpen ==
    ASSUME NEW state \in {"Broadcast", "Cancelled"}, MoveOpen(state)
    PROVE  Open' = {}
<1>1. \A b \in batches' : b \in batches \ Open \/ b.state = state
  BY DEF MoveOpen
<1> QED
  BY <1>1 DEF Open

LEMMA FrozenKeepsAssets ==
    ASSUME MoveOpen("Frozen")
    PROVE  OpenAssets' = OpenAssets
<1> DEFINE F(b) == [assets |-> b.assets, state |-> "Frozen"]
<1>1. batches' = (batches \ Open) \cup {F(b) : b \in Open}
  BY DEF MoveOpen
<1>2. \A b : F(b).assets = b.assets /\ F(b).state = "Frozen"
  OBVIOUS
<1> HIDE DEF F
<1>3. \A b \in Open : F(b) \in Open'
  BY <1>1, <1>2 DEF Open
<1>4. \A x \in Open' : \E b \in Open : x = F(b)
  BY <1>1 DEF Open
<1> QED
  BY <1>2, <1>3, <1>4 DEF OpenAssets

LEMMA StagedAssets ==
    ASSUME NEW id, TapdStage(id)
    PROVE  OpenAssets' = OpenAssets \cup {id}
<1>1. Open' = {[assets |-> {id} \cup OpenAssets, state |-> "Pending"]}
  BY DEF TapdStage, Open, OpenAssets
<1> QED
  BY <1>1 DEF OpenAssets

LEMMA MoveTyped ==
    ASSUME batches \subseteq Batches, NEW state \in States, MoveOpen(state)
    PROVE  batches' \subseteq Batches
BY DEF MoveOpen, Open, Batches

LEMMA StageTyped ==
    ASSUME batches \subseteq Batches, NEW id \in Assets, TapdStage(id)
    PROVE  batches' \subseteq Batches
<1>1. {id} \cup UNION {b.assets : b \in Open} \in SUBSET Assets
  BY DEF Open, Batches
<1> QED
  BY <1>1 DEF TapdStage, Batches, States

Requests == [kind : {"stage", "finalize", "cancel"}, id : Calls]

LEMMA PerformTyped ==
    ASSUME batches \subseteq Batches, NEW request \in Requests, Perform(request)
    PROVE  batches' \subseteq Batches
BY MoveTyped, StageTyped DEF Perform, Requests, States, Assets

LEMMA RequestTyped ==
    ASSUME batches \subseteq Batches, late \subseteq Requests,
           NEW request \in Requests, NEW reply, Request(request, reply)
    PROVE  batches' \subseteq Batches /\ late' \subseteq Requests
           /\ visible' = visible
<1>1. Refuse(request) => batches' \subseteq Batches
  BY MoveTyped DEF Refuse, States
<1> QED
  BY <1>1, PerformTyped DEF Request

-----------------------------------------------------------------------------
(* Types and the lock *)

LEMMA InitTypeOK == Init => TypeOK
BY CallAssumption DEF Init, TypeOK, Critical, Over, Assets

\* A step of the lock holder that keeps or releases the lock.
LEMMA StepKeepsLock ==
    ASSUME TypeOK, NEW c \in Calls, at[c] \in Critical, result' = result,
           NEW next \in Critical \cup {"failed", "timedOut"}, Goto(c, next),
           IF next \in Critical THEN holder' = holder ELSE holder' = None
    PROVE  /\ at' \in [Calls -> {"waiting"} \cup Critical \cup Over]
           /\ holder' \in Calls \cup {None}
           /\ \A d \in Calls : at'[d] \in Critical <=> holder' = d
           /\ \A d \in Calls : at'[d] = "returned" <=> result'[d] # None
<1>1. holder = c /\ c # None
  BY CallAssumption DEF TypeOK, Assets
<1>2. at' = [at EXCEPT ![c] = next] /\ next \in {"waiting"} \cup Critical \cup Over
  BY DEF Goto, Over
<1>3. \A d \in Calls : at'[d] = IF d = c THEN next ELSE at[d]
  BY <1>2 DEF TypeOK
<1>4. next # "returned" /\ at[c] # "returned"
  BY DEF Critical
<1>5. None \notin Calls
  BY CallAssumption DEF Assets
<1>6. at' \in [Calls -> {"waiting"} \cup Critical \cup Over]
  BY <1>2 DEF TypeOK
<1>7. next \in Critical <=> ~(next \in {"failed", "timedOut"})
  BY DEF Critical
<1>8. \A d \in Calls : at'[d] \in Critical <=> holder' = d
  <2>1. CASE next \in Critical
    BY <1>1, <1>3, <2>1 DEF TypeOK
  <2>2. CASE next \notin Critical
    BY <1>1, <1>3, <1>5, <2>2 DEF TypeOK
  <2> QED
    BY <2>1, <2>2
<1>9. \A d \in Calls : at'[d] = "returned" <=> result'[d] # None
  BY <1>3, <1>4 DEF TypeOK, Critical
<1>10. holder' \in Calls \cup {None}
  BY <1>1
<1> QED
  BY <1>6, <1>8, <1>9, <1>10

LEMMA CallTypeOK ==
    ASSUME TypeOK, NEW c \in Calls, Call(c)
    PROVE  TypeOK'
<1>0. late \subseteq Requests /\ batches \subseteq Batches
  BY DEF TypeOK, Requests
<1>1. CASE Lock(c)
  <2>1. /\ at[c] = "waiting" /\ holder = None /\ holder' = c
        /\ at' = [at EXCEPT ![c] = "checking"]
        /\ UNCHANGED <<before, result, batches, visible, late, lost>>
    BY <1>1 DEF Lock, LockIsFree, Goto, tapd
  <2>2. \A d \in Calls : at'[d] = IF d = c THEN "checking" ELSE at[d]
    BY <2>1 DEF TypeOK
  <2>3. at' \in [Calls -> {"waiting"} \cup Critical \cup Over]
    BY <2>1 DEF TypeOK, Critical
  <2>4. \A d \in Calls : at'[d] \in Critical <=> holder' = d
    BY <2>1, <2>2, CallAssumption DEF TypeOK, Critical, Assets
  <2>5. \A d \in Calls : at'[d] = "returned" <=> result'[d] # None
    BY <2>1, <2>2 DEF TypeOK
  <2> QED
    BY <2>1, <2>3, <2>4, <2>5 DEF TypeOK
<1>2. CASE EnsureReady(c)
  <2>1. /\ at[c] \in Critical
        /\ UNCHANGED <<before, result, batches, visible, late, lost>>
        /\ \/ Goto(c, "failed") /\ holder' = None
           \/ Goto(c, "listing") /\ holder' = holder
    BY <1>2 DEF EnsureReady, Leave, tapd, Critical
  <2> QED
    BY <2>1, StepKeepsLock DEF TypeOK, Critical
<1>3. CASE ListMintRecords(c)
  <2>1. /\ at[c] \in Critical /\ Goto(c, "staging") /\ holder' = holder
        /\ before' = [before EXCEPT ![c] = visible]
        /\ UNCHANGED <<result, batches, visible, late, lost>>
    BY <1>3 DEF ListMintRecords, RecordIDs, tapd, Critical
  <2> QED
    BY <2>1, StepKeepsLock DEF TypeOK, Critical
<1>4. CASE NotStarted(c) \/ ResolveTimeout(c) \/ ResolveFails(c)
  <2>1. /\ at[c] \in Critical /\ holder' = None
        /\ Goto(c, "failed") \/ Goto(c, "timedOut")
        /\ UNCHANGED <<before, result, batches, visible, late, lost>>
    BY <1>4
       DEF NotStarted, ResolveTimeout, ResolveFails, Leave, tapd, Critical
  <2> QED
    BY <2>1, StepKeepsLock DEF TypeOK, Critical
<1>5. CASE Stage(c)
  <2>1. PICK reply \in Replies :
           /\ Request([kind |-> "stage", id |-> c], reply)
           /\ lost' = IF reply = "lost" THEN lost \cup {c} ELSE lost
           /\ \/ Goto(c, "failed") /\ holder' = None
              \/ Goto(c, "funding") /\ holder' = holder
              \/ Goto(c, "finalizing") /\ holder' = holder
    BY <1>5 DEF Stage, Leave
  <2>2. /\ at[c] \in Critical /\ lost' \subseteq Calls
        /\ UNCHANGED <<before, result>>
    BY <1>5, <2>1 DEF Stage, TypeOK, Critical
  <2>3. batches' \subseteq Batches /\ late' \subseteq Requests /\ visible' = visible
    BY <1>0, <2>1, RequestTyped DEF Requests
  <2> QED
    BY <2>1, <2>2, <2>3, StepKeepsLock DEF TypeOK, Critical, Requests
<1>6. CASE FundBatch(c) \/ SignIssuance(c) \/ SealBatch(c)
  <2>1. /\ at[c] \in Critical /\ holder' = holder
        /\ \/ Goto(c, "signing") \/ Goto(c, "sealing")
           \/ Goto(c, "finalizing") \/ Goto(c, "cancelling")
        /\ UNCHANGED <<before, result, batches, visible, late, lost>>
    BY <1>6
       DEF FundBatch, SignIssuance, SealBatch, ExternalStep, GiveUp, tapd,
           Critical
  <2> QED
    BY <2>1, StepKeepsLock DEF TypeOK, Critical
<1>7. CASE FinalizeBatch(c)
  <2>1. PICK reply \in Replies :
           /\ Request([kind |-> "finalize", id |-> c], reply)
           /\ Goto(c, "resolving") \/ Goto(c, "cancelling")
           /\ holder' = holder
    BY <1>7 DEF FinalizeBatch, GiveUp
  <2>2. at[c] \in Critical /\ UNCHANGED <<before, result, lost>>
    BY <1>7 DEF FinalizeBatch, Critical
  <2>3. batches' \subseteq Batches /\ late' \subseteq Requests /\ visible' = visible
    BY <1>0, <2>1, RequestTyped DEF Requests
  <2> QED
    BY <2>1, <2>2, <2>3, StepKeepsLock DEF TypeOK, Critical, Requests
<1>8. CASE CancelBatchBestEffort(c)
  <2>1. PICK reply \in Replies :
           /\ Request([kind |-> "cancel", id |-> c], reply)
           /\ lost' = IF reply = "ok" THEN lost ELSE lost \cup {c}
    BY <1>8 DEF CancelBatchBestEffort
  <2>2. /\ at[c] \in Critical /\ Goto(c, "failed") /\ holder' = None
        /\ UNCHANGED <<before, result>>
    BY <1>8 DEF CancelBatchBestEffort, Leave, Critical
  <2>3. batches' \subseteq Batches /\ late' \subseteq Requests /\ visible' = visible
    BY <1>0, <2>1, RequestTyped DEF Requests
  <2> QED
    BY <2>1, <2>2, <2>3, StepKeepsLock DEF TypeOK, Critical, Requests
<1>9. CASE FindNewRecord(c)
  <2>1. PICK record \in visible : result' = [result EXCEPT ![c] = record]
    BY <1>9 DEF FindNewRecord
  <2>2. /\ at' = [at EXCEPT ![c] = "returned"] /\ holder' = None
        /\ UNCHANGED <<before, batches, visible, late, lost>>
        /\ at[c] \in Critical
    BY <1>9 DEF FindNewRecord, Leave, Goto, tapd, Critical
  <2>3. record \in Assets /\ record # None /\ None \notin Calls
    BY <2>1, CallAssumption DEF TypeOK, Assets
  <2>4. \A d \in Calls : at'[d] = IF d = c THEN "returned" ELSE at[d]
    BY <2>2 DEF TypeOK
  <2>5. \A d \in Calls : result'[d] = IF d = c THEN record ELSE result[d]
    BY <2>1 DEF TypeOK
  <2>6. at' \in [Calls -> {"waiting"} \cup Critical \cup Over]
    BY <2>2 DEF TypeOK, Over
  <2>7. \A d \in Calls : at'[d] \in Critical <=> holder' = d
    BY <2>2, <2>3, <2>4 DEF TypeOK, Critical
  <2>8. \A d \in Calls : at'[d] = "returned" <=> result'[d] # None
    BY <2>3, <2>4, <2>5 DEF TypeOK
  <2> QED
    BY <2>1, <2>2, <2>3, <2>6, <2>7, <2>8 DEF TypeOK
<1> QED
  BY <1>1, <1>2, <1>3, <1>4, <1>5, <1>6, <1>7, <1>8, <1>9 DEF Call

LEMMA EnvironmentTypeOK == TypeOK /\ Environment => TypeOK'
<1> SUFFICES ASSUME TypeOK, Environment PROVE TypeOK'
  OBVIOUS
<1>0. batches \subseteq Batches
  BY DEF TypeOK
<1>1. CASE LateArrival
  <2>1. PICK request \in late :
           late' = late \ {request} /\ (Perform(request) \/ UNCHANGED batches)
    BY <1>1 DEF LateArrival
  <2>2. batches' \subseteq Batches
    BY <1>0, <2>1, PerformTyped DEF TypeOK, Requests
  <2> QED
    BY <1>1, <2>1, <2>2 DEF LateArrival, client, TypeOK
<1>2. CASE ForeignStage
  <2>1. batches' \subseteq Batches
    BY <1>0, <1>2, StageTyped DEF ForeignStage, Assets
  <2> QED
    BY <1>2, <2>1 DEF ForeignStage, client, TypeOK
<1>3. CASE ForeignEnd
  <2>1. batches' \subseteq Batches
    BY <1>0, <1>3, MoveTyped DEF ForeignEnd, States
  <2> QED
    BY <1>3, <2>1 DEF ForeignEnd, client, TypeOK
<1>4. CASE Show
  BY <1>4 DEF Show, client, TypeOK, Batches
<1>5. CASE Confirm
  <2>1. batches' \subseteq Batches /\ visible' \subseteq Assets
    BY <1>5 DEF Confirm, TypeOK, Batches, States
  <2> QED
    BY <1>5, <2>1 DEF Confirm, client, TypeOK
<1> QED
  BY <1>1, <1>2, <1>3, <1>4, <1>5 DEF Environment

LEMMA NextTypeOK == TypeOK /\ [Next]_vars => TypeOK'
<1>1. TypeOK /\ UNCHANGED vars => TypeOK'
  BY DEF vars, client, tapd, TypeOK
<1> QED
  BY <1>1, CallTypeOK, EnvironmentTypeOK DEF Next

\* The lock admits one call at a time, and every call ends where it should.
THEOREM TypeCorrect == Spec => []TypeOK
BY InitTypeOK, NextTypeOK, PTL DEF Spec

-----------------------------------------------------------------------------
(* A record is returned once *)

Listed == {"staging", "funding", "signing", "sealing", "finalizing",
           "cancelling", "resolving"}

ReturnedIsVisible ==
    \A d \in Calls : result[d] # None => result[d] \in visible

\* A call that has its list knows every record an earlier call returned.
ReturnedIsListed ==
    \A c, d \in Calls :
        at[c] \in Listed /\ result[d] # None => result[d] \in before[c]

RecordInv == ReturnedIsVisible /\ ReturnedIsListed /\ NoRecordReturnedTwice

\* tapd only ever shows more records.
LEMMA RecordsStay == [Next]_vars => visible \subseteq visible'
<1> SUFFICES ASSUME [Next]_vars PROVE visible \subseteq visible'
  OBVIOUS
<1>1. ASSUME NEW c \in Calls, Call(c) PROVE visible' = visible
  BY <1>1
     DEF Call, Lock, EnsureReady, ListMintRecords, NotStarted, Stage, FundBatch,
         SignIssuance, SealBatch, ExternalStep, FinalizeBatch,
         CancelBatchBestEffort, FindNewRecord, ResolveTimeout, ResolveFails,
         Request, tapd
<1>2. CASE Environment
  BY <1>2 DEF Environment, LateArrival, ForeignStage, ForeignEnd, Show, Confirm
<1> QED
  BY <1>1, <1>2 DEF Next, vars, tapd

\* What a step of one call may do to lists and results.
LEMMA CallRecords ==
    ASSUME TypeOK, NEW c \in Calls, Call(c)
    PROVE  /\ \A d \in Calls : d # c => at'[d] = at[d]
           /\ \A d \in Calls : d # c => before'[d] = before[d]
           /\ \A d \in Calls : d # c => result'[d] = result[d]
           /\ visible' = visible
           /\ \/ at'[c] \notin Listed /\ result'[c] = result[c]
              \/ /\ at[c] = "listing" /\ before'[c] = visible
                 /\ result'[c] = result[c]
              \/ /\ at[c] \in Listed /\ before'[c] = before[c]
                 /\ result'[c] = result[c]
              \/ /\ at[c] = "resolving" /\ at'[c] = "returned"
                 /\ result'[c] \in visible \ before[c]
                 /\ SpecOf[result'[c]] = SpecOf[c]
<1> USE DEF TypeOK, Goto, Leave, GiveUp, tapd, Listed
<1>1. CASE Lock(c) \/ EnsureReady(c)
  BY <1>1 DEF Lock, EnsureReady
<1>2. CASE ListMintRecords(c)
  BY <1>2 DEF ListMintRecords, RecordIDs
<1>3. CASE NotStarted(c) \/ ResolveTimeout(c) \/ ResolveFails(c)
  BY <1>3 DEF NotStarted, ResolveTimeout, ResolveFails
<1>4. CASE Stage(c)
  BY <1>4 DEF Stage, Request
<1>5. CASE FundBatch(c) \/ SignIssuance(c) \/ SealBatch(c)
  BY <1>5 DEF FundBatch, SignIssuance, SealBatch, ExternalStep
<1>6. CASE FinalizeBatch(c) \/ CancelBatchBestEffort(c)
  BY <1>6 DEF FinalizeBatch, CancelBatchBestEffort, Request
<1>7. CASE FindNewRecord(c)
  BY <1>7 DEF FindNewRecord
<1> QED
  BY <1>1, <1>2, <1>3, <1>4, <1>5, <1>6, <1>7 DEF Call

\* While one call takes a step, no other is past the lock.
LEMMA OneAtATime ==
    ASSUME TypeOK, NEW c \in Calls, Call(c)
    PROVE  \A d \in Calls : d # c => at[d] \notin Critical
<1>1. CASE Lock(c)
  BY <1>1, CallAssumption DEF Lock, LockIsFree, TypeOK, Assets
<1>2. CASE ~Lock(c)
  <2>1. at[c] \in Critical
    <3>1. CASE FundBatch(c) \/ SignIssuance(c) \/ SealBatch(c)
      BY <3>1 DEF FundBatch, SignIssuance, SealBatch, ExternalStep, Critical
    <3>2. CASE EnsureReady(c) \/ ListMintRecords(c) \/ NotStarted(c) \/ Stage(c)
      BY <3>2 DEF EnsureReady, ListMintRecords, NotStarted, Stage, Critical
    <3>3. CASE \/ FinalizeBatch(c) \/ CancelBatchBestEffort(c)
               \/ FindNewRecord(c) \/ ResolveTimeout(c) \/ ResolveFails(c)
      BY <3>3
         DEF FinalizeBatch, CancelBatchBestEffort, FindNewRecord,
             ResolveTimeout, ResolveFails, Critical
    <3> QED
      BY <1>2, <3>1, <3>2, <3>3 DEF Call
  <2> QED
    BY <2>1 DEF TypeOK
<1> QED
  BY <1>1, <1>2

LEMMA EnvironmentRecords == Environment => UNCHANGED client
BY DEF Environment, LateArrival, ForeignStage, ForeignEnd, Show, Confirm

LEMMA NextRecordInv == TypeOK /\ RecordInv /\ [Next]_vars => RecordInv'
<1> SUFFICES ASSUME TypeOK, RecordInv, [Next]_vars PROVE RecordInv'
  OBVIOUS
<1>1. ASSUME NEW c \in Calls, Call(c) PROVE RecordInv'
  <2> USE CallRecords, <1>1
  <2>1. \A d \in Calls : d # c => at[d] \notin Critical
    BY OneAtATime
  <2>2. ReturnedIsVisible'
    BY DEF RecordInv, ReturnedIsVisible
  <2>3. \A d \in Calls : d # c => at'[d] \notin Listed
    BY <2>1 DEF Critical, Listed
  <2>4. ReturnedIsListed'
    <3>1. CASE at'[c] \in Listed
      <4>1. \A d \in Calls : result'[d] = result[d]
        BY <3>1 DEF Listed
      <4> QED
        BY <2>3, <4>1
           DEF RecordInv, ReturnedIsVisible, ReturnedIsListed, Listed
    <3>2. CASE at'[c] \notin Listed
      BY <2>3, <3>2 DEF ReturnedIsListed
    <3> QED
      BY <3>1, <3>2
  <2>5. NoRecordReturnedTwice'
    <3>1. CASE result'[c] = result[c]
      BY <3>1 DEF RecordInv, NoRecordReturnedTwice
    <3>2. CASE at[c] = "resolving" /\ result'[c] \notin before[c]
      BY <3>2 DEF RecordInv, NoRecordReturnedTwice, ReturnedIsListed, Listed
    <3> QED
      BY <3>1, <3>2
  <2> QED
    BY <2>2, <2>4, <2>5 DEF RecordInv
<1>2. CASE Environment \/ UNCHANGED vars
  BY <1>2, EnvironmentRecords, RecordsStay
     DEF RecordInv, ReturnedIsVisible, ReturnedIsListed, NoRecordReturnedTwice,
         client, vars
<1> QED
  BY <1>1, <1>2 DEF Next

\* Two calls of a wallet never return the same record, whoever shares the daemon.
THEOREM OneCallPerRecord == Spec => []NoRecordReturnedTwice
<1>1. Init => RecordInv
  BY DEF Init, RecordInv, ReturnedIsVisible, ReturnedIsListed,
         NoRecordReturnedTwice
<1>2. RecordInv => NoRecordReturnedTwice
  BY DEF RecordInv
<1> QED
  BY <1>1, <1>2, NextRecordInv, TypeCorrect, PTL DEF Spec

-----------------------------------------------------------------------------
(* Nothing is stranded without a lost acknowledgement *)

Holding == {"funding", "signing", "sealing", "finalizing", "cancelling"}

OpenIsHeld == \A c \in OpenAssets \cap Calls : at[c] \in Holding \/ c \in lost

LateStagesAreLost ==
    \A request \in late : request.kind = "stage" => request.id \in lost

StrandInv == OpenIsHeld /\ LateStagesAreLost

LEMMA PerformOpen ==
    ASSUME NEW request, Perform(request)
    PROVE  \/ request.kind = "stage"
              /\ OpenAssets' = OpenAssets \cup {request.id}
           \/ request.kind \in {"finalize", "cancel"} /\ OpenAssets' = {}
<1>1. CASE request.kind = "stage" /\ TapdStage(request.id)
  BY <1>1, StagedAssets
<1>2. CASE request.kind = "finalize" /\ MoveOpen("Broadcast")
  BY <1>2, SealedLeavesNoneOpen DEF OpenAssets
<1>3. CASE request.kind = "cancel" /\ MoveOpen("Cancelled")
  BY <1>3, SealedLeavesNoneOpen DEF OpenAssets
<1> QED
  BY <1>1, <1>2, <1>3 DEF Perform

LEMMA RequestOpen ==
    ASSUME NEW kind \in {"stage", "finalize", "cancel"}, NEW id, NEW reply,
           Request([kind |-> kind, id |-> id], reply)
    PROVE  /\ OpenAssets' \subseteq OpenAssets \cup {id}
           /\ kind # "stage" => OpenAssets' \subseteq OpenAssets
           /\ kind # "stage" /\ reply = "ok" => OpenAssets' = {}
           /\ reply = "error" => OpenAssets' \subseteq OpenAssets
           /\ late' \subseteq late \cup {[kind |-> kind, id |-> id]}
           /\ reply # "lost" => late' = late
<1> DEFINE request == [kind |-> kind, id |-> id]
<1>1. UNCHANGED batches => OpenAssets' = OpenAssets
  BY DEF OpenAssets, Open
<1>2. Refuse(request) => OpenAssets' = OpenAssets
  BY <1>1, FrozenKeepsAssets DEF Refuse
<1>3. Perform(request) =>
         \/ kind = "stage" /\ OpenAssets' = OpenAssets \cup {id}
         \/ kind # "stage" /\ OpenAssets' = {}
  BY PerformOpen
<1> QED
  BY <1>1, <1>2, <1>3 DEF Request

LEMMA NextStrandInv == TypeOK /\ StrandInv /\ [Next]_vars => StrandInv'
<1> SUFFICES ASSUME TypeOK, StrandInv, [Next]_vars PROVE StrandInv'
  OBVIOUS
<1>o. UNCHANGED batches => OpenAssets' = OpenAssets
  BY DEF OpenAssets, Open
<1>1. ASSUME NEW c \in Calls, Call(c) PROVE StrandInv'
  <2>o. \A d \in Calls : d # c => at'[d] = at[d]
    BY <1>1, CallRecords
  <2>1. CASE Stage(c)
    <3>1. PICK reply \in Replies :
             /\ Request([kind |-> "stage", id |-> c], reply)
             /\ lost' = IF reply = "lost" THEN lost \cup {c} ELSE lost
             /\ reply = "ok" => at'[c] \in Holding
      BY <2>1 DEF Stage, Goto, TypeOK, Holding
    <3>2. c \in OpenAssets => c \in lost
      BY <2>1 DEF StrandInv, OpenIsHeld, Stage, Holding
    <3>3. /\ OpenAssets' \subseteq OpenAssets \cup {c}
          /\ reply = "error" => OpenAssets' \subseteq OpenAssets
          /\ late' \subseteq late \cup {[kind |-> "stage", id |-> c]}
          /\ reply # "lost" => late' = late
      BY <3>1, RequestOpen
    <3>4. OpenIsHeld'
      BY <2>o, <3>1, <3>2, <3>3 DEF StrandInv, OpenIsHeld, Replies
    <3>5. LateStagesAreLost'
      BY <3>1, <3>3 DEF StrandInv, LateStagesAreLost
    <3> QED
      BY <3>4, <3>5 DEF StrandInv
  <2>2. CASE FinalizeBatch(c)
    <3>1. PICK reply \in Replies :
             /\ Request([kind |-> "finalize", id |-> c], reply)
             /\ reply # "ok" => at'[c] = "cancelling"
      BY <2>2 DEF FinalizeBatch, Accepted, GiveUp, Goto, TypeOK
    <3>2. /\ OpenAssets' \subseteq OpenAssets
          /\ reply = "ok" => OpenAssets' = {}
          /\ late' \subseteq late \cup {[kind |-> "finalize", id |-> c]}
      BY <3>1, RequestOpen
    <3>3. lost' = lost
      BY <2>2 DEF FinalizeBatch
    <3>4. OpenIsHeld'
      BY <2>o, <3>1, <3>2, <3>3 DEF StrandInv, OpenIsHeld, Holding
    <3>5. LateStagesAreLost'
      BY <3>2, <3>3 DEF StrandInv, LateStagesAreLost
    <3> QED
      BY <3>4, <3>5 DEF StrandInv
  <2>3. CASE CancelBatchBestEffort(c)
    <3>1. PICK reply \in Replies :
             /\ Request([kind |-> "cancel", id |-> c], reply)
             /\ lost' = IF reply = "ok" THEN lost ELSE lost \cup {c}
      BY <2>3 DEF CancelBatchBestEffort
    <3>2. /\ OpenAssets' \subseteq OpenAssets
          /\ reply = "ok" => OpenAssets' = {}
          /\ late' \subseteq late \cup {[kind |-> "cancel", id |-> c]}
      BY <3>1, RequestOpen
    <3>4. OpenIsHeld'
      BY <2>o, <3>1, <3>2 DEF StrandInv, OpenIsHeld
    <3>5. LateStagesAreLost'
      BY <3>1, <3>2 DEF StrandInv, LateStagesAreLost
    <3> QED
      BY <3>4, <3>5 DEF StrandInv
  <2>4. CASE FundBatch(c) \/ SignIssuance(c) \/ SealBatch(c)
    <3>1. at'[c] \in Holding /\ UNCHANGED <<batches, late, lost>>
      BY <2>4
         DEF FundBatch, SignIssuance, SealBatch, ExternalStep, GiveUp, Goto,
             TypeOK, Holding, tapd
    <3> QED
      BY <1>o, <2>o, <3>1 DEF StrandInv, OpenIsHeld, LateStagesAreLost
  <2>5. CASE Lock(c) \/ EnsureReady(c) \/ ListMintRecords(c) \/ NotStarted(c)
             \/ FindNewRecord(c) \/ ResolveTimeout(c) \/ ResolveFails(c)
    <3>1. at[c] \notin Holding /\ UNCHANGED <<batches, late, lost>>
      BY <2>5
         DEF Lock, EnsureReady, ListMintRecords, NotStarted, FindNewRecord,
             ResolveTimeout, ResolveFails, Holding, tapd
    <3> QED
      BY <1>o, <2>o, <3>1 DEF StrandInv, OpenIsHeld, LateStagesAreLost
  <2> QED
    BY <1>1, <2>1, <2>2, <2>3, <2>4, <2>5 DEF Call
<1>2. CASE LateArrival
  <2>1. PICK request \in late :
           late' = late \ {request} /\ (Perform(request) \/ UNCHANGED batches)
    BY <1>2 DEF LateArrival
  <2>2. UNCHANGED <<at, lost>>
    BY <1>2 DEF LateArrival, client
  <2>3. \A c \in OpenAssets' : c \in OpenAssets \/ c \in lost
    BY <1>o, <2>1, PerformOpen DEF StrandInv, LateStagesAreLost
  <2> QED
    BY <2>1, <2>2, <2>3 DEF StrandInv, OpenIsHeld, LateStagesAreLost
<1>3. CASE ForeignStage
  <2>1. PICK f \in Foreign : OpenAssets' = OpenAssets \cup {f}
    BY <1>3, StagedAssets DEF ForeignStage
  <2>2. UNCHANGED <<at, lost, late>>
    BY <1>3 DEF ForeignStage, client
  <2> QED
    BY <2>1, <2>2, CallAssumption DEF StrandInv, OpenIsHeld, LateStagesAreLost
<1>4. CASE ForeignEnd
  <2>1. OpenAssets' = {} /\ UNCHANGED <<at, lost, late>>
    BY <1>4, SealedLeavesNoneOpen DEF ForeignEnd, OpenAssets, client
  <2> QED
    BY <2>1 DEF StrandInv, OpenIsHeld, LateStagesAreLost
<1>5. CASE Show \/ UNCHANGED vars
  BY <1>5, <1>o
     DEF Show, vars, tapd, client, StrandInv, OpenIsHeld, LateStagesAreLost
<1>6. CASE Confirm
  <2>1. Open' = Open
    BY <1>6 DEF Confirm, Open
  <2> QED
    BY <1>6, <2>1
       DEF Confirm, client, StrandInv, OpenIsHeld, LateStagesAreLost, OpenAssets
<1> QED
  BY <1>1, <1>2, <1>3, <1>4, <1>5, <1>6 DEF Next, Environment

\* A failed call leaves an open batch behind only when tapd did not acknowledge
\* its staging or its cancellation.
THEOREM NothingStranded == Spec => []StrandedOnlyByLoss
<1>1. Init => StrandInv
  BY DEF Init, StrandInv, OpenIsHeld, LateStagesAreLost, OpenAssets, Open
<1>2. StrandInv => StrandedOnlyByLoss
  BY DEF StrandInv, OpenIsHeld, OpenAssets, StrandedOnlyByLoss, Holding, Critical
<1> QED
  BY <1>1, <1>2, NextStrandInv, TypeCorrect, PTL DEF Spec

-----------------------------------------------------------------------------
(* A call on any daemon: what is new among the wallet's own records when the *)
(* call looks for its mint is the call's, or was staged by a request that    *)
(* outlived an earlier call.                                                 *)

Staged == Holding \cup {"resolving"}

ActiveAssets ==
    UNION {b.assets : b \in {x \in batches : IsActiveMintBatch(x.state)}}

Escaped == IF Late THEN lost ELSE {}

\* The calls whose mints c must not mistake for its own.
Others(c) == Calls \ ({c} \cup Escaped)

OthersSettled ==
    \A c \in Calls :
        /\ at[c] \in {"listing", "staging"} \cup Staged =>
              Others(c) \cap ActiveAssets = {}
        /\ at[c] \in {"staging"} \cup Staged =>
              Others(c) \cap visible \subseteq before[c]

LateMeansLate == ~Late => late = {}

OwnInv == OthersSettled /\ LateMeansLate /\ ResultIsOwn

LEMMA MoveKeepsActive ==
    ASSUME NEW state, MoveOpen(state)
    PROVE  ActiveAssets' \subseteq ActiveAssets
BY DEF MoveOpen, ActiveAssets, Open, IsActiveMintBatch

LEMMA StageActive ==
    ASSUME NEW id, TapdStage(id)
    PROVE  ActiveAssets' \subseteq ActiveAssets \cup {id}
<1> DEFINE new == [assets |-> {id} \cup UNION {b.assets : b \in Open},
                   state |-> "Pending"]
<1>1. \A b \in Open : b.assets \subseteq ActiveAssets
  BY DEF ActiveAssets, Open, IsActiveMintBatch
<1>2. new.assets \subseteq ActiveAssets \cup {id}
  BY <1>1
<1>3. \A b \in batches' : b \in batches \/ b = new
  BY DEF TapdStage
<1> HIDE DEF new
<1> QED
  BY <1>2, <1>3 DEF ActiveAssets

LEMMA PerformActive ==
    ASSUME NEW request, Perform(request)
    PROVE  ActiveAssets' \subseteq ActiveAssets
              \cup (IF request.kind = "stage" THEN {request.id} ELSE {})
BY MoveKeepsActive, StageActive DEF Perform

LEMMA RequestActive ==
    ASSUME NEW kind, NEW c, NEW reply,
           Request([kind |-> kind, id |-> c], reply)
    PROVE  /\ ActiveAssets' \subseteq ActiveAssets \cup {c}
           /\ visible' = visible
           /\ LateMeansLate => LateMeansLate'
<1> DEFINE request == [kind |-> kind, id |-> c]
<1>1. UNCHANGED batches => ActiveAssets' = ActiveAssets
  BY DEF ActiveAssets
<1>2. Perform(request) => ActiveAssets' \subseteq ActiveAssets \cup {c}
  BY PerformActive
<1>3. Refuse(request) => ActiveAssets' \subseteq ActiveAssets
  BY <1>1, MoveKeepsActive DEF Refuse
<1> QED
  BY <1>1, <1>2, <1>3 DEF Request, LateMeansLate

LEMMA CallOwnInv ==
    ASSUME TypeOK, OwnInv, NEW c \in Calls, Call(c)
    PROVE  OwnInv'
<1>o. /\ \A d \in Calls : d # c => at'[d] = at[d] /\ at[d] \notin Critical
      /\ \A d \in Calls : d # c => before'[d] = before[d] /\ result'[d] = result[d]
  BY CallRecords, OneAtATime
<1>c. \A d \in Calls : d # c => at'[d] \notin Staged \cup {"listing", "staging"}
  BY <1>o DEF Critical, Staged, Holding
<1>l. lost \subseteq lost'
  BY DEF Call, Lock, EnsureReady, ListMintRecords, NotStarted, Stage, FundBatch,
         SignIssuance, SealBatch, ExternalStep, FinalizeBatch,
         CancelBatchBestEffort, FindNewRecord, ResolveTimeout, ResolveFails
<1>e. /\ Escaped \subseteq Escaped'
      /\ Others(c)' \subseteq Others(c)
  BY <1>l DEF Escaped, Others
<1>r. result' = result => ResultIsOwn'
  BY <1>l DEF OwnInv, ResultIsOwn
<1> USE DEF Goto, Leave, GiveUp, TypeOK
<1>1. CASE Stage(c) \/ FinalizeBatch(c) \/ CancelBatchBestEffort(c)
  <2>1. PICK kind \in {"stage", "finalize", "cancel"}, reply \in Replies :
           /\ Request([kind |-> kind, id |-> c], reply)
           /\ at'[c] \notin {"listing", "staging"}
           /\ UNCHANGED <<before, result>>
    BY <1>1 DEF Stage, FinalizeBatch, CancelBatchBestEffort
  <2>2. at[c] \in Staged \cup {"staging"}
    BY <1>1 DEF Stage, FinalizeBatch, CancelBatchBestEffort, Staged, Holding
  <2>3. /\ ActiveAssets' \subseteq ActiveAssets \cup {c}
        /\ visible' = visible /\ LateMeansLate'
    BY <2>1, RequestActive DEF OwnInv
  <2>4. c \notin Others(c)
    BY DEF Others
  <2>5. OthersSettled'
    BY <1>c, <1>e, <2>1, <2>2, <2>3, <2>4 DEF OwnInv, OthersSettled
  <2> QED
    BY <1>r, <2>1, <2>3, <2>5 DEF OwnInv
<1>2. CASE UNCHANGED <<batches, late, visible, lost>>
  <2>a. /\ ActiveAssets' = ActiveAssets /\ Others(c)' = Others(c)
        /\ LateMeansLate'
    BY <1>2 DEF ActiveAssets, Others, Escaped, OwnInv, LateMeansLate
  <2>1. CASE Lock(c) \/ EnsureReady(c)
    <3>1. /\ at'[c] \in {"checking", "failed", "listing"}
          /\ at'[c] = "listing" => ActiveAssets = {}
          /\ UNCHANGED <<before, result>>
      BY <2>1 DEF Lock, EnsureReady, ActiveAssets
    <3>2. OthersSettled'
      BY <1>c, <2>a, <3>1 DEF OthersSettled, Staged, Holding
    <3> QED
      BY <1>r, <2>a, <3>1, <3>2 DEF OwnInv
  <2>2. CASE ListMintRecords(c)
    <3>1. /\ at[c] = "listing" /\ at'[c] = "staging"
          /\ before'[c] = visible /\ UNCHANGED result
      BY <2>2 DEF ListMintRecords, RecordIDs
    <3>2. OthersSettled'
      BY <1>2, <1>c, <2>a, <3>1 DEF OwnInv, OthersSettled, Staged, Holding
    <3> QED
      BY <1>r, <2>a, <3>1, <3>2 DEF OwnInv
  <2>3. CASE FundBatch(c) \/ SignIssuance(c) \/ SealBatch(c)
    <3>1. at[c] \in Holding /\ at'[c] \in Holding /\ UNCHANGED <<before, result>>
      BY <2>3 DEF FundBatch, SignIssuance, SealBatch, ExternalStep, Holding
    <3>2. OthersSettled'
      BY <1>2, <1>c, <2>a, <3>1 DEF OwnInv, OthersSettled, Staged, Holding
    <3> QED
      BY <1>r, <2>a, <3>1, <3>2 DEF OwnInv
  <2>4. CASE NotStarted(c) \/ ResolveFails(c) \/ ResolveTimeout(c)
    <3>1. at'[c] \in {"failed", "timedOut"} /\ UNCHANGED <<before, result>>
      BY <2>4 DEF NotStarted, ResolveFails, ResolveTimeout
    <3>2. OthersSettled'
      BY <1>c, <2>a, <3>1 DEF OthersSettled, Staged, Holding
    <3> QED
      BY <1>r, <2>a, <3>1, <3>2 DEF OwnInv
  <2>5. CASE FindNewRecord(c)
    <3>1. /\ at[c] = "resolving" /\ at'[c] = "returned"
          /\ result'[c] \in visible \ before[c] /\ UNCHANGED before
      BY <2>5 DEF FindNewRecord
    <3>2. result'[c] \notin Others(c)
      BY <3>1 DEF OwnInv, OthersSettled, Staged
    <3>3. result'[c] \in {c} \cup Foreign \cup Escaped
      BY <3>1, <3>2 DEF Others, Assets
    <3>4. ResultIsOwn'
      BY <1>2, <1>o, <3>3 DEF OwnInv, ResultIsOwn, Escaped
    <3>5. OthersSettled'
      BY <1>c, <2>a, <3>1 DEF OthersSettled, Staged, Holding
    <3> QED
      BY <2>a, <3>4, <3>5 DEF OwnInv
  <2>6. CASE Stage(c) \/ FinalizeBatch(c) \/ CancelBatchBestEffort(c)
    BY <1>1, <2>6
  <2> QED
    BY <2>1, <2>2, <2>3, <2>4, <2>5, <2>6 DEF Call
<1> QED
  BY <1>1, <1>2
     DEF Call, Lock, EnsureReady, ListMintRecords, NotStarted, FundBatch,
         SignIssuance, SealBatch, ExternalStep, FindNewRecord, ResolveTimeout,
         ResolveFails, tapd

\* Others' requests stage what belongs to no call, or to one that escaped.
LEMMA EnvironmentOwnInv ==
    ASSUME TypeOK, StrandInv, OwnInv, Environment
    PROVE  OwnInv'
<1>1. /\ UNCHANGED <<at, before, result, lost>>
      /\ late' \subseteq late
  BY DEF Environment, LateArrival, ForeignStage, ForeignEnd, Show, Confirm, client
<1>2. \A c \in Calls : Others(c)' = Others(c)
  BY <1>1 DEF Others, Escaped
<1>3. /\ \A c \in Calls : Others(c) \cap ActiveAssets' \subseteq ActiveAssets
      /\ visible' \subseteq visible \cup ActiveAssets
  <2>1. CASE LateArrival
    <3>1. PICK request \in late : Perform(request) \/ UNCHANGED batches
      BY <2>1 DEF LateArrival
    <3>2. request.kind = "stage" => request.id \in Escaped
      BY <3>1 DEF StrandInv, LateStagesAreLost, OwnInv, LateMeansLate, Escaped
    <3>3. ActiveAssets' \subseteq ActiveAssets \cup Escaped
      BY <3>1, <3>2, PerformActive DEF ActiveAssets
    <3> QED
      BY <2>1, <3>3 DEF LateArrival, Others
  <2>2. CASE ForeignStage
    <3>1. PICK f \in Foreign : TapdStage(f)
      BY <2>2 DEF ForeignStage
    <3>2. ActiveAssets' \subseteq ActiveAssets \cup {f}
      BY <3>1, StageActive
    <3> QED
      BY <2>2, <3>1, <3>2, CallAssumption DEF ForeignStage, Others
  <2>3. CASE ForeignEnd
    BY <2>3, MoveKeepsActive DEF ForeignEnd
  <2>4. CASE Show
    BY <2>4 DEF Show, ActiveAssets, IsActiveMintBatch
  <2>5. CASE Confirm
    BY <2>5 DEF Confirm, ActiveAssets, IsActiveMintBatch
  <2> QED
    BY <2>1, <2>2, <2>3, <2>4, <2>5 DEF Environment
<1>4. OthersSettled'
  BY <1>1, <1>2, <1>3 DEF OwnInv, OthersSettled
<1> QED
  BY <1>1, <1>4 DEF OwnInv, LateMeansLate, ResultIsOwn

\* On any daemon a call returns what it minted itself, or another user's lookalike,
\* however its twins failed before it; what came late may be mistaken, too.
THEOREM OwnResult == Spec => []ResultIsOwn
<1>1. Init => OwnInv
  BY DEF Init, OwnInv, OthersSettled, LateMeansLate, ResultIsOwn, Staged, Holding
<1>2. TypeOK /\ StrandInv /\ OwnInv /\ [Next]_vars => OwnInv'
  <2>1. OwnInv /\ UNCHANGED vars => OwnInv'
    BY DEF vars, client, tapd, OwnInv, OthersSettled, LateMeansLate, ResultIsOwn,
           Others, Escaped, ActiveAssets
  <2> QED
    BY <2>1, CallOwnInv, EnvironmentOwnInv DEF Next
<1>3. Init => StrandInv
  BY DEF Init, StrandInv, OpenIsHeld, LateStagesAreLost, OpenAssets, Open
<1>4. OwnInv => ResultIsOwn
  BY DEF OwnInv
<1> QED
  BY <1>1, <1>2, <1>3, <1>4, NextStrandInv, TypeCorrect, PTL DEF Spec

-----------------------------------------------------------------------------
(* A wallet alone on its daemon *)

ActiveIsOwn ==
    \A c \in Calls, b \in batches :
        IsActiveMintBatch(b.state) =>
            /\ at[c] \notin {"listing", "staging"}
            /\ at[c] \in Staged => b.assets = {c}

Minted(c) ==
    \E b \in batches : c \in b.assets /\ b.state \in {"Broadcast", "Confirmed"}

AcceptedIsMinted ==
    \A c \in Calls : at[c] \in {"resolving", "timedOut"} => Minted(c)

AloneInv ==
    late = {} /\ ActiveIsOwn /\ AcceptedIsMinted

\* What one request of the only staged call does to the batches.
LEMMA RequestAlone ==
    ASSUME Alone, late = {}, NEW c, NEW kind \in {"stage", "finalize", "cancel"},
           NEW reply, Request([kind |-> kind, id |-> c], reply),
           \A b \in batches : IsActiveMintBatch(b.state) => b.assets = {c}
    PROVE  /\ late' = {} /\ visible' = visible
           /\ \A b \in batches' : IsActiveMintBatch(b.state) => b.assets = {c}
           /\ \A b \in batches : b.state \in {"Broadcast", "Confirmed"}
                                => b \in batches'
           /\ kind = "finalize" /\ reply = "ok" => Minted(c)'
<1> DEFINE request == [kind |-> kind, id |-> c]
<1>1. \A b \in Open : b \in batches /\ IsActiveMintBatch(b.state)
  BY DEF Open, IsActiveMintBatch
<1>2. ASSUME NEW state, MoveOpen(state)
      PROVE  /\ \A b \in batches' : IsActiveMintBatch(b.state) => b.assets = {c}
             /\ \A b \in batches : b.state \in {"Broadcast", "Confirmed"}
                                  => b \in batches'
             /\ \E b \in batches' : c \in b.assets /\ b.state = state
  <2>1. batches' = (batches \ Open)
                     \cup {[assets |-> b.assets, state |-> state] : b \in Open}
    BY <1>2 DEF MoveOpen
  <2>2. \A b \in Open : b.assets = {c}
    BY <1>1
  <2>3. PICK o \in Open : TRUE
    BY <1>2 DEF MoveOpen
  <2>4. [assets |-> o.assets, state |-> state] \in batches'
    BY <2>1, <2>3
  <2>5. \A b \in batches' : IsActiveMintBatch(b.state) => b.assets = {c}
    BY <2>1, <2>2
  <2>6. \A b \in batches : b.state \in {"Broadcast", "Confirmed"} => b \in batches'
    BY <2>1 DEF Open
  <2>7. \E b \in batches' : c \in b.assets /\ b.state = state
    BY <2>2, <2>3, <2>4
  <2> QED
    BY <2>5, <2>6, <2>7
<1>3. ASSUME TapdStage(c)
      PROVE  /\ \A b \in batches' : IsActiveMintBatch(b.state) => b.assets = {c}
             /\ \A b \in batches : b.state \in {"Broadcast", "Confirmed"}
                                  => b \in batches'
  <2>1. {c} \cup UNION {b.assets : b \in Open} = {c}
    BY <1>1
  <2> QED
    BY <1>3, <2>1 DEF TapdStage, Open
<1>4. CASE reply = "ok" /\ Perform(request) /\ UNCHANGED <<late, visible>>
  BY <1>2, <1>3, <1>4 DEF Perform, Minted
<1>5. CASE reply = "error" /\ Refuse(request) /\ UNCHANGED <<late, visible>>
  BY <1>2, <1>5 DEF Refuse
<1>6. CASE /\ reply = "lost" /\ (Perform(request) \/ UNCHANGED batches)
           /\ UNCHANGED <<late, visible>>
  BY <1>2, <1>3, <1>6 DEF Perform
<1> QED
  BY <1>4, <1>5, <1>6 DEF Request, Alone

LEMMA MintedStays ==
    ASSUME NEW c, Minted(c),
           \A b \in batches : b.state \in {"Broadcast", "Confirmed"} => b \in batches'
    PROVE  Minted(c)'
BY DEF Minted

LEMMA CallAloneInv ==
    ASSUME Alone, TypeOK, AloneInv, NEW c \in Calls, Call(c)
    PROVE  AloneInv'
<1>o. /\ \A d \in Calls : d # c => at'[d] = at[d] /\ at[d] \notin Critical
      /\ \A d \in Calls : d # c => before'[d] = before[d] /\ result'[d] = result[d]
  BY CallRecords, OneAtATime
<1>c. \A d \in Calls : d # c => at'[d] \notin Staged \cup {"listing", "staging"}
  BY <1>o DEF Critical, Staged, Holding
<1> USE DEF Goto, Leave, GiveUp, TypeOK
<1>1. CASE Stage(c) \/ FinalizeBatch(c) \/ CancelBatchBestEffort(c)
  <2>1. PICK kind \in {"stage", "finalize", "cancel"}, reply \in Replies :
           /\ Request([kind |-> kind, id |-> c], reply)
           /\ at'[c] \notin {"listing", "staging", "timedOut"}
           /\ at'[c] = "resolving" => kind = "finalize" /\ reply = "ok"
           /\ UNCHANGED <<before, result>>
    BY <1>1 DEF Stage, FinalizeBatch, CancelBatchBestEffort, Accepted
  <2>2. at[c] \in Staged \cup {"staging"}
    BY <1>1 DEF Stage, FinalizeBatch, CancelBatchBestEffort, Staged, Holding
  <2>3. \A b \in batches : IsActiveMintBatch(b.state) => b.assets = {c}
    BY <2>2 DEF AloneInv, ActiveIsOwn
  <2>4. /\ late' = {} /\ visible' = visible
        /\ \A b \in batches' : IsActiveMintBatch(b.state) => b.assets = {c}
        /\ \A b \in batches : b.state \in {"Broadcast", "Confirmed"}
                             => b \in batches'
        /\ kind = "finalize" /\ reply = "ok" => Minted(c)'
    BY <2>1, <2>3, RequestAlone DEF AloneInv
  <2>5. ActiveIsOwn'
    BY <1>c, <2>1, <2>4 DEF ActiveIsOwn
  <2>7. AcceptedIsMinted'
    BY <1>o, <2>1, <2>4, MintedStays DEF AloneInv, AcceptedIsMinted
  <2> QED
    BY <2>4, <2>5, <2>7 DEF AloneInv
<1>2. CASE UNCHANGED <<batches, late, visible>>
  <2>a. \A d : Minted(d) => Minted(d)'
    BY <1>2 DEF Minted
  <2>1. CASE Lock(c) \/ EnsureReady(c)
    <3>1. /\ at'[c] \in {"checking", "failed", "listing"}
          /\ at'[c] = "listing" =>
                \A b \in batches : ~IsActiveMintBatch(b.state)
          /\ UNCHANGED <<before, result>>
      BY <2>1 DEF Lock, EnsureReady
    <3> QED
      BY <1>2, <1>o, <1>c, <2>a, <3>1
         DEF AloneInv, ActiveIsOwn, AcceptedIsMinted,
             Staged, Holding
  <2>2. CASE ListMintRecords(c)
    <3>1. /\ at[c] = "listing" /\ at'[c] = "staging"
          /\ before'[c] = visible /\ UNCHANGED result
      BY <2>2 DEF ListMintRecords, RecordIDs
    <3> QED
      BY <1>2, <1>o, <1>c, <2>a, <3>1
         DEF AloneInv, ActiveIsOwn, AcceptedIsMinted,
             Staged, Holding
  <2>3. CASE FundBatch(c) \/ SignIssuance(c) \/ SealBatch(c)
    <3>1. at[c] \in Holding /\ at'[c] \in Holding /\ UNCHANGED <<before, result>>
      BY <2>3 DEF FundBatch, SignIssuance, SealBatch, ExternalStep, Holding
    <3> QED
      BY <1>2, <1>o, <1>c, <2>a, <3>1
         DEF AloneInv, ActiveIsOwn, AcceptedIsMinted,
             Staged, Holding
  <2>4. CASE NotStarted(c) \/ ResolveFails(c) \/ ResolveTimeout(c)
    <3>1. /\ at'[c] \in {"failed", "timedOut"} /\ UNCHANGED <<before, result>>
          /\ at'[c] = "timedOut" => at[c] = "resolving"
      BY <2>4 DEF NotStarted, ResolveFails, ResolveTimeout
    <3> QED
      BY <1>2, <1>o, <1>c, <2>a, <3>1
         DEF AloneInv, ActiveIsOwn, AcceptedIsMinted,
             Staged, Holding
  <2>5. CASE FindNewRecord(c)
    <3>1. /\ at[c] = "resolving" /\ at'[c] = "returned"
      BY <2>5 DEF FindNewRecord
    <3> QED
      BY <1>2, <1>o, <1>c, <2>a, <3>1
         DEF AloneInv, ActiveIsOwn, AcceptedIsMinted,
             Staged, Holding
  <2>6. CASE Stage(c) \/ FinalizeBatch(c) \/ CancelBatchBestEffort(c)
    BY <1>1, <2>6
  <2> QED
    BY <2>1, <2>2, <2>3, <2>4, <2>5, <2>6 DEF Call
<1> QED
  BY <1>1, <1>2
     DEF Call, Lock, EnsureReady, ListMintRecords, NotStarted, FundBatch,
         SignIssuance, SealBatch, ExternalStep, FindNewRecord, ResolveTimeout,
         ResolveFails, tapd

LEMMA EnvironmentAloneInv == Alone /\ TypeOK /\ AloneInv /\ Environment => AloneInv'
<1> SUFFICES ASSUME Alone, TypeOK, AloneInv, Environment PROVE AloneInv'
  OBVIOUS
<1> USE DEF AloneInv, ActiveIsOwn, AcceptedIsMinted, client
<1>1. CASE LateArrival \/ ForeignStage \/ ForeignEnd
  BY <1>1 DEF LateArrival, ForeignStage, ForeignEnd, Alone
<1>2. CASE Show
  BY <1>2 DEF Show, Minted, IsActiveMintBatch
<1>3. CASE Confirm
  <2>1. PICK b \in batches :
           /\ b.state = "Broadcast"
           /\ batches' = (batches \ {b})
                           \cup {[assets |-> b.assets, state |-> "Confirmed"]}
           /\ visible' = visible \cup b.assets
    BY <1>3 DEF Confirm
  <2>2. UNCHANGED <<at, before, result, late>>
    BY <1>3 DEF Confirm
  <2>3. ASSUME NEW d, Minted(d) PROVE Minted(d)'
    <3>1. PICK x \in batches : d \in x.assets /\ x.state \in {"Broadcast", "Confirmed"}
      BY <2>3 DEF Minted
    <3>2. CASE x = b
      <4>1. [assets |-> b.assets, state |-> "Confirmed"] \in batches'
        BY <2>1
      <4> QED
        BY <3>1, <3>2, <4>1 DEF Minted
    <3>3. CASE x # b
      BY <2>1, <3>1, <3>3 DEF Minted
    <3> QED
      BY <3>2, <3>3
  <2>4. ActiveIsOwn'
    BY <2>1, <2>2 DEF IsActiveMintBatch
  <2> QED
    BY <2>2, <2>3, <2>4
<1> QED
  BY <1>1, <1>2, <1>3 DEF Environment

LEMMA SpecAloneInv == Alone => (Spec => []AloneInv)
<1> SUFFICES ASSUME Alone PROVE Spec => []AloneInv
  OBVIOUS
<1>1. Init => AloneInv
  BY DEF Init, AloneInv, ActiveIsOwn, AcceptedIsMinted
<1>2. TypeOK /\ AloneInv /\ [Next]_vars => AloneInv'
  <2>1. AloneInv /\ UNCHANGED vars => AloneInv'
    BY DEF vars, client, tapd, AloneInv, ActiveIsOwn,
           AcceptedIsMinted, Minted
  <2> QED
    BY <2>1, CallAloneInv, EnvironmentAloneInv DEF Next
<1> QED
  BY <1>1, <1>2, TypeCorrect, PTL DEF Spec

-----------------------------------------------------------------------------
(* Whoever else uses the daemon: a staged mint stays in some batch, and is in *)
(* a closed one once the finalization was acknowledged.                        *)

InBatch(c) == \E b \in batches : c \in b.assets

InClosedBatch(c) ==
    \E b \in batches : c \in b.assets /\ ~IsUnsealedBatch(b.state)

StagedIsKept ==
    \A c \in Calls :
        /\ at[c] \in {"funding", "signing", "sealing", "finalizing"} => InBatch(c)
        /\ at[c] \in {"resolving", "timedOut"} => InClosedBatch(c)

\* No mint leaves tapd's batches, and a closed batch stays closed.
NothingUnstaged ==
    \A d : (InBatch(d) => InBatch(d)') /\ (InClosedBatch(d) => InClosedBatch(d)')

LEMMA MoveKeepsMints ==
    ASSUME NEW state, MoveOpen(state)
    PROVE  NothingUnstaged
<1>1. ASSUME NEW b \in batches
      PROVE  \E x \in batches' : x.assets = b.assets /\ (b \notin Open => x = b)
  <2>1. CASE b \in Open
    <3>1. [assets |-> b.assets, state |-> state] \in batches'
      BY <2>1 DEF MoveOpen
    <3> QED
      BY <2>1, <3>1
  <2>2. CASE b \notin Open
    BY <2>2 DEF MoveOpen
  <2> QED
    BY <2>1, <2>2
<1> QED
  BY <1>1 DEF NothingUnstaged, InBatch, InClosedBatch, Open, IsUnsealedBatch

LEMMA StageKeepsMints ==
    ASSUME NEW id, TapdStage(id)
    PROVE  NothingUnstaged /\ InBatch(id)'
<1> DEFINE new == [assets |-> {id} \cup UNION {b.assets : b \in Open},
                   state |-> "Pending"]
<1>1. new \in batches' /\ \A b \in batches : b \in Open \/ b \in batches'
  BY DEF TapdStage
<1>2. id \in new.assets /\ \A b \in Open : b.assets \subseteq new.assets
  OBVIOUS
<1>3. \A b \in Open : IsUnsealedBatch(b.state)
  BY DEF Open, IsUnsealedBatch
<1> HIDE DEF new
<1> QED
  BY <1>1, <1>2, <1>3 DEF NothingUnstaged, InBatch, InClosedBatch

LEMMA PerformKeepsMints ==
    ASSUME NEW request, Perform(request)
    PROVE  /\ NothingUnstaged
           /\ request.kind = "stage" => InBatch(request.id)'
           /\ request.kind = "finalize" => Open' = {}
BY MoveKeepsMints, StageKeepsMints, SealedLeavesNoneOpen DEF Perform

LEMMA RequestKeepsMints ==
    ASSUME NEW kind, NEW c, NEW reply, Request([kind |-> kind, id |-> c], reply)
    PROVE  /\ NothingUnstaged
           /\ kind = "stage" /\ reply = "ok" => InBatch(c)'
           /\ kind = "finalize" /\ reply = "ok" => Open' = {}
<1> DEFINE request == [kind |-> kind, id |-> c]
<1>1. UNCHANGED batches => NothingUnstaged
  BY DEF NothingUnstaged, InBatch, InClosedBatch
<1>2. Perform(request) => /\ NothingUnstaged
                          /\ kind = "stage" => InBatch(c)'
                          /\ kind = "finalize" => Open' = {}
  BY PerformKeepsMints
<1>3. Refuse(request) => NothingUnstaged
  BY <1>1, MoveKeepsMints DEF Refuse
<1> QED
  BY <1>1, <1>2, <1>3 DEF Request

LEMMA CallKeepsStaged ==
    ASSUME TypeOK, StagedIsKept, NEW c \in Calls, Call(c)
    PROVE  StagedIsKept'
<1>o. \A d \in Calls : d # c => at'[d] = at[d]
  BY CallRecords, OneAtATime
<1> USE DEF Goto, Leave, GiveUp, TypeOK
<1>1. ASSUME NothingUnstaged,
             /\ at'[c] \in {"funding", "signing", "sealing", "finalizing"} => InBatch(c)'
             /\ at'[c] \in {"resolving", "timedOut"} => InClosedBatch(c)'
      PROVE  StagedIsKept'
  BY <1>o, <1>1 DEF StagedIsKept, NothingUnstaged
<1>2. CASE Stage(c)
  <2>1. PICK reply \in Replies :
           /\ Request([kind |-> "stage", id |-> c], reply)
           /\ at'[c] \notin {"resolving", "timedOut"}
           /\ reply # "ok" => at'[c] = "failed"
    BY <1>2 DEF Stage
  <2> QED
    BY <1>1, <2>1, RequestKeepsMints
<1>3. CASE FinalizeBatch(c)
  <2>1. PICK reply \in Replies :
           /\ Request([kind |-> "finalize", id |-> c], reply)
           /\ at'[c] = IF reply = "ok" THEN "resolving" ELSE "cancelling"
    BY <1>3 DEF FinalizeBatch, Accepted
  <2>2. InBatch(c)
    BY <1>3 DEF FinalizeBatch, StagedIsKept
  <2>3. NothingUnstaged /\ (reply = "ok" => Open' = {})
    BY <2>1, RequestKeepsMints
  <2>4. InBatch(c)'
    BY <2>2, <2>3 DEF NothingUnstaged
  <2>5. Open' = {} => InClosedBatch(c)'
    BY <2>4 DEF InBatch, InClosedBatch, Open, IsUnsealedBatch
  <2> QED
    BY <1>1, <2>1, <2>3, <2>5
<1>4. CASE CancelBatchBestEffort(c)
  <2>1. PICK reply : Request([kind |-> "cancel", id |-> c], reply)
    BY <1>4 DEF CancelBatchBestEffort
  <2>2. at'[c] = "failed"
    BY <1>4 DEF CancelBatchBestEffort
  <2> QED
    BY <1>1, <2>1, <2>2, RequestKeepsMints
<1>5. CASE ~(Stage(c) \/ FinalizeBatch(c) \/ CancelBatchBestEffort(c))
  <2>1. UNCHANGED batches
    BY <1>5 DEF Call, Lock, EnsureReady, ListMintRecords, NotStarted, FundBatch,
                SignIssuance, SealBatch, ExternalStep, FindNewRecord, ResolveTimeout,
                ResolveFails, tapd
  <2>2. /\ NothingUnstaged
        /\ InBatch(c) => InBatch(c)'
        /\ InClosedBatch(c) => InClosedBatch(c)'
    BY <2>1 DEF NothingUnstaged, InBatch, InClosedBatch
  <2>3. /\ at'[c] \in {"funding", "signing", "sealing", "finalizing"} =>
              at[c] \in {"funding", "signing", "sealing"}
        /\ at'[c] \in {"resolving", "timedOut"} => at[c] = "resolving"
    BY <1>5 DEF Call, Lock, EnsureReady, ListMintRecords, NotStarted, FundBatch,
                SignIssuance, SealBatch, ExternalStep, FindNewRecord, ResolveTimeout,
                ResolveFails
  <2> QED
    BY <1>1, <2>2, <2>3 DEF StagedIsKept
<1> QED
  BY <1>2, <1>3, <1>4, <1>5

LEMMA EnvironmentKeepsStaged ==
    ASSUME StagedIsKept, Environment
    PROVE  StagedIsKept'
<1>1. UNCHANGED at
  BY DEF Environment, LateArrival, ForeignStage, ForeignEnd, Show, Confirm, client
<1>2. CASE UNCHANGED batches
  BY <1>1, <1>2 DEF StagedIsKept, InBatch, InClosedBatch
<1>3. CASE NothingUnstaged
  BY <1>1, <1>3 DEF StagedIsKept, NothingUnstaged
<1>4. CASE Confirm
  <2>1. PICK b \in batches :
           /\ b.state = "Broadcast"
           /\ batches' = (batches \ {b})
                           \cup {[assets |-> b.assets, state |-> "Confirmed"]}
    BY <1>4 DEF Confirm
  <2>2. [assets |-> b.assets, state |-> "Confirmed"] \in batches'
    BY <2>1
  <2>3. \A x \in batches : x = b \/ x \in batches'
    BY <2>1
  <2>4. NothingUnstaged
    BY <2>2, <2>3 DEF NothingUnstaged, InBatch, InClosedBatch, IsUnsealedBatch
  <2> QED
    BY <1>3, <2>4
<1> QED
  BY <1>2, <1>3, <1>4, PerformKeepsMints, StageKeepsMints, MoveKeepsMints
     DEF Environment, LateArrival, ForeignStage, ForeignEnd, Show

\* ErrMintResolveTimeout is no rejection: tapd took the mint, whoever else uses the
\* daemon and whatever comes late; only another user's cancellation, or a late one,
\* can have undone it since.
THEOREM TimeoutIsNoRejection == Spec => []TimeoutMeansAccepted
<1>1. Alone /\ AloneInv => TimeoutMeansAccepted
  BY DEF AloneInv, AcceptedIsMinted, Minted, TimeoutMeansAccepted
<1>2. ~Alone /\ TypeOK /\ StagedIsKept => TimeoutMeansAccepted
  BY DEF TypeOK, Batches, States, StagedIsKept, InClosedBatch, IsUnsealedBatch,
         TimeoutMeansAccepted
<1>3. Init => StagedIsKept
  BY DEF Init, StagedIsKept
<1>4. TypeOK /\ StagedIsKept /\ [Next]_vars => StagedIsKept'
  <2>1. StagedIsKept /\ UNCHANGED vars => StagedIsKept'
    BY DEF vars, client, tapd, StagedIsKept, InBatch, InClosedBatch
  <2> QED
    BY <2>1, CallKeepsStaged, EnvironmentKeepsStaged DEF Next
<1>5. CASE Alone
  BY <1>1, <1>5, SpecAloneInv, PTL
<1>6. CASE ~Alone
  BY <1>2, <1>3, <1>4, <1>6, TypeCorrect, PTL DEF Spec
<1> QED
  BY <1>5, <1>6

-----------------------------------------------------------------------------
(* The coordinator's sessions *)

\* Every step of the coordinator is a step of the issuer, or leaves it alone.
LEMMA NextIsIssuers == [CoordinatorNext]_cvars => [Next]_vars
<1> SUFFICES ASSUME [CoordinatorNext]_cvars PROVE [Next]_vars
  OBVIOUS
<1>1. CASE UNCHANGED cvars
  BY <1>1 DEF cvars
<1>2. CASE Daemon
  BY <1>2 DEF Daemon, Next
<1>3. ASSUME NEW s \in Sessions, Session(s) PROVE [Next]_vars
  <2>0. s \in Calls
    BY CallAssumption DEF Sessions
  <2>1. CASE MintStep(s)
    BY <2>0, <2>1 DEF MintStep, Next
  <2>2. CASE TakeSignature(s)
    <3>1. SignIssuance(s) \/ UNCHANGED vars
      BY <2>2 DEF TakeSignature
    <3> QED  BY <2>0, <3>1 DEF Next, Call
  <2>3. CASE StartSession(s) \/ SubmitSignature(s) \/ LockMint(s)
    BY <2>3 DEF StartSession, SubmitSignature, LockMint
  <2>4. CASE StartMintFinalityWatcher(s) \/ AskSignature(s) \/ MintFailed(s)
    BY <2>4 DEF StartMintFinalityWatcher, AskSignature, MintFailed
  <2>5. CASE AcceptSession(s) \/ StartMining(s) \/ MineBlocks(s) \/ Wait(s)
    BY <2>5 DEF AcceptSession, StartMining, MineBlocks, Wait
  <2>6. CASE HearEvent(s) \/ StreamEnds(s)
    BY <2>6 DEF HearEvent, StreamEnds
  <2> QED  BY <1>3, <2>1, <2>2, <2>3, <2>4, <2>5, <2>6 DEF Session
<1> QED  BY <1>1, <1>2, <1>3 DEF CoordinatorNext

\* The coordinator implements the issuer: nothing it adds around a call, the
\* signer that waits for its user included, lets the call do what an issuer
\* call does not (service.go:189-251).
THEOREM CoordinatorIsAnIssuer == CoordinatorSpec => Spec
<1>1. CoordinatorInit => Init
  BY DEF CoordinatorInit
<1> QED  BY <1>1, NextIsIssuers, PTL DEF CoordinatorSpec, Spec

\* Two sessions never report the same record, whatever else the daemon mints.
THEOREM OneSessionPerRecord == CoordinatorSpec => []NoRecordReturnedTwice
BY CoordinatorIsAnIssuer, OneCallPerRecord, PTL

\* A session that fails leaves a batch open only if tapd did not acknowledge one
\* of its requests.
THEOREM SessionsStrandNothing == CoordinatorSpec => []StrandedOnlyByLoss
BY CoordinatorIsAnIssuer, NothingStranded, PTL

Runs ==
    {"none", "queued", "subscribing", "minting", "asking", "accepted", "mining",
     "awaiting", "over"}

\* The goroutine of a session that ended is over, so only its watcher and its
\* user could still touch it.
EndInv ==
    /\ status \in [Sessions -> Statuses]
    /\ run \in [Sessions -> Runs]
    /\ \A s \in Sessions : status[s] \in Ended => run[s] = "over"

LEMMA InitEndInv == CoordinatorInit => EndInv
BY DEF CoordinatorInit, EndInv, Statuses, Runs, Ended

LEMMA StepKeepsEnd ==
    ASSUME EndInv, NEW s \in Sessions, Session(s)
    PROVE  EndInv' /\ \A t \in Sessions : status[t] \in Ended => status'[t] = status[t]
<1> USE DEF EndInv, Statuses, Runs, Ended, ShowAs, RunTo
<1>1. CASE MintStep(s)
  BY <1>1 DEF MintStep
<1>2. CASE TakeSignature(s)
  BY <1>2 DEF TakeSignature
<1>3. CASE StartSession(s)
  BY <1>3 DEF StartSession
<1>4. CASE SubmitSignature(s)
  BY <1>4 DEF SubmitSignature
<1>5. CASE LockMint(s)
  BY <1>5 DEF LockMint
<1>6. CASE StartMintFinalityWatcher(s)
  BY <1>6 DEF StartMintFinalityWatcher, End
<1>7. CASE AskSignature(s)
  BY <1>7 DEF AskSignature
<1>8. CASE MintFailed(s)
  BY <1>8 DEF MintFailed, End
<1>9. CASE AcceptSession(s)
  BY <1>9 DEF AcceptSession
<1>10. CASE StartMining(s)
  BY <1>10 DEF StartMining
<1>11. CASE MineBlocks(s)
  BY <1>11 DEF MineBlocks, End
<1>12. CASE Wait(s)
  BY <1>12 DEF Wait, End
<1>13. CASE HearEvent(s)
  <2>1. run' = run
    BY <1>13 DEF HearEvent
  <2>2. \/ status' = status
        \/ /\ status[s] = "signature_submitted"
           /\ ShowAs(s, "waiting_confirmation")
    BY <1>13 DEF HearEvent, Observed
  <2> QED  BY <2>1, <2>2
<1>14. CASE StreamEnds(s)
  BY <1>14 DEF StreamEnds, session
<1> QED
  BY <1>1, <1>2, <1>3, <1>4, <1>5, <1>6, <1>7, <1>8, <1>9, <1>10, <1>11, <1>12,
     <1>13, <1>14 DEF Session

LEMMA NextEndInv ==
    EndInv /\ [CoordinatorNext]_cvars =>
        EndInv' /\ \A s \in Sessions : status[s] \in Ended => status'[s] = status[s]
<1> SUFFICES ASSUME EndInv, [CoordinatorNext]_cvars
             PROVE  /\ EndInv'
                    /\ \A s \in Sessions :
                          status[s] \in Ended => status'[s] = status[s]
  OBVIOUS
<1>1. CASE UNCHANGED cvars
  BY <1>1 DEF EndInv, cvars, coordinator, session
<1>2. CASE Daemon
  BY <1>2 DEF EndInv, Daemon, session
<1> QED  BY <1>1, <1>2, StepKeepsEnd DEF CoordinatorNext

\* What a session has become when it ended is final, although its watcher goes
\* on hearing of mints (service.go:391-413, mint_events.go:75-147).
THEOREM EndIsFinal == CoordinatorSpec => SessionsEndOnce
<1>1. EndInv /\ [CoordinatorNext]_cvars =>
          [\A s \in Sessions : status[s] \in Ended => status'[s] = status[s]]_cvars
  BY NextEndInv
<1> QED  BY <1>1, InitEndInv, NextEndInv, PTL DEF CoordinatorSpec, SessionsEndOnce
=============================================================================
