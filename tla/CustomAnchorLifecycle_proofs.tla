-------------------- MODULE CustomAnchorLifecycle_proofs --------------------
(***************************************************************************)
(* CustomAnchorLifecycle implements CustomAnchorTransfer, for every plan,  *)
(* every set of answers, every mix of error codes and any number of calls. *)
(*                                                                         *)
(* Two facts carry the argument.  RequestsAreOurs: a publish request still *)
(* on its way asks for the transaction in the package, and its call is the *)
(* current one or in doubt.  EffectIsKnown: once a transaction is logged,  *)
(* the host is done, or some publication is in doubt, or the call that     *)
(* logged it is still open and cannot return a rejection.  Hence Abandon,  *)
(* which needs no doubt and no open call, happens only before logging.     *)
(*                                                                         *)
(* From the same invariant: no wallet lease is forgotten, and no           *)
(* external-P2A parent is broadcast by tapd.                               *)
(***************************************************************************)
EXTENDS CustomAnchorLifecycle, TLAPS

Publishing == call # None /\ call.kind = "publish"

RequestsAreOurs ==
    \A m \in requests :
        /\ m.kind = "publish" =>
              /\ pkg # None
              /\ m.anchor = pkg.anchor
              /\ \/ Publishing /\ call.id = m.id
                 \/ [kind |-> "publish", id |-> m.id] \in doubtful
        /\ call # None /\ call.id = m.id => m.kind = call.kind

RequestsAreUnique ==
    \A m, n \in requests : m.id = n.id => m = n

\* The open call has an answer only after its request was consumed.
AnsweredOnce ==
    reply # None => \A m \in requests : m.id # call.id

RepliesAreOurs ==
    reply # None /\ reply.result = "ok" =>
        /\ call.kind = "commit" => reply.answer \in AllAnswers
        /\ call.kind = "publish" /\ reply.answer # None =>
              reply.answer \in logged

DoubtNeedsPackage ==
    /\ Publishes # {} => pkg # None
    /\ \A a \in doubtful : a.id <= attempts
    /\ call # None => [kind |-> call.kind, id |-> call.id] \notin doubtful

LoggedIsFrozen == logged \subseteq (IF pkg = None THEN {} ELSE {pkg.anchor})

EffectIsKnown ==
    logged # {} =>
        \/ phase = "done"
        \/ Publishes # {}
        \/ /\ Publishing
           /\ \A m \in requests : m.id # call.id
           /\ reply # None => reply.result \notin KnownRejections

Control ==
    /\ RequestsAreOurs
    /\ RequestsAreUnique
    /\ AnsweredOnce
    /\ RepliesAreOurs
    /\ DoubtNeedsPackage
    /\ LoggedIsFrozen
    /\ EffectIsKnown
    /\ DoneMeansLogged

IInv == TypeOK /\ Control

-----------------------------------------------------------------------------
(* Types *)

LEMMA InitTypeOK == Init => TypeOK
BY BoundAssumption DEF Init, TypeOK, Phases, HasPackage

LEMMA AnswersAreTyped ==
    ASSUME plan \in Plans, NEW answer \in Answers(plan)
    PROVE  answer \in AllAnswers
BY DEF AllAnswers

\* An accepted or refused answer's contents have their types.
LEMMA AnswerParts ==
    ASSUME NEW answer \in AllAnswers
    PROVE  answer.anchor \in Anchors /\ ToSet(answer.locked) \in SUBSET Coins
BY DEF Anchors, Coins

\* What Consume leaves in the reply channel.
LEMMA ConsumeTypeOK ==
    ASSUME TypeOK, NEW m \in requests, NEW result \in Results,
           NEW answer \in AllAnswers \cup Anchors \cup {None},
           Consume(m, result, answer)
    PROVE  TypeOK'
<1>1. reply' \in Replies \cup {None}
  BY DEF Consume, TypeOK, Replies
<1>2. requests' \subseteq Requests /\ requests' \subseteq requests
  BY DEF Consume, TypeOK
<1>3. /\ UNCHANGED <<plan, phase, pkg, doubtful, call, attempts>>
      /\ reply' # None => call # None
  BY DEF Consume, host, TypeOK
<1> QED
  BY <1>1, <1>2, <1>3 DEF TypeOK

LEMMA NextTypeOK == TypeOK /\ Control /\ [Next]_vars => TypeOK'
<1> SUFFICES ASSUME TypeOK, Control, [Next]_vars PROVE TypeOK'
  OBVIOUS
<1>1. CASE StartCommit
  <2>1. PICK requested \in BOOLEAN :
           Start("commit", SkipBroadcast(requested),
                 [kind |-> "commit", id |-> attempts + 1])
    BY <1>1 DEF StartCommit
  <2>2. /\ attempts < MaxAttempts /\ attempts' = attempts + 1
        /\ attempts + 1 \in 1..MaxAttempts
    BY <2>1, BoundAssumption DEF Start, TypeOK
  <2>3. call' \in Calls /\ call'.kind = "commit" /\ call'.id = attempts + 1
    BY <2>1, <2>2 DEF Start, Calls, SkipBroadcast
  <2>4. requests' = requests \cup {[kind |-> "commit", id |-> attempts + 1]}
    BY <2>1 DEF Start
  <2>5. requests' \subseteq Requests /\ \A m \in requests' : m.id <= attempts'
    BY <2>2, <2>4 DEF TypeOK, Requests
  <2>6. call = None /\ reply = None /\ plan' = plan /\ reply' = reply
    BY <2>1 DEF Start, TypeOK
  <2>7. /\ phase = "planned" /\ phase' = "committing"
        /\ UNCHANGED <<pkg, doubtful>>
    BY <1>1 DEF StartCommit
  <2> QED
    BY <2>2, <2>3, <2>5, <2>6, <2>7, NoneAssumption
       DEF TypeOK, Phases, HasPackage
<1>2. CASE CommitSealed
  <2>1. reply.answer \in AllAnswers
    BY <1>2 DEF CommitSealed, Answered, Control, RepliesAreOurs
  <2>2. pkg' \in Packages
    BY <1>2, <2>1, AnswerParts DEF CommitSealed, Answered, TypeOK, Packages, Calls
  <2> QED
    BY <1>2, <2>2, NoneAssumption
       DEF CommitSealed, Answered, Return, TypeOK, Phases, HasPackage, Calls
<1>3. CASE CommitRefused
  BY <1>3 DEF CommitRefused, Answered, Return, TypeOK, Phases, HasPackage
<1>4. CASE CommitFailed
  BY <1>4 DEF CommitFailed, Answered, Return, Doubt, Calls, TypeOK, Phases,
              HasPackage
<1>5. CASE StartPublish
  BY <1>5, BoundAssumption, NoneAssumption
     DEF StartPublish, Start, TypeOK, Phases, HasPackage, Calls, Requests, Packages, tapd
<1>6. CASE PublishConfirmed
  BY <1>6 DEF PublishConfirmed, Answered, Return, TypeOK, Phases, HasPackage
<1>7. CASE PublishUncertain
  BY <1>7 DEF PublishUncertain, Answered, Return, Doubt, Calls, TypeOK, Phases,
              HasPackage
<1>8. CASE PublishRejected
  BY <1>8 DEF PublishRejected, Answered, Return, TypeOK, Phases, HasPackage
<1>9. CASE OutcomeLost
  BY <1>9 DEF OutcomeLost, UnknownPhase, Return, Doubt, TypeOK, Phases, HasPackage, Calls
<1>10. CASE ReconcileCommit
  BY <1>10 DEF ReconcileCommit, TypeOK, Phases, HasPackage, net
<1>11. CASE ReconcilePublish
  BY <1>11 DEF ReconcilePublish, TypeOK, Phases, HasPackage, net
<1>12. CASE Abandon
  BY <1>12 DEF Abandon, TypeOK, Phases, HasPackage, net
<1>13. CASE Release
  BY <1>13 DEF Release, TypeOK, net
<1>14. CASE TapdRejects
  BY <1>14, ConsumeTypeOK DEF TapdRejects, Results
<1>15. CASE TapdCommits
  <2>1. PICK m \in requests, answer \in Answers(plan) :
           \/ Consume(m, "ok", answer)
           \/ \E result \in FailureCodes \cup {"empty"} :
                 Consume(m, result, None)
    BY <1>15 DEF TapdCommits
  <2>2. CASE Consume(m, "ok", answer)
    BY <2>2, ConsumeTypeOK, AnswersAreTyped DEF TypeOK, Results
  <2>3. CASE \E result \in FailureCodes \cup {"empty"} :
                Consume(m, result, None)
    BY <2>3, ConsumeTypeOK DEF Results
  <2> QED
    BY <2>1, <2>2, <2>3
<1>16. CASE TapdLogs
  <2>1. PICK m \in requests :
           /\ m.kind = "publish"
           /\ \/ Consume(m, "ok", m.anchor)
              \/ \E result \in FailureCodes \cup {"empty"} :
                    Consume(m, result, None)
    BY <1>16 DEF TapdLogs
  <2>2. m.anchor \in Anchors
    BY <2>1 DEF TypeOK, Requests
  <2>3. CASE Consume(m, "ok", m.anchor)
    BY <2>2, <2>3, ConsumeTypeOK DEF Results
  <2>4. CASE \E result \in FailureCodes \cup {"empty"} :
                Consume(m, result, None)
    BY <2>4, ConsumeTypeOK DEF Results
  <2> QED
    BY <2>1, <2>3, <2>4
<1>17. CASE TapdAnswersNothing
  <2>1. PICK m \in requests, result \in {"ok", "empty"} :
           Consume(m, result, None)
    BY <1>17 DEF TapdAnswersNothing
  <2>2. result \in Results
    BY DEF Results
  <2> QED
    BY <2>1, <2>2, ConsumeTypeOK
<1>18. CASE TapdAlreadyLogged
  <2>1. PICK m \in requests : Consume(m, "AlreadyExists", None)
    BY <1>18 DEF TapdAlreadyLogged
  <2> QED
    BY <2>1, ConsumeTypeOK DEF Results
<1>19. CASE LoseRequest
  BY <1>19 DEF LoseRequest, host, TypeOK
<1>20. CASE LoseReply
  BY <1>20 DEF LoseReply, host, TypeOK
<1>21. CASE LeaseExpires
  BY <1>21 DEF LeaseExpires, host, net, TypeOK
<1>22. CASE ChangeCapabilities
  BY <1>22 DEF ChangeCapabilities, host, net, TypeOK
<1>23. CASE UNCHANGED vars
  BY <1>23 DEF vars, host, net, TypeOK
<1> QED
  BY <1>1, <1>2, <1>3, <1>4, <1>5, <1>6, <1>7, <1>8, <1>9, <1>10, <1>11,
     <1>12, <1>13, <1>14, <1>15, <1>16, <1>17, <1>18, <1>19, <1>20, <1>21,
     <1>22, <1>23 DEF Next, Client, Recovery, Environment

-----------------------------------------------------------------------------
(* Control *)

\* A consumed request that logs nothing; a rejection has no effect to forget.
LEMMA ConsumeControl ==
    ASSUME TypeOK, Control, NEW m \in requests, NEW result,
           NEW answer \in AllAnswers \cup {None},
           Consume(m, result, answer),
           result = "ok" /\ m.kind = "commit" => answer \in AllAnswers,
           m.kind = "publish" => answer = None,
           logged' = logged
    PROVE  Control'
<1>1. /\ requests' = requests \ {m}
      /\ reply' = IF call # None /\ call.id = m.id
                  THEN [result |-> result, answer |-> answer] ELSE reply
      /\ UNCHANGED <<phase, pkg, doubtful, call, attempts>>
  BY DEF Consume, host
<1>2. RequestsAreOurs' /\ RequestsAreUnique' /\ AnsweredOnce'
  BY <1>1 DEF Control, RequestsAreOurs, RequestsAreUnique, AnsweredOnce,
              Publishing
<1>3. RepliesAreOurs'
  BY <1>1 DEF Control, RepliesAreOurs, RequestsAreOurs
<1>4. DoubtNeedsPackage' /\ LoggedIsFrozen' /\ DoneMeansLogged'
  BY <1>1 DEF Control, DoubtNeedsPackage, LoggedIsFrozen, DoneMeansLogged,
              Publishes
<1>5. EffectIsKnown'
  BY <1>1 DEF Control, EffectIsKnown, Publishing, Publishes
<1> QED
  BY <1>2, <1>3, <1>4, <1>5 DEF Control

LEMMA NextControl == IInv /\ TypeOK' /\ [Next]_vars => Control'
<1> SUFFICES ASSUME TypeOK, Control, TypeOK', [Next]_vars PROVE Control'
  BY DEF IInv
<1> USE DEF TypeOK, Phases, HasPackage, Calls, Packages, Control, RequestsAreOurs, RequestsAreUnique, AnsweredOnce,
         RepliesAreOurs, DoubtNeedsPackage, LoggedIsFrozen, EffectIsKnown,
         DoneMeansLogged, Publishing, Publishes
<1>1. CASE StartCommit
  <2> DEFINE r == [kind |-> "commit", id |-> attempts + 1]
  <2>1. /\ call = None /\ reply' = None
        /\ attempts' = attempts + 1
        /\ call' # None /\ call'.id = attempts + 1 /\ call'.kind = "commit"
        /\ requests' = requests \cup {r}
        /\ UNCHANGED <<pkg, doubtful, logged>>
        /\ phase = "planned" /\ phase' = "committing"
    BY <1>1, NoneAssumption DEF StartCommit, Start, SkipBroadcast, tapd
  <2>2. \A m \in requests : m.id # attempts + 1
    BY DEF Requests
  <2>3. RequestsAreOurs' /\ RequestsAreUnique'
    BY <2>1, <2>2
  <2>4. DoubtNeedsPackage'
    BY <2>1
  <2> QED
    BY <2>1, <2>3, <2>4
<1>2. CASE CommitSealed
  BY <1>2, NoneAssumption, BoundAssumption, FailureAssumption DEF CommitSealed, Answered, Return, tapd
<1>3. CASE CommitRefused
  BY <1>3, NoneAssumption, BoundAssumption, FailureAssumption DEF CommitRefused, Answered, Return, tapd
<1>4. CASE CommitFailed
  BY <1>4, NoneAssumption, BoundAssumption, FailureAssumption DEF CommitFailed, Answered, Return, Doubt, tapd
<1>5. CASE StartPublish
  <2> DEFINE r == [kind |-> "publish", id |-> attempts + 1,
                   anchor |-> pkg.anchor, skip |-> pkg.skip]
  <2>1. /\ call = None /\ reply' = None
        /\ attempts' = attempts + 1
        /\ call' # None /\ call'.id = attempts + 1 /\ call'.kind = "publish"
        /\ requests' = requests \cup {r}
        /\ UNCHANGED <<pkg, doubtful, logged>>
        /\ phase = "committed" /\ phase' = "publishing"
    BY <1>5, NoneAssumption DEF StartPublish, Start, tapd
  <2>2. \A m \in requests : m.id # attempts + 1
    BY DEF Requests
  <2>3. RequestsAreOurs' /\ RequestsAreUnique'
    BY <2>1, <2>2
  <2>4. DoubtNeedsPackage'
    BY <2>1
  <2>5. EffectIsKnown'
    BY <2>1
  <2> QED
    BY <2>1, <2>3, <2>4, <2>5
<1>6. CASE PublishConfirmed
  BY <1>6, NoneAssumption, BoundAssumption, FailureAssumption DEF PublishConfirmed, Answered, Return, ResponseMatches, tapd
<1>7. CASE PublishUncertain
  BY <1>7, NoneAssumption, BoundAssumption, FailureAssumption DEF PublishUncertain, Answered, Return, Doubt, tapd
<1>8. CASE PublishRejected
  BY <1>8, NoneAssumption, BoundAssumption, FailureAssumption DEF PublishRejected, Answered, Return, PublishOutcomeUnknown, tapd
<1>9. CASE OutcomeLost
  BY <1>9, NoneAssumption, BoundAssumption, FailureAssumption DEF OutcomeLost, UnknownPhase, Return, Doubt, tapd
<1>10. CASE ReconcileCommit
  BY <1>10, NoneAssumption, BoundAssumption, FailureAssumption DEF ReconcileCommit, net, tapd
<1>11. CASE ReconcilePublish
  BY <1>11, NoneAssumption, BoundAssumption, FailureAssumption DEF ReconcilePublish, net, tapd
<1>12. CASE Abandon
  <2>1. /\ phase = "committed" /\ phase' = "planned"
        /\ Publishes = {}
        /\ pkg' = None
        /\ UNCHANGED <<doubtful, call, requests, reply, attempts, logged>>
    BY <1>12 DEF Abandon, net, tapd
  <2>2. logged = {} /\ ~Publishing
    BY <2>1
  <2>3. \A m \in requests : m.kind # "publish"
    <3> SUFFICES ASSUME NEW m \in requests, m.kind = "publish" PROVE FALSE
      OBVIOUS
    <3>1. [kind |-> "publish", id |-> m.id] \in Publishes
      BY <2>2
    <3> QED
      BY <2>1, <3>1
  <2>4. RequestsAreOurs'
    BY <2>1, <2>3
  <2> QED
    BY <2>1, <2>2, <2>4
<1>13. CASE Release
  BY <1>13, NoneAssumption, BoundAssumption, FailureAssumption DEF Release, net
<1>14. CASE TapdRejects
  BY <1>14, NoneAssumption, BoundAssumption, FailureAssumption DEF TapdRejects, Consume, host, tapd
<1>15. CASE TapdCommits
  <2>1. PICK m \in requests, answer \in Answers(plan) :
           /\ m.kind = "commit"
           /\ \/ Consume(m, "ok", answer)
              \/ \E result \in FailureCodes \cup {"empty"} :
                    Consume(m, result, None)
    BY <1>15 DEF TapdCommits
  <2>2. answer \in AllAnswers /\ logged' = logged
    BY <1>15, AnswersAreTyped DEF TapdCommits
  <2>3. CASE Consume(m, "ok", answer)
    BY <2>1, <2>2, <2>3, ConsumeControl
  <2>4. CASE \E result \in FailureCodes \cup {"empty"} :
                Consume(m, result, None)
    BY <2>1, <2>2, <2>4, ConsumeControl, BoundAssumption
  <2> QED
    BY <2>1, <2>3, <2>4
<1>16. CASE TapdLogs
  <2>1. PICK m \in requests, result \in {"ok", "empty"} \cup FailureCodes,
             answer \in {pkg.anchor, None} :
           /\ m.kind = "publish"
           /\ Consume(m, result, answer)
           /\ logged' = logged \cup {m.anchor}
    BY <1>16 DEF TapdLogs
  <2>2. m.anchor = pkg.anchor /\ pkg # None
    BY <2>1
  <2>3. /\ requests' = requests \ {m}
        /\ reply' = IF call # None /\ call.id = m.id
                    THEN [result |-> result, answer |-> answer] ELSE reply
        /\ UNCHANGED <<phase, pkg, doubtful, call, attempts>>
    BY <2>1 DEF Consume, host
  <2>4. logged' = {pkg.anchor}
    BY <2>1, <2>2
  <2>5. RequestsAreOurs' /\ RequestsAreUnique' /\ AnsweredOnce'
    BY <2>3
  <2>6. RepliesAreOurs'
    BY <2>1, <2>2, <2>3, <2>4
  <2>7. EffectIsKnown'
    <3>1. result \notin KnownRejections
      BY <2>1, FailureAssumption DEF KnownRejections
    <3>2. CASE [kind |-> "publish", id |-> m.id] \in doubtful
      <4>1. [kind |-> "publish", id |-> m.id] \in Publishes'
        BY <2>3, <3>2
      <4> QED
        BY <4>1
    <3>3. CASE Publishing /\ call.id = m.id
      BY <2>1, <2>3, <3>1, <3>3
    <3> QED
      BY <2>1, <3>2, <3>3
  <2> QED
    BY <2>3, <2>4, <2>5, <2>6, <2>7
<1>17. CASE TapdAnswersNothing
  <2>1. PICK m \in requests, result \in {"ok", "empty"} :
           /\ m.kind = "publish"
           /\ Consume(m, result, None)
           /\ logged' = logged
    BY <1>17 DEF TapdAnswersNothing, tapd
  <2> QED
    BY <2>1, ConsumeControl
<1>18. CASE TapdAlreadyLogged
  BY <1>18, NoneAssumption, BoundAssumption, FailureAssumption DEF TapdAlreadyLogged, Consume, host, tapd
<1>19. CASE LoseRequest
  BY <1>19, NoneAssumption, BoundAssumption, FailureAssumption DEF LoseRequest, host, tapd
<1>20. CASE LoseReply
  BY <1>20, NoneAssumption, BoundAssumption, FailureAssumption DEF LoseReply, host, tapd
<1>21. CASE LeaseExpires
  BY <1>21, NoneAssumption, BoundAssumption, FailureAssumption DEF LeaseExpires, host, net
<1>22. CASE ChangeCapabilities
  BY <1>22, NoneAssumption, BoundAssumption, FailureAssumption DEF ChangeCapabilities, host, net, tapd
<1>23. CASE UNCHANGED vars
  BY <1>23 DEF vars, host, net, tapd
<1> QED
  BY <1>1, <1>2, <1>3, <1>4, <1>5, <1>6, <1>7, <1>8, <1>9, <1>10, <1>11, <1>12, <1>13, <1>14, <1>15, <1>16, <1>17, <1>18, <1>19, <1>20, <1>21, <1>22, <1>23 DEF Next, Client, Recovery, Environment

-----------------------------------------------------------------------------
(* The invariant holds *)

LEMMA InitIInv == Init => IInv
BY InitTypeOK
   DEF Init, IInv, Control, RequestsAreOurs, RequestsAreUnique, AnsweredOnce,
       RepliesAreOurs, DoubtNeedsPackage, LoggedIsFrozen, EffectIsKnown,
       DoneMeansLogged, Publishes

LEMMA SpecIInv == Spec => []IInv
<1>1. IInv /\ [Next]_vars => IInv'
  BY NextTypeOK, NextControl DEF IInv
<1> QED
  BY <1>1, InitIInv, PTL DEF Spec

\* Phase, package, calls, messages and doubts keep their types.
THEOREM TypeCorrect == Spec => []TypeOK
<1>1. IInv => TypeOK
  BY DEF IInv
<1> QED
  BY <1>1, SpecIInv, PTL

\* Success is reported only for a transfer tapd has logged.
THEOREM SuccessIsReal == Spec => []DoneMeansLogged
<1>1. IInv => DoneMeansLogged
  BY DEF IInv, Control
<1> QED
  BY <1>1, SpecIInv, PTL

-----------------------------------------------------------------------------
(* Refinement *)

frozen == IF pkg = None THEN None ELSE pkg.anchor

LEMMA NextRefines ==
    IInv /\ IInv' /\ [Next]_vars => [Transfer!Next]_<<frozen, logged>>
<1> SUFFICES ASSUME IInv, IInv', [Next]_vars
             PROVE  [Transfer!Next]_<<frozen, logged>>
  OBVIOUS
<1>f. /\ pkg # None => pkg.anchor \in Anchors /\ pkg.anchor # None
      /\ pkg' # None => pkg'.anchor \in Anchors /\ pkg'.anchor # None
  BY NoneAssumption DEF IInv, TypeOK, Packages
<1>1. CASE CommitSealed
  <2>1. pkg = None /\ logged = {} /\ pkg' # None /\ logged' = logged
    BY <1>1, NoneAssumption
       DEF CommitSealed, Answered, tapd, IInv, TypeOK, HasPackage, Control,
           LoggedIsFrozen
  <2>2. Transfer!Freeze
    BY <2>1, <1>f DEF Transfer!Freeze, frozen
  <2> QED
    BY <2>2 DEF Transfer!Next, frozen
<1>2. CASE Abandon
  <2>1. pkg # None /\ pkg' = None /\ logged' = logged
    BY <1>2 DEF Abandon, tapd, IInv, TypeOK, HasPackage
  <2>2. logged = {}
    BY <1>2 DEF Abandon, IInv, TypeOK, Control, EffectIsKnown, Publishing
  <2>3. Transfer!GiveUp
    BY <2>1, <2>2, <1>f DEF Transfer!GiveUp, frozen
  <2> QED
    BY <2>3 DEF Transfer!Next, frozen
<1>3. CASE TapdLogs
  <2>1. PICK m \in requests : m.kind = "publish"
                              /\ logged' = logged \cup {m.anchor}
    BY <1>3 DEF TapdLogs
  <2>2. pkg # None /\ m.anchor = pkg.anchor /\ logged \subseteq {pkg.anchor}
    BY <2>1 DEF IInv, Control, RequestsAreOurs, LoggedIsFrozen
  <2>3. pkg' = pkg
    BY <1>3 DEF TapdLogs, Consume, host
  <2>4. Transfer!Log
    BY <2>1, <2>2, <2>3, <1>f DEF Transfer!Log, frozen
  <2> QED
    BY <2>4 DEF Transfer!Next, frozen
<1>4. CASE UNCHANGED <<pkg, logged>>
  BY <1>4 DEF frozen
<1>5. ASSUME ~CommitSealed, ~Abandon, ~TapdLogs
      PROVE  UNCHANGED <<pkg, logged>>
  <2>1. CASE Client
    BY <2>1, <1>5
       DEF Client, StartCommit, CommitRefused, CommitFailed, StartPublish,
           PublishConfirmed, PublishUncertain, PublishRejected, OutcomeLost,
           Start, tapd
  <2>2. CASE Recovery
    BY <2>2, <1>5 DEF Recovery, ReconcileCommit, ReconcilePublish, Release, tapd
  <2>3. CASE Environment
    BY <2>3, <1>5
       DEF Environment, TapdRejects, TapdCommits, TapdAnswersNothing,
           TapdAlreadyLogged, LoseRequest, LoseReply, LeaseExpires,
           ChangeCapabilities, Consume, host, tapd
  <2>4. CASE UNCHANGED vars
    BY <2>4 DEF vars, host, tapd
  <2> QED
    BY <2>1, <2>2, <2>3, <2>4 DEF Next
<1> QED
  BY <1>1, <1>2, <1>3, <1>4, <1>5

\* At most one transaction is ever logged, and only the frozen one: whatever is
\* lost, late or crashes.
THEOREM LifecycleImplementsTransfer == Spec => ImplementsTransfer
<1>1. Init => Transfer!Init
  BY DEF Init, Transfer!Init, frozen
<1>2. IInv /\ IInv' /\ [Next]_vars => [Transfer!Next]_<<frozen, logged>>
  BY NextRefines
<1> QED
  BY <1>1, <1>2, SpecIInv, PTL
     DEF Spec, ImplementsTransfer, Transfer!Spec, frozen

-----------------------------------------------------------------------------
(* What is logged obeys the plan *)

\* The package holds an anchor some answer brought and Commit accepted.
PackageAccepted ==
    pkg # None =>
        \E answer : answer.anchor = pkg.anchor /\ Accepts(plan, answer)

LEMMA InitPackageAccepted == Init => PackageAccepted
BY DEF Init, PackageAccepted

LEMMA NextPackageAccepted ==
  ASSUME PackageAccepted, [Next]_vars
  PROVE  PackageAccepted'
<1> USE DEF PackageAccepted
<1>1. CASE CommitSealed
  BY <1>1 DEF CommitSealed
<1>2. CASE Abandon
  BY <1>2 DEF Abandon
<1>3. CASE UNCHANGED <<plan, pkg>>
  BY <1>3
<1>4. CASE StartCommit \/ StartPublish
  BY <1>3, <1>4 DEF StartCommit, StartPublish, Start
<1>5. CASE CommitRefused \/ CommitFailed \/ PublishConfirmed
             \/ PublishUncertain \/ PublishRejected \/ OutcomeLost
  BY <1>3, <1>5
     DEF CommitRefused, CommitFailed, PublishConfirmed, PublishUncertain,
         PublishRejected, OutcomeLost
<1>6. CASE ReconcileCommit \/ ReconcilePublish \/ Release
  BY <1>3, <1>6 DEF ReconcileCommit, ReconcilePublish, Release
<1>7. CASE Environment
  BY <1>3, <1>7
     DEF Environment, TapdRejects, TapdCommits, TapdLogs, TapdAnswersNothing,
         TapdAlreadyLogged, LoseRequest, LoseReply, LeaseExpires,
         ChangeCapabilities, Consume, host
<1>8. CASE UNCHANGED vars
  BY <1>3, <1>8 DEF vars, host
<1> QED
  BY <1>1, <1>2, <1>4, <1>5, <1>6, <1>7, <1>8 DEF Next, Client, Recovery

\* An accepted anchor costs the wallet no more than the plan allows, and leaves
\* every output but the chosen change output at its value.
LEMMA AcceptedWithinPlan ==
  ASSUME NEW answer, Accepts(plan, answer)
  PROVE  /\ plan.mode = "walletFunded" => Fee(answer.anchor) <= plan.maxFee
         /\ \A i \in DOMAIN plan.template.outputs \ {plan.existing} :
               answer.anchor.outputs[i].value = plan.template.outputs[i].value
<1>1. OutputsKept(plan, answer.anchor) /\ FeeWithinMaximum(plan, answer.anchor)
  BY DEF Accepts, ShapeKept
<1> QED
  BY <1>1 DEF OutputsKept, FeeWithinMaximum

\* What tapd logs is the anchor of an accepted answer: the maximum fee and the
\* planned values bind whatever was lost, late or retried since
\* (custom_anchor_lifecycle.go:304, :800).
THEOREM LoggedObeysPlan == Spec => []LoggedWithinBudget
<1>1. IInv /\ PackageAccepted => LoggedWithinBudget
  <2> SUFFICES ASSUME IInv, PackageAccepted, NEW anchor \in logged
               PROVE  /\ plan.mode = "walletFunded" => Fee(anchor) <= plan.maxFee
                      /\ \A i \in DOMAIN plan.template.outputs \ {plan.existing} :
                            anchor.outputs[i].value
                                = plan.template.outputs[i].value
    BY DEF LoggedWithinBudget
  <2>1. pkg # None /\ anchor = pkg.anchor
    BY DEF IInv, Control, LoggedIsFrozen
  <2>2. PICK answer : answer.anchor = anchor /\ Accepts(plan, answer)
    BY <2>1 DEF PackageAccepted
  <2> QED
    BY <2>2, AcceptedWithinPlan
<1>2. PackageAccepted /\ [Next]_vars => PackageAccepted'
  BY NextPackageAccepted
<1> QED
  BY <1>1, <1>2, InitPackageAccepted, SpecIInv, PTL DEF Spec
-----------------------------------------------------------------------------
(* Leases.  Every lease names the commit call it was taken for.  While that *)
(* call is open, an answer can only describe its leases in full (ok) or be  *)
(* ambiguous, never a rejection, because each request takes effect once.    *)

LeasesAreTyped == \A l \in leases : l.id \in 1..attempts

RequestsHoldNoLease == \A m \in requests, l \in leases : l.id # m.id

OpenCallLeases ==
    call # None =>
        \A l \in leases :
            l.id = call.id =>
                /\ call.kind = "commit"
                /\ reply # None =>
                      /\ reply.result \notin KnownRejections
                      /\ reply.result = "ok" =>
                            l.outpoint \in ToSet(reply.answer.locked)

\* A commit request still on its way belongs to the open call or to a doubt.
CommitsAreOurs ==
    \A m \in requests :
        m.kind = "commit" =>
            \/ call # None /\ call.id = m.id
            \/ [kind |-> "commit", id |-> m.id] \in doubtful

LeaseInv ==
    /\ CommitsAreOurs
    /\ LeasesAreTyped
    /\ RequestsHoldNoLease
    /\ OpenCallLeases
    /\ LeasesAreAccounted

\* What any answer of tapd leaves alone, and what it puts in the reply.
LEMMA ConsumeEffect ==
    ASSUME NEW m, NEW result, NEW answer, Consume(m, result, answer)
    PROVE  /\ requests' = requests \ {m}
           /\ reply' = IF call # None /\ call.id = m.id
                       THEN [result |-> result, answer |-> answer] ELSE reply
           /\ UNCHANGED <<plan, caps, phase, pkg, releasable, doubtful, call,
                          attempts>>
BY DEF Consume, host

\* An answer that takes no lease keeps LeaseInv: its call has none.
LEMMA ConsumeKeepsLeases ==
    ASSUME TypeOK, LeaseInv, NEW m \in requests, NEW result, NEW answer,
           Consume(m, result, answer), leases' = leases
    PROVE  LeaseInv'
<1>1. /\ requests' = requests \ {m}
      /\ reply' = IF call # None /\ call.id = m.id
                  THEN [result |-> result, answer |-> answer] ELSE reply
      /\ UNCHANGED <<pkg, releasable, doubtful, call, attempts>>
  BY ConsumeEffect
<1>2. /\ CommitsAreOurs' /\ LeasesAreTyped'
      /\ RequestsHoldNoLease' /\ LeasesAreAccounted'
  BY <1>1 DEF LeaseInv, CommitsAreOurs, LeasesAreTyped, RequestsHoldNoLease,
              LeasesAreAccounted
<1>3. OpenCallLeases'
  BY <1>1 DEF LeaseInv, OpenCallLeases, RequestsHoldNoLease
<1> QED
  BY <1>2, <1>3 DEF LeaseInv

\* A call that ends keeps LeaseInv when its leases are accounted for elsewhere.
LEMMA ReturnKeepsLeases ==
    ASSUME LeaseInv, call # None, Return, leases' = leases,
           releasable \subseteq releasable', doubtful \subseteq doubtful',
           pkg # None => pkg' = pkg,
           \A m \in requests : m.id = call.id /\ m.kind = "commit" =>
               [kind |-> "commit", id |-> m.id] \in doubtful',
           \A l \in leases : l.id = call.id =>
               \/ l.outpoint \in releasable'
               \/ pkg' # None /\ l.outpoint \in pkg'.locked
               \/ [kind |-> "commit", id |-> l.id] \in doubtful'
    PROVE  LeaseInv'
<1>1. call' = None /\ UNCHANGED <<attempts, requests>>
  BY DEF Return
<1>2. /\ CommitsAreOurs' /\ LeasesAreTyped'
      /\ RequestsHoldNoLease' /\ OpenCallLeases'
  BY <1>1 DEF LeaseInv, CommitsAreOurs, LeasesAreTyped, RequestsHoldNoLease,
              OpenCallLeases
<1>3. LeasesAreAccounted'
  BY <1>1 DEF LeaseInv, LeasesAreAccounted
<1> QED
  BY <1>2, <1>3 DEF LeaseInv

LEMMA InitLeaseInv == Init => LeaseInv
BY DEF Init, LeaseInv, CommitsAreOurs, LeasesAreTyped, RequestsHoldNoLease, OpenCallLeases,
       LeasesAreAccounted

\* A new call has an ID no lease carries.
LEMMA StartKeepsLeases ==
    ASSUME TypeOK, LeaseInv, NEW kind, NEW skip, NEW request,
           request.id = attempts + 1, call' # None, Start(kind, skip, request),
           UNCHANGED <<pkg, releasable, doubtful>>
    PROVE  LeaseInv'
<1>1. /\ attempts \in Nat /\ attempts' = attempts + 1
      /\ call = None /\ call'.id = attempts + 1
      /\ requests' = requests \cup {request}
      /\ leases' = leases
  BY BoundAssumption DEF Start, tapd, TypeOK
<1>2. \A l \in leases : l.id \in 1..attempts' /\ l.id # attempts + 1
  BY <1>1 DEF LeaseInv, LeasesAreTyped
<1>3. /\ CommitsAreOurs' /\ LeasesAreTyped'
      /\ RequestsHoldNoLease' /\ OpenCallLeases'
  BY <1>1, <1>2, NoneAssumption
     DEF LeaseInv, CommitsAreOurs, LeasesAreTyped, RequestsHoldNoLease, OpenCallLeases
<1>4. LeasesAreAccounted'
  BY <1>1 DEF LeaseInv, LeasesAreAccounted
<1> QED
  BY <1>3, <1>4 DEF LeaseInv

LEMMA ClientKeepsLeases == IInv /\ TypeOK' /\ LeaseInv /\ Client => LeaseInv'
<1> SUFFICES ASSUME IInv, TypeOK', LeaseInv, Client PROVE LeaseInv'
  OBVIOUS
<1> USE DEF IInv
<1>1. CASE StartCommit
  <2>1. PICK requested \in BOOLEAN :
           Start("commit", SkipBroadcast(requested),
                 [kind |-> "commit", id |-> attempts + 1])
    BY <1>1 DEF StartCommit
  <2>2. call' # None /\ UNCHANGED <<pkg, releasable, doubtful>>
    BY <1>1 DEF StartCommit, TypeOK
  <2> QED
    BY <2>1, <2>2, StartKeepsLeases
<1>2. CASE CommitSealed
  <2>1. /\ call # None /\ call.kind = "commit" /\ reply # None
        /\ reply.result = "ok" /\ pkg' # None
        /\ pkg'.locked = ToSet(reply.answer.locked)
    <3>1. pkg' = [anchor |-> reply.answer.anchor,
                  locked |-> ToSet(reply.answer.locked), skip |-> call.skip]
      BY <1>2 DEF CommitSealed
    <3>2. pkg' \in Packages
      <4>1. /\ call # None /\ call.kind = "commit" /\ reply # None
            /\ reply.result = "ok"
        BY <1>2 DEF CommitSealed, Answered
      <4>2. reply.answer \in AllAnswers
        BY <4>1 DEF Control, RepliesAreOurs
      <4> QED
        BY <3>1, <4>1, <4>2, AnswerParts DEF TypeOK, Packages, Calls
    <3> QED
      BY <1>2, <3>1, <3>2, NoneAssumption DEF CommitSealed, Answered
  <2>2. pkg = None
    BY <2>1 DEF TypeOK, HasPackage
  <2>3. Return /\ leases' = leases /\ UNCHANGED <<releasable, doubtful>>
    BY <1>2 DEF CommitSealed, tapd
  <2>4. \A l \in leases : l.id = call.id => l.outpoint \in pkg'.locked
    BY <2>1 DEF LeaseInv, OpenCallLeases
  <2> QED
    BY <2>1, <2>2, <2>3, <2>4, ReturnKeepsLeases DEF Control, AnsweredOnce
<1>3. CASE CommitRefused
  <2>1. /\ call # None /\ reply # None /\ reply.result = "ok"
        /\ Return /\ leases' = leases /\ UNCHANGED <<pkg, doubtful>>
        /\ releasable' = releasable \cup ToSet(reply.answer.locked)
    BY <1>3 DEF CommitRefused, Answered, LocksToRelease, tapd
  <2>2. \A l \in leases : l.id = call.id => l.outpoint \in releasable'
    BY <2>1 DEF LeaseInv, OpenCallLeases
  <2> QED
    BY <2>1, <2>2, ReturnKeepsLeases DEF Control, AnsweredOnce
<1>4. CASE CommitFailed
  <2>1. /\ call # None /\ call.kind = "commit" /\ reply # None
        /\ Return /\ leases' = leases /\ UNCHANGED <<pkg, releasable>>
        /\ IF reply.result \notin KnownRejections
           THEN doubtful' =
                   doubtful \cup {[kind |-> "commit", id |-> call.id]}
           ELSE doubtful' = doubtful
    BY <1>4 DEF CommitFailed, Answered, CommitOutcomeUnknown, Doubt, tapd
  <2>2. \A l \in leases : l.id = call.id => reply.result \notin KnownRejections
    BY <2>1 DEF LeaseInv, OpenCallLeases
  <2> QED
    BY <2>1, <2>2, ReturnKeepsLeases DEF Control, AnsweredOnce
<1>5. CASE StartPublish
  BY <1>5, StartKeepsLeases DEF StartPublish, TypeOK
<1>6. CASE PublishConfirmed
  BY <1>6, ReturnKeepsLeases
     DEF PublishConfirmed, Answered, tapd, LeaseInv, OpenCallLeases,
         Control, AnsweredOnce, RequestsAreOurs
<1>7. CASE PublishUncertain
  BY <1>7, ReturnKeepsLeases
     DEF PublishUncertain, Answered, Doubt, tapd, LeaseInv, OpenCallLeases,
         Control, AnsweredOnce, RequestsAreOurs
<1>8. CASE PublishRejected
  BY <1>8, ReturnKeepsLeases
     DEF PublishRejected, Answered, tapd, LeaseInv, OpenCallLeases,
         Control, AnsweredOnce, RequestsAreOurs
<1>9. CASE OutcomeLost
  BY <1>9, ReturnKeepsLeases
     DEF OutcomeLost, Doubt, tapd, LeaseInv, OpenCallLeases,
         Control, AnsweredOnce, RequestsAreOurs
<1> QED
  BY <1>1, <1>2, <1>3, <1>4, <1>5, <1>6, <1>7, <1>8, <1>9 DEF Client

LEMMA RecoveryKeepsLeases == IInv /\ LeaseInv /\ Recovery => LeaseInv'
<1> SUFFICES ASSUME IInv, LeaseInv, Recovery PROVE LeaseInv'
  OBVIOUS
<1> USE DEF LeaseInv, CommitsAreOurs, LeasesAreTyped, RequestsHoldNoLease, OpenCallLeases,
            LeasesAreAccounted
<1>1. CASE ReconcileCommit
  BY <1>1 DEF ReconcileCommit, net, tapd
<1>2. CASE ReconcilePublish
  BY <1>2 DEF ReconcilePublish, net, tapd
<1>3. CASE Abandon
  BY <1>3 DEF Abandon, net, tapd
<1>4. CASE Release
  BY <1>4 DEF Release, net
<1> QED
  BY <1>1, <1>2, <1>3, <1>4 DEF Recovery

\* tapd takes leases for a request that had none, and the answer lists them all
\* or is ambiguous.
LEMMA TapdCommitsKeepsLeases == IInv /\ LeaseInv /\ TapdCommits => LeaseInv'
<1> SUFFICES ASSUME IInv, LeaseInv, TapdCommits PROVE LeaseInv'
  OBVIOUS
<1>0. PICK m \in requests, answer \in Answers(plan) :
         /\ m.kind = "commit"
         /\ leases' = leases \cup Leased(m.id, answer.locked)
         /\ \/ Consume(m, "ok", answer)
            \/ \E result \in FailureCodes \cup {"empty"} :
                  Consume(m, result, None)
  BY DEF TapdCommits
<1>1. PICK result \in {"ok", "empty"} \cup FailureCodes,
           carried \in {answer, None} :
         Consume(m, result, carried) /\ (result = "ok" => carried = answer)
  BY <1>0, BoundAssumption
<1>2. /\ requests' = requests \ {m}
      /\ reply' = IF call # None /\ call.id = m.id
                  THEN [result |-> result, answer |-> carried] ELSE reply
      /\ UNCHANGED <<pkg, releasable, doubtful, call, attempts>>
  BY <1>1, ConsumeEffect
<1>3. \A l \in leases' :
         \/ l \in leases
         \/ l.id = m.id /\ l.outpoint \in ToSet(answer.locked)
  BY <1>0 DEF Leased
<1>4. CommitsAreOurs' /\ LeasesAreTyped'
  BY <1>2, <1>3 DEF LeaseInv, CommitsAreOurs, LeasesAreTyped, IInv, TypeOK, Requests
<1>5. RequestsHoldNoLease'
  BY <1>2, <1>3
     DEF LeaseInv, RequestsHoldNoLease, IInv, Control, RequestsAreUnique
<1>6. OpenCallLeases'
  <2> SUFFICES ASSUME call # None, NEW l \in leases', l.id = call.id
               PROVE  /\ call.kind = "commit"
                      /\ reply' # None =>
                            /\ reply'.result \notin KnownRejections
                            /\ reply'.result = "ok" =>
                                  l.outpoint \in ToSet(reply'.answer.locked)
    BY <1>2 DEF OpenCallLeases
  <2>1. CASE l \in leases
    <3>1. call.id # m.id
      BY <2>1 DEF LeaseInv, RequestsHoldNoLease
    <3> QED
      BY <1>2, <2>1, <3>1 DEF LeaseInv, OpenCallLeases
  <2>2. CASE l.id = m.id /\ l.outpoint \in ToSet(answer.locked)
    <3>1. result \notin KnownRejections
      BY FailureAssumption DEF KnownRejections
    <3>2. call.kind = "commit"
      BY <1>0, <2>2 DEF IInv, Control, RequestsAreOurs
    <3> QED
      BY <1>1, <1>2, <2>2, <3>1, <3>2
  <2> QED
    BY <1>3, <2>1, <2>2
<1>7. LeasesAreAccounted'
  <2>1. \/ call # None /\ call.id = m.id
        \/ [kind |-> "commit", id |-> m.id] \in doubtful
    BY <1>0 DEF LeaseInv, CommitsAreOurs
  <2> QED
    BY <1>2, <1>3, <2>1 DEF LeaseInv, LeasesAreAccounted
<1> QED
  BY <1>4, <1>5, <1>6, <1>7 DEF LeaseInv

LEMMA EnvironmentKeepsLeases == IInv /\ LeaseInv /\ Environment => LeaseInv'
<1> SUFFICES ASSUME IInv, LeaseInv, Environment PROVE LeaseInv'
  OBVIOUS
<1>1. CASE TapdRejects
  BY <1>1, ConsumeKeepsLeases DEF TapdRejects, tapd, IInv
<1>2. CASE TapdCommits
  BY <1>2, TapdCommitsKeepsLeases
<1>3. CASE TapdLogs
  BY <1>3, ConsumeKeepsLeases DEF TapdLogs, IInv
<1>4. CASE TapdAnswersNothing
  BY <1>4, ConsumeKeepsLeases DEF TapdAnswersNothing, tapd, IInv
<1>5. CASE TapdAlreadyLogged
  BY <1>5, ConsumeKeepsLeases DEF TapdAlreadyLogged, tapd, IInv
<1> USE DEF LeaseInv, CommitsAreOurs, LeasesAreTyped, RequestsHoldNoLease,
            OpenCallLeases, LeasesAreAccounted
<1>6. CASE LoseRequest
  BY <1>6 DEF LoseRequest, host, tapd
<1>7. CASE LoseReply
  BY <1>7 DEF LoseReply, host, tapd
<1>8. CASE LeaseExpires
  BY <1>8 DEF LeaseExpires, host, net
<1>9. CASE ChangeCapabilities
  BY <1>9 DEF ChangeCapabilities, host, net, tapd
<1> QED
  BY <1>1, <1>2, <1>3, <1>4, <1>5, <1>6, <1>7, <1>8, <1>9 DEF Environment

\* Every wallet coin tapd holds leased for the plan is listed for release, in the
\* package, or attributable to a commit call the host knows to be open or in
\* doubt, whose lock ID it persisted.
THEOREM NoLeaseIsForgotten == Spec => []LeasesAreAccounted
<1>1. IInv /\ IInv' /\ LeaseInv /\ [Next]_vars => LeaseInv'
  <2>1. LeaseInv /\ UNCHANGED vars => LeaseInv'
    BY DEF vars, host, net, tapd, LeaseInv, CommitsAreOurs, LeasesAreTyped,
           RequestsHoldNoLease, OpenCallLeases, LeasesAreAccounted
  <2> QED
    BY <2>1, ClientKeepsLeases, RecoveryKeepsLeases, EnvironmentKeepsLeases
       DEF Next, IInv
<1>2. LeaseInv => LeasesAreAccounted
  BY DEF LeaseInv
<1> QED
  BY <1>1, <1>2, InitLeaseInv, SpecIInv, PTL DEF Spec

-----------------------------------------------------------------------------
(* Parents.  The skip-broadcast flag is forced when the plan is committed,  *)
(* stored in the package and copied into each request, and a request that   *)
(* carries it is sent only to a tapd that honours it.                       *)

SkipIsKept ==
    plan.mode = "externalP2A" =>
        /\ pkg # None => pkg.skip
        /\ call # None => call.skip
        /\ \A m \in requests : m.kind = "publish" => m.skip

SkipIsHonoured ==
    \A m \in requests : m.kind = "publish" /\ m.skip => "skipBroadcast" \in caps

ParentInv == SkipIsKept /\ SkipIsHonoured /\ P2AParentNotBroadcast

LEMMA NextParentInv == TypeOK /\ ParentInv /\ [Next]_vars => ParentInv'
<1> SUFFICES ASSUME TypeOK, ParentInv, [Next]_vars PROVE ParentInv'
  OBVIOUS
<1> USE DEF ParentInv, SkipIsKept, SkipIsHonoured, P2AParentNotBroadcast
<1>1. CASE StartCommit
  <2>1. PICK requested \in BOOLEAN :
           Start("commit", SkipBroadcast(requested),
                 [kind |-> "commit", id |-> attempts + 1])
    BY <1>1 DEF StartCommit
  <2>2. /\ call'.skip = SkipBroadcast(requested)
        /\ requests' = requests \cup {[kind |-> "commit", id |-> attempts + 1]}
        /\ UNCHANGED <<plan, caps, broadcast>>
    BY <2>1 DEF Start, tapd
  <2>3. pkg' = pkg
    BY <1>1 DEF StartCommit
  <2>4. plan.mode = "externalP2A" => call'.skip
    BY <2>2, Zenon DEF SkipBroadcast
  <2>5. \A m \in requests' : m.kind = "publish" => m \in requests
    BY <2>2
  <2> QED
    BY <2>2, <2>3, <2>4, <2>5
<1>2. CASE CommitSealed
  BY <1>2 DEF CommitSealed, Answered, Return, tapd
<1>3. CASE StartPublish
  BY <1>3 DEF StartPublish, Start, PublishCapabilities, TypeOK, HasPackage, tapd
<1>4. CASE CommitRefused \/ CommitFailed
  BY <1>4 DEF CommitRefused, CommitFailed, Return, tapd
<1>5. CASE PublishConfirmed \/ PublishUncertain \/ PublishRejected \/ OutcomeLost
  BY <1>5 DEF PublishConfirmed, PublishUncertain, PublishRejected, OutcomeLost,
              Return, tapd
<1>6. CASE Recovery
  BY <1>6 DEF Recovery, ReconcileCommit, ReconcilePublish, Abandon, Release,
              net, tapd
<1>7. CASE TapdLogs
  <2>1. PICK m \in requests :
           /\ m.kind = "publish"
           /\ broadcast' = IF m.skip /\ "skipBroadcast" \in caps
                           THEN broadcast ELSE broadcast \cup {m.anchor}
    BY <1>7 DEF TapdLogs
  <2>2. /\ requests' \subseteq requests
        /\ UNCHANGED <<plan, caps, pkg, call>>
    BY <1>7 DEF TapdLogs, Consume, host
  <2> QED
    BY <2>1, <2>2
<1>8. CASE TapdRejects \/ TapdCommits \/ TapdAnswersNothing \/ TapdAlreadyLogged
  BY <1>8 DEF TapdRejects, TapdCommits, TapdAnswersNothing, TapdAlreadyLogged,
              Consume, host, tapd
<1>9. CASE LoseRequest \/ LoseReply \/ LeaseExpires \/ ChangeCapabilities
  BY <1>9 DEF LoseRequest, LoseReply, LeaseExpires, ChangeCapabilities, host,
              net, tapd
<1>10. CASE UNCHANGED vars
  BY <1>10 DEF vars, host, net, tapd
<1> QED
  BY <1>1, <1>2, <1>3, <1>4, <1>5, <1>6, <1>7, <1>8, <1>9, <1>10
     DEF Next, Client, Environment

\* A zero-fee P2A parent is never broadcast by tapd, whatever the caller asks
\* for and whatever backend publishes it (custom_anchor_lifecycle.go:174, :597).
THEOREM ParentsWait == Spec => []P2AParentNotBroadcast
<1>1. Init => ParentInv
  BY DEF Init, ParentInv, SkipIsKept, SkipIsHonoured, P2AParentNotBroadcast
<1>2. ParentInv => P2AParentNotBroadcast
  BY DEF ParentInv
<1> QED
  BY <1>1, <1>2, NextParentInv, TypeCorrect, PTL DEF Spec
=============================================================================
