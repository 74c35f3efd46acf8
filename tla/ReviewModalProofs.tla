-------------------------- MODULE ReviewModalProofs --------------------------
(***************************************************************************)
(* Theorems about ReviewModal, for every set of passes and signatures and   *)
(* any number of documents opened, decisions sent and images attached.      *)
(***************************************************************************)
EXTENDS ReviewModal, FiniteSetTheorems, TLAPS

UnderWay == {"upload", "post", "lists", "rest"}
Loading == {"detail", "parts", "guardSignatures"}

\* A decision has a kind, and a pass, exactly while it is under way.
DecisionsCarried ==
  \A d \in Decisions : /\ decision[d].at \in UnderWay => decision[d].pass \in Passes
                       /\ decision[d].kind # None <=> decision[d].at \in UnderWay

DecisionTypes == decision \in [Decisions -> DecisionCalls]

\* An approval under way holds the button.
ButtonHeld ==
  /\ \A d, e \in Approvals : d = e
  /\ disabled <=> Approvals # {}

DecisionInv == DecisionTypes /\ DecisionsCarried /\ ButtonHeld /\ SentAsAttached

\* A document that is loading is that of a pass.
ViewsCarried == \A v \in Opens : view[v].at \in Loading => view[v].pass \in Passes

\* viewPass notes the pass down together with its fields; closing forgets it.
ViewedIsDocument == viewed \in {None, doc}

ReviewInv == TypeOK /\ ViewsCarried /\ ViewedIsDocument /\ DecisionInv
-----------------------------------------------------------------------------
(* Decisions                                                                *)

\* What a step may do to decision d: it is pressed with the button, or sent
\* with a reason, or ends, or goes on to its next call, or has its image stored.
Pressed(d) == \E kind \in {"approve", "scan"}, p \in Passes : StartApproval(d, kind, p)

Reasoned(d) ==
  /\ NextDecision(d)
  /\ \E kind \in {"reject", "hold"}, p \in Passes : Send(d, kind, p, "post", None)
  /\ UNCHANGED disabled

Ends(d) ==
  /\ decision[d].at \in UnderWay
  /\ \E closes \in BOOLEAN : Finish(d, closes)

GoesOn(d) ==
  /\ decision[d].at \in UnderWay \ {"upload"}
  /\ \E at \in {"lists", "rest"} : Step(d, at)
  /\ UNCHANGED disabled

Stored(d) ==
  /\ decision[d].at = "upload"
  /\ decision' = [decision EXCEPT ![d].at = "post", ![d].file = decision[d].chosen]
  /\ UNCHANGED disabled

\* A decision that is sent becomes the record sent, and the others stay.
LEMMA SentDecision ==
  ASSUME DecisionTypes, sig \in Images,
         NEW d \in Decisions, NEW kind \in Kinds, NEW p \in Passes,
         NEW at \in {"upload", "post"}, NEW file \in Images,
         Send(d, kind, p, at, file)
  PROVE  /\ decision'[d].at = at /\ decision'[d].kind = kind /\ decision'[d].pass = p
         /\ decision'[d].chosen = sig /\ decision'[d].file = file
         /\ \A e \in Decisions \ {d} : decision'[e] = decision[e]
         /\ DecisionTypes'
BY DEF Send, DecisionTypes, DecisionCalls

\* The button lets an approval through only while there is none, and it is sent
\* with the image attached or, if that is stored already, its file.
LEMMA PressedKeeps ==
  ASSUME DecisionInv, sig \in Images, NEW d \in Decisions, Pressed(d)
  PROVE  DecisionInv'
<1>1. PICK kind \in {"approve", "scan"}, p \in Passes : StartApproval(d, kind, p)
  BY DEF Pressed
<1>2. PICK at \in {"upload", "post"}, file \in Images :
        /\ Send(d, kind, p, at, file)
        /\ at # "upload" => file = sig
  <2>1. CASE sig = None \/ Reuse(sig)
    <3>1. Send(d, kind, p, "post", IF sig = None THEN None ELSE uploaded)
      BY <1>1, <2>1 DEF StartApproval
    <3>2. (IF sig = None THEN None ELSE uploaded) = sig
      BY <2>1 DEF Reuse
    <3>3. QED BY <3>1, <3>2
  <2>2. CASE ~(sig = None \/ Reuse(sig))
    BY <1>1, <2>2 DEF StartApproval, Images
  <2>3. QED BY <2>1, <2>2
<1>3. ~disabled /\ disabled' = TRUE /\ decision[d].at = "unused"
  BY <1>1 DEF StartApproval, NextDecision
<1>4. /\ decision'[d].at = at /\ decision'[d].kind = kind /\ decision'[d].pass = p
      /\ decision'[d].chosen = sig /\ decision'[d].file = file
      /\ \A e \in Decisions \ {d} : decision'[e] = decision[e]
      /\ DecisionTypes'
  <2>1. kind \in Kinds /\ DecisionTypes
    BY DEF Kinds, DecisionInv
  <2>2. QED BY <1>2, <2>1, SentDecision
<1>5. DecisionsCarried'
  BY <1>4, ReviewAssumption DEF DecisionInv, DecisionsCarried, UnderWay, Kinds
<1>6. Approvals = {} /\ Approvals' = {d}
  BY <1>3, <1>4 DEF DecisionInv, ButtonHeld, Approvals
<1>7. ButtonHeld'
  BY <1>3, <1>6 DEF ButtonHeld
<1>8. SentAsAttached'
  BY <1>2, <1>4, <1>6 DEF SentAsAttached
<1>9. QED BY <1>4, <1>5, <1>7, <1>8 DEF DecisionInv

\* A rejection or a hold is no approval.
LEMMA ReasonedKeeps ==
  ASSUME DecisionInv, sig \in Images, NEW d \in Decisions, Reasoned(d)
  PROVE  DecisionInv'
<1>1. PICK kind \in {"reject", "hold"}, p \in Passes : Send(d, kind, p, "post", None)
  BY DEF Reasoned
<1>2. decision[d].at = "unused" /\ disabled' = disabled
  BY DEF Reasoned, NextDecision
<1>3. /\ decision'[d].at = "post" /\ decision'[d].kind = kind /\ decision'[d].pass = p
      /\ \A e \in Decisions \ {d} : decision'[e] = decision[e]
      /\ DecisionTypes'
  <2>1. kind \in Kinds /\ DecisionTypes /\ None \in Images
    BY DEF Kinds, DecisionInv, Images
  <2>2. QED BY <1>1, <2>1, SentDecision
<1>4. DecisionsCarried'
  BY <1>3, ReviewAssumption DEF DecisionInv, DecisionsCarried, UnderWay, Kinds
<1>5. d \notin Approvals
  BY <1>2, ReviewAssumption DEF DecisionInv, DecisionsCarried, UnderWay, Approvals, Kinds
<1>6. Approvals' = Approvals
  BY <1>3, <1>5 DEF Approvals
<1>7. ButtonHeld'
  BY <1>2, <1>6 DEF DecisionInv, ButtonHeld
<1>8. SentAsAttached'
  BY <1>3, <1>5, <1>6 DEF DecisionInv, SentAsAttached, Approvals
<1>9. QED BY <1>3, <1>4, <1>7, <1>8 DEF DecisionInv

\* The finally clause of an approval gives the button back; there is no other
\* approval that would still want it.
LEMMA EndsKeeps ==
  ASSUME DecisionInv, NEW d \in Decisions, Ends(d)
  PROVE  DecisionInv'
<1>1. PICK closes \in BOOLEAN : Finish(d, closes)
  BY DEF Ends
<1>2. decision' = [decision EXCEPT ![d] = Ended(NoDecision)]
  BY <1>1 DEF Finish
<1>3. Ended(NoDecision) = [NoDecision EXCEPT !.at = "done"]
  BY DEF Ended
<1>4. Ended(NoDecision) \in DecisionCalls
  BY <1>3 DEF NoDecision, DecisionCalls, Images
<1>5. DecisionTypes'
  BY <1>2, <1>4 DEF DecisionInv, DecisionTypes
<1>6. /\ decision'[d].at = "done" /\ decision'[d].kind = None
      /\ \A e \in Decisions \ {d} : decision'[e] = decision[e]
  BY <1>2, <1>3 DEF DecisionInv, DecisionTypes, NoDecision
<1>7. DecisionsCarried'
  BY <1>6 DEF DecisionInv, DecisionsCarried, UnderWay
<1>8. Approvals' = Approvals \ {d}
  BY <1>6, ReviewAssumption DEF Approvals, Kinds
<1>9. disabled' = IF d \in Approvals THEN FALSE ELSE disabled
  BY <1>1 DEF Finish, Approvals
<1>10. ButtonHeld'
  BY <1>8, <1>9 DEF DecisionInv, ButtonHeld
<1>11. SentAsAttached'
  BY <1>6, <1>8 DEF DecisionInv, SentAsAttached, Approvals
<1>12. QED BY <1>5, <1>7, <1>10, <1>11 DEF DecisionInv

LEMMA GoesOnKeeps ==
  ASSUME DecisionInv, NEW d \in Decisions, GoesOn(d)
  PROVE  DecisionInv'
<1>1. PICK at \in {"lists", "rest"} : decision' = [decision EXCEPT ![d].at = at]
  BY DEF GoesOn, Step
<1>2. DecisionTypes'
  BY <1>1 DEF DecisionInv, DecisionTypes, DecisionCalls
<1>3. /\ decision[d].at \in UnderWay \ {"upload"}
      /\ disabled' = disabled
      /\ decision'[d].at = at
      /\ \A e \in Decisions : /\ decision'[e].kind = decision[e].kind
                              /\ decision'[e].pass = decision[e].pass
                              /\ decision'[e].chosen = decision[e].chosen
                              /\ decision'[e].file = decision[e].file
      /\ \A e \in Decisions \ {d} : decision'[e] = decision[e]
  BY <1>1 DEF GoesOn, DecisionInv, DecisionTypes, DecisionCalls
<1>4. DecisionsCarried'
  BY <1>3 DEF DecisionInv, DecisionsCarried, UnderWay
<1>5. Approvals' = Approvals
  BY <1>3 DEF Approvals
<1>6. ButtonHeld'
  BY <1>3, <1>5 DEF DecisionInv, ButtonHeld
<1>7. SentAsAttached'
  BY <1>3, <1>5 DEF DecisionInv, SentAsAttached, Approvals
<1>8. QED BY <1>2, <1>4, <1>6, <1>7 DEF DecisionInv

\* The file stored is that of the image the decision was started with.
LEMMA StoredKeeps ==
  ASSUME DecisionInv, NEW d \in Decisions, Stored(d)
  PROVE  DecisionInv'
<1>1. decision' = [decision EXCEPT ![d].at = "post", ![d].file = decision[d].chosen]
  BY DEF Stored
<1>2. DecisionTypes'
  BY <1>1 DEF DecisionInv, DecisionTypes, DecisionCalls
<1>3. /\ decision[d].at = "upload" /\ disabled' = disabled
      /\ decision'[d].at = "post" /\ decision'[d].file = decision'[d].chosen
      /\ \A e \in Decisions : /\ decision'[e].kind = decision[e].kind
                              /\ decision'[e].pass = decision[e].pass
      /\ \A e \in Decisions \ {d} : decision'[e] = decision[e]
  BY <1>1 DEF Stored, DecisionInv, DecisionTypes, DecisionCalls
<1>4. DecisionsCarried'
  BY <1>3 DEF DecisionInv, DecisionsCarried, UnderWay
<1>5. Approvals' = Approvals
  BY <1>3 DEF Approvals
<1>6. ButtonHeld'
  BY <1>3, <1>5 DEF DecisionInv, ButtonHeld
<1>7. SentAsAttached'
  BY <1>3, <1>5 DEF DecisionInv, SentAsAttached, Approvals
<1>8. QED BY <1>2, <1>4, <1>6, <1>7 DEF DecisionInv

LEMMA QuietKeeps ==
  ASSUME DecisionInv, UNCHANGED <<decision, disabled>>
  PROVE  DecisionInv'
BY DEF DecisionInv, DecisionTypes, DecisionsCarried, ButtonHeld, SentAsAttached, Approvals

\* Every answer to a decision is of one of these forms.
LEMMA AnswerForms ==
  ASSUME guard \in BOOLEAN, NEW d \in Decisions, Answer(d)
  PROVE  Ends(d) \/ GoesOn(d) \/ Stored(d)
<1>1. CASE TakeUpload(d)
  BY <1>1 DEF TakeUpload, Ends, Stored, UnderWay
<1>2. CASE FailDecision(d)
  BY <1>2 DEF FailDecision, Ends, UnderWay
<1>3. CASE TakeDecision(d)
  BY <1>3 DEF TakeDecision, GoesOn, UnderWay
<1>4. CASE TakeScan(d)
  BY <1>4 DEF TakeScan, Ends, GoesOn, UnderWay
<1>5. CASE TakeLists(d)
  BY <1>5 DEF TakeLists, Ends, GoesOn, UnderWay
<1>6. CASE TakeRest(d)
  BY <1>6 DEF TakeRest, Ends, UnderWay
<1>7. QED BY <1>1, <1>2, <1>3, <1>4, <1>5, <1>6 DEF Answer

\* A press of a button starts a decision about the pass on screen or, for a
\* guard, about the pass behind the button.
LEMMA PressForms ==
  ASSUME TypeOK, ReviewAssumption, NEW d \in Decisions,
         PressApprove(d) \/ PressConfirm(d) \/ PressReject(d) \/ PressHold(d)
  PROVE  Pressed(d) \/ Reasoned(d)
<1>1. CASE PressApprove(d)
  BY <1>1 DEF PressApprove, Pressed
<1>2. CASE PressConfirm(d)
  BY <1>2 DEF PressConfirm, Pressed, TypeOK, WindowTypeOK
<1>3. CASE PressReject(d)
  BY <1>3 DEF PressReject, Reasoned, window
<1>4. CASE PressHold(d)
  BY <1>4 DEF PressHold, Reasoned, window
<1>5. QED BY <1>1, <1>2, <1>3, <1>4

\* All other actions leave the decisions and the button alone.
LEMMA QuietSteps ==
  ASSUME \/ \E v \in Opens :
              \/ \E p \in Passes, r \in BOOLEAN : Open(v, p, r)
              \/ TakeDetail(v) \/ ShowWindow(v) \/ TakeGuardSignatures(v)
         \/ Close \/ CloseTimer
         \/ \E s \in Signatures : Draw(s) \/ PickImage(s)
         \/ TakeImage \/ AskReason \/ TypeReason
         \/ UNCHANGED vars
  PROVE  UNCHANGED <<decision, disabled>>
BY DEF Open, TakeDetail, ShowWindow, TakeGuardSignatures, Close, CloseTimer, Draw, PickImage,
       TakeImage, AskReason, TypeReason, vars, window

LEMMA DecisionInductive == TypeOK /\ DecisionInv /\ [Next]_vars => DecisionInv'
<1> SUFFICES ASSUME TypeOK, DecisionInv, [Next]_vars PROVE DecisionInv'
  OBVIOUS
<1>1. sig \in Images /\ guard \in BOOLEAN
  BY DEF TypeOK, ComposerTypeOK, CallsTypeOK
<1>2. ASSUME NEW d \in Decisions,
             PressApprove(d) \/ PressConfirm(d) \/ PressReject(d) \/ PressHold(d)
      PROVE  DecisionInv'
  BY <1>1, <1>2, PressForms, PressedKeeps, ReasonedKeeps, ReviewAssumption
<1>3. ASSUME NEW d \in Decisions, Answer(d) PROVE DecisionInv'
  BY <1>1, <1>3, AnswerForms, EndsKeeps, GoesOnKeeps, StoredKeeps
<1>4. CASE UNCHANGED <<decision, disabled>>
  BY <1>4, QuietKeeps
<1>5. QED BY <1>2, <1>3, <1>4, QuietSteps DEF Next
-----------------------------------------------------------------------------
(* What is on screen                                                        *)

LEMMA ViewedInductive == ViewedIsDocument /\ [Next]_vars => ViewedIsDocument'
<1> SUFFICES ASSUME ViewedIsDocument, [Next]_vars PROVE ViewedIsDocument'
  OBVIOUS
<1>1. HideWindow /\ doc' = doc => ViewedIsDocument'
  BY DEF HideWindow, ViewedIsDocument
<1>2. UNCHANGED <<viewed, doc>> => ViewedIsDocument'
  BY DEF ViewedIsDocument
<1>3. ASSUME NEW v \in Opens,
             \/ \E p \in Passes, r \in BOOLEAN : Open(v, p, r)
             \/ TakeDetail(v) \/ ShowWindow(v) \/ TakeGuardSignatures(v)
      PROVE  ViewedIsDocument'
  BY <1>2, <1>3 DEF Open, TakeDetail, ShowWindow, TakeGuardSignatures, window, ViewedIsDocument
<1>4. CASE \/ Close \/ CloseTimer \/ TakeImage \/ AskReason \/ TypeReason
           \/ \E s \in Signatures : Draw(s) \/ PickImage(s)
  BY <1>1, <1>2, <1>4
  DEF Close, CloseTimer, TakeImage, AskReason, TypeReason, Draw, PickImage, window
<1>5. ASSUME NEW d \in Decisions,
             PressApprove(d) \/ PressConfirm(d) \/ PressReject(d) \/ PressHold(d)
      PROVE  ViewedIsDocument'
  BY <1>2, <1>5 DEF PressApprove, PressConfirm, PressReject, PressHold, StartApproval, window
<1>6. ASSUME NEW d \in Decisions, Answer(d) PROVE ViewedIsDocument'
  <2>1. ASSUME NEW closes, Finish(d, closes), doc' = doc PROVE ViewedIsDocument'
    BY <1>1, <1>2, <2>1 DEF Finish
  <2>2. QED
    BY <1>2, <1>6, <2>1
    DEF Answer, TakeUpload, FailDecision, TakeDecision, TakeScan, TakeLists, TakeRest
<1>7. CASE UNCHANGED vars
  BY <1>2, <1>7 DEF vars, window
<1>8. QED BY <1>3, <1>4, <1>5, <1>6, <1>7 DEF Next
-----------------------------------------------------------------------------
(* Type correctness                                                         *)

LEMMA InitTyped == Init => TypeOK
<1> SUFFICES ASSUME Init PROVE TypeOK
  OBVIOUS
<1>1. ComposerTypeOK
  BY ReviewAssumption DEF Init, ComposerTypeOK, Images
<1>2. closing \in 0 .. MaxTimers
  BY ReviewAssumption DEF Init
<1>3. WindowTypeOK
  BY <1>2 DEF Init, WindowTypeOK
<1>4. NoView \in Views /\ NoDecision \in DecisionCalls
  BY DEF NoView, NoDecision, Views, DecisionCalls, Images, Stages
<1>5. CallsTypeOK
  BY <1>4 DEF Init, CallsTypeOK, Stages
<1>6. QED BY <1>1, <1>3, <1>5 DEF TypeOK

\* viewPass: the types of its window and of the view, and the pass that loads.
ViewsOK == view \in [Opens -> Views] /\ ViewsCarried

LEMMA ActionAreaTyped ==
  ASSUME TypeOK, ViewsCarried, NEW v \in Opens, SetActionArea(v)
  PROVE  /\ ViewsOK'
         /\ buttons' \in BOOLEAN /\ confirms' \in Passes \cup {None}
         /\ reason' \in {"hidden", "empty", "typed"}
         /\ sig' \in Images /\ uploaded' \in Images
<1>1. Ended(NoView) = [NoView EXCEPT !.at = "done"]
  BY DEF Ended
<1>2. Ended(NoView) \in Views /\ Ended(NoView).at \notin Loading
  BY <1>1 DEF NoView, Views, Stages, Loading
<1>3. view' = [view EXCEPT ![v] = Ended(NoView)] /\ view \in [Opens -> Views]
  BY DEF SetActionArea, TypeOK, CallsTypeOK
<1>4. ViewsOK'
  BY <1>2, <1>3 DEF ViewsOK, ViewsCarried
<1>5. view[v].reviewing \in BOOLEAN /\ view[v].pass \in Passes \cup {None}
  BY <1>3 DEF Views
<1>6. buttons' \in BOOLEAN /\ confirms' \in Passes \cup {None}
      /\ reason' \in {"hidden", "empty", "typed"}
  BY <1>5 DEF SetActionArea, TypeOK, WindowTypeOK
<1>7. sig' \in Images /\ uploaded' \in Images
  BY DEF SetActionArea, TypeOK, ComposerTypeOK, Images
<1>8. QED BY <1>4, <1>6, <1>7

LEMMA ViewTyped ==
  ASSUME TypeOK, ViewsCarried, DecisionTypes', NEW v \in Opens,
         \/ \E p \in Passes, r \in BOOLEAN : Open(v, p, r)
         \/ TakeDetail(v) \/ ShowWindow(v) \/ TakeGuardSignatures(v)
  PROVE  TypeOK' /\ ViewsCarried'
<1>1. view \in [Opens -> Views] /\ guard \in BOOLEAN /\ stage \in [Passes -> Stages]
  BY DEF TypeOK, CallsTypeOK
<1>2. CASE \E p \in Passes, r \in BOOLEAN : Open(v, p, r)
  <2>1. PICK p \in Passes, r \in BOOLEAN : Open(v, p, r)
    BY <1>2
  <2>2. view' = [view EXCEPT ![v] = [at |-> "detail", pass |-> p, reviewing |-> r, stage |-> "ready"]]
    BY <2>1 DEF Open
  <2>3. ViewsOK'
    BY <1>1, <2>2 DEF ViewsOK, ViewsCarried, Views, Stages, Loading
  <2>4. QED
    BY <2>1, <2>3
    DEF Open, ViewsOK, DecisionTypes, TypeOK, ComposerTypeOK, WindowTypeOK, CallsTypeOK,
        window, composer, others
<1>3. CASE TakeDetail(v)
  <2> DEFINE p == view[v].pass
  <2>1. p \in Passes
    BY <1>3 DEF TakeDetail, ViewsCarried, Loading
  <2>2. CASE view' = [view EXCEPT ![v].at = "parts",
                                  ![v].stage = stage[p],
                                  ![v].reviewing = @ /\ MayBeReviewed(stage[p])]
             /\ viewed' = p /\ doc' = p /\ records' = records \cup {p}
    <3> DEFINE next == [view[v] EXCEPT !.at = "parts", !.stage = stage[p],
                                       !.reviewing = @ /\ MayBeReviewed(stage[p])]
    <3>1. view' = [view EXCEPT ![v] = next]
      BY <1>1, <2>2 DEF Views
    <3>2. (view[v].reviewing /\ MayBeReviewed(stage[p])) \in BOOLEAN
      OBVIOUS
    <3>3. next \in Views /\ next.pass = p
      BY <1>1, <2>1, <3>2 DEF Views
    <3>4. ViewsOK'
      BY <1>1, <2>1, <3>1, <3>3 DEF ViewsOK, ViewsCarried
    <3>5. QED
      BY <1>3, <2>1, <2>2, <3>4
      DEF TakeDetail, ViewsOK, DecisionTypes, TypeOK, ComposerTypeOK, WindowTypeOK, CallsTypeOK,
          composer, others
  <2>3. CASE view' = [view EXCEPT ![v] = Ended(NoView)] /\ UNCHANGED <<viewed, doc, records>>
    <3>1. Ended(NoView) = [NoView EXCEPT !.at = "done"]
      BY DEF Ended
    <3>2. Ended(NoView) \in Views /\ Ended(NoView).at \notin Loading
      BY <3>1 DEF NoView, Views, Stages, Loading
    <3>3. ViewsOK'
      BY <1>1, <2>3, <3>2 DEF ViewsOK, ViewsCarried
    <3>4. QED
      BY <1>3, <2>3, <3>3
      DEF TakeDetail, ViewsOK, DecisionTypes, TypeOK, ComposerTypeOK, WindowTypeOK, CallsTypeOK,
          composer, others
  <2>4. QED BY <1>3, <2>2, <2>3 DEF TakeDetail
<1>4. CASE ShowWindow(v)
  <2>1. CASE SetActionArea(v)
    BY <1>4, <2>1, ActionAreaTyped
    DEF ShowWindow, ViewsOK, DecisionTypes, TypeOK, ComposerTypeOK, WindowTypeOK, CallsTypeOK, others
  <2>2. CASE view' = [view EXCEPT ![v].at = "guardSignatures"]
             /\ UNCHANGED <<buttons, confirms, reason, sig, uploaded>>
    <3>1. view[v].at \in Loading
      BY <1>4 DEF ShowWindow, Loading
    <3>2. ViewsOK'
      BY <1>1, <2>2, <3>1 DEF ViewsOK, ViewsCarried, Views
    <3>3. QED
      BY <1>4, <2>2, <3>2
      DEF ShowWindow, ViewsOK, DecisionTypes, TypeOK, ComposerTypeOK, WindowTypeOK, CallsTypeOK, others
  <2>3. QED BY <1>4, <2>1, <2>2 DEF ShowWindow
<1>5. CASE TakeGuardSignatures(v)
  BY <1>5, ActionAreaTyped
  DEF TakeGuardSignatures, ViewsOK, DecisionTypes, TypeOK, ComposerTypeOK, WindowTypeOK,
      CallsTypeOK, others
<1>6. QED BY <1>2, <1>3, <1>4, <1>5

\* What closing the window sets.
LEMMA HiddenTyped ==
  ASSUME HideWindow
  PROVE  /\ sig' \in Images /\ uploaded' \in Images
         /\ viewed' \in Passes \cup {None} /\ shown' \in BOOLEAN
         /\ reason' \in {"hidden", "empty", "typed"}
BY DEF HideWindow, ResetComposer, Images

\* Closing, and the signature and reason composers.
LEMMA WindowTyped ==
  ASSUME TypeOK, DecisionTypes',
         \/ Close \/ CloseTimer \/ TakeImage \/ AskReason \/ TypeReason
         \/ \E s \in Signatures : Draw(s) \/ PickImage(s)
  PROVE  TypeOK'
<1>1. closing \in 0 .. MaxTimers /\ images \in 0 .. MaxImages
      /\ MaxTimers \in Nat /\ MaxImages \in Nat
  BY ReviewAssumption DEF TypeOK, WindowTypeOK, ComposerTypeOK
<1>2. CASE Close
  <2>1. closing' \in 0 .. MaxTimers
    BY <1>1, <1>2 DEF Close
  <2>2. QED
    BY <1>2, <2>1
    DEF Close, TypeOK, ComposerTypeOK, WindowTypeOK, CallsTypeOK, composer, others
<1>3. CASE CloseTimer
  <2>1. closing' \in 0 .. MaxTimers
    BY <1>1, <1>3 DEF CloseTimer
  <2>2. QED
    BY <1>3, <2>1, HiddenTyped
    DEF CloseTimer, TypeOK, ComposerTypeOK, WindowTypeOK, CallsTypeOK, others
<1>4. CASE TakeImage \/ AskReason \/ TypeReason
  <2>1. CASE TakeImage
    BY <2>1 DEF TakeImage, Images, TypeOK, ComposerTypeOK, WindowTypeOK, CallsTypeOK, window
  <2>2. CASE AskReason \/ TypeReason
    BY <2>2
    DEF AskReason, TypeReason, TypeOK, ComposerTypeOK, WindowTypeOK, CallsTypeOK, composer, others
  <2>3. QED BY <1>4, <2>1, <2>2
<1>5. ASSUME NEW s \in Signatures, Draw(s) \/ PickImage(s) PROVE TypeOK'
  <2>1. images' \in 0 .. MaxImages
    BY <1>1, <1>5 DEF Draw, PickImage
  <2>2. QED
    BY <1>5, <2>1
    DEF Draw, PickImage, Images, TypeOK, ComposerTypeOK, WindowTypeOK, CallsTypeOK, window
<1>6. QED BY <1>2, <1>3, <1>4, <1>5

LEMMA PressTyped ==
  ASSUME TypeOK, DecisionTypes', NEW d \in Decisions,
         PressApprove(d) \/ PressConfirm(d) \/ PressReject(d) \/ PressHold(d)
  PROVE  TypeOK'
<1>1. ASSUME NEW kind, NEW p, StartApproval(d, kind, p) PROVE TypeOK'
  BY <1>1
  DEF StartApproval, DecisionTypes, TypeOK, ComposerTypeOK, WindowTypeOK, CallsTypeOK,
      composer, others
<1>2. CASE PressReject(d) \/ PressHold(d)
  BY <1>2
  DEF PressReject, PressHold, DecisionTypes, TypeOK, ComposerTypeOK, WindowTypeOK, CallsTypeOK,
      window, composer, others
<1>3. QED BY <1>1, <1>2 DEF PressApprove, PressConfirm

LEMMA AnswerTyped ==
  ASSUME TypeOK, DecisionInv, DecisionTypes', NEW d \in Decisions, Answer(d)
  PROVE  TypeOK'
<1> DEFINE c == decision[d]
<1>1. c.chosen \in Images
  BY DEF TypeOK, CallsTypeOK, DecisionCalls
<1>2. c.at = "post" => c.pass \in Passes /\ c.kind \in Kinds
  BY DEF DecisionInv, DecisionTypes, DecisionCalls, DecisionsCarried, UnderWay
<1>3. c.at = "post" => \A s \in Stages : [stage EXCEPT ![c.pass] = s] \in [Passes -> Stages]
  BY <1>2 DEF TypeOK, CallsTypeOK
<1>4. ASSUME NEW closes, Finish(d, closes)
      PROVE  /\ disabled' \in BOOLEAN
             /\ shown' \in BOOLEAN /\ viewed' \in Passes \cup {None}
             /\ reason' \in {"hidden", "empty", "typed"}
             /\ sig' \in Images /\ uploaded' \in Images
  BY <1>4, HiddenTyped DEF Finish, TypeOK, WindowTypeOK, ComposerTypeOK
<1>5. CASE TakeUpload(d)
  BY <1>1, <1>4, <1>5
  DEF TakeUpload, DecisionTypes, TypeOK, ComposerTypeOK, WindowTypeOK, CallsTypeOK, others
<1>6. CASE FailDecision(d) \/ TakeRest(d)
  BY <1>4, <1>6
  DEF FailDecision, TakeRest, DecisionTypes, TypeOK, ComposerTypeOK, WindowTypeOK, CallsTypeOK, others
<1>7. CASE TakeLists(d)
  BY <1>4, <1>7
  DEF TakeLists, DecisionTypes, TypeOK, ComposerTypeOK, WindowTypeOK, CallsTypeOK, others
<1>8. CASE TakeScan(d)
  <2>1. stage' \in [Passes -> Stages]
    <3>1. CASE UNCHANGED stage
      BY <3>1 DEF TypeOK, CallsTypeOK
    <3>2. CASE \E s \in AfterScan(stage[c.pass]) : stage' = [stage EXCEPT ![c.pass] = s]
      <4>1. AfterScan(stage[c.pass]) \subseteq Stages
        BY DEF AfterScan, Stages
      <4>2. QED BY <1>3, <1>8, <3>2, <4>1 DEF TakeScan
    <3>3. QED BY <1>8, <3>1, <3>2 DEF TakeScan
  <2>2. QED
    BY <1>4, <1>8, <2>1
    DEF TakeScan, DecisionTypes, TypeOK, ComposerTypeOK, WindowTypeOK, CallsTypeOK, others
<1>9. CASE TakeDecision(d)
  <2>1. stage' \in [Passes -> Stages]
    <3>1. c.kind \in Kinds \ {"scan"} /\ stage[c.pass] \in Stages
      BY <1>2, <1>9 DEF TakeDecision, TypeOK, CallsTypeOK
    <3>2. AfterDecision(c.kind, stage[c.pass]) \in Stages
      BY <3>1 DEF AfterDecision, Kinds, Stages
    <3>3. QED BY <1>3, <1>9, <3>2 DEF TakeDecision
  <2>2. closing' \in 0 .. MaxTimers
    BY <1>9, ReviewAssumption DEF TakeDecision, TypeOK, WindowTypeOK
  <2>3. saved' \in Images
    BY <1>9 DEF TakeDecision, TypeOK, ComposerTypeOK, Images
  <2>4. disabled' = disabled
    BY <1>9 DEF TakeDecision
  <2>5. QED
    BY <1>9, <2>1, <2>2, <2>3, <2>4
    DEF TakeDecision, DecisionTypes, TypeOK, ComposerTypeOK, WindowTypeOK, CallsTypeOK
<1>10. QED BY <1>5, <1>6, <1>7, <1>8, <1>9 DEF Answer

LEMMA TypedInductive ==
  TypeOK /\ ViewsCarried /\ DecisionInv /\ DecisionTypes' /\ [Next]_vars => TypeOK' /\ ViewsCarried'
<1> SUFFICES ASSUME TypeOK, ViewsCarried, DecisionInv, DecisionTypes', [Next]_vars
             PROVE  TypeOK' /\ ViewsCarried'
  OBVIOUS
<1>1. view' = view => ViewsCarried'
  BY DEF ViewsCarried
<1>2. ASSUME NEW v \in Opens,
             \/ \E p \in Passes, r \in BOOLEAN : Open(v, p, r)
             \/ TakeDetail(v) \/ ShowWindow(v) \/ TakeGuardSignatures(v)
      PROVE  TypeOK' /\ ViewsCarried'
  BY <1>2, ViewTyped
<1>3. CASE \/ Close \/ CloseTimer \/ TakeImage \/ AskReason \/ TypeReason
           \/ \E s \in Signatures : Draw(s) \/ PickImage(s)
  <2>1. view' = view
    BY <1>3 DEF Close, CloseTimer, TakeImage, AskReason, TypeReason, Draw, PickImage
  <2>2. QED BY <1>1, <1>3, <2>1, WindowTyped
<1>4. ASSUME NEW d \in Decisions,
             PressApprove(d) \/ PressConfirm(d) \/ PressReject(d) \/ PressHold(d)
      PROVE  TypeOK' /\ ViewsCarried'
  <2>1. view' = view
    BY <1>4 DEF PressApprove, PressConfirm, PressReject, PressHold, StartApproval
  <2>2. QED BY <1>1, <1>4, <2>1, PressTyped
<1>5. ASSUME NEW d \in Decisions, Answer(d) PROVE TypeOK' /\ ViewsCarried'
  <2>1. view' = view
    BY <1>5 DEF Answer, TakeUpload, FailDecision, TakeDecision, TakeScan, TakeLists, TakeRest
  <2>2. QED BY <1>1, <1>5, <2>1, AnswerTyped
<1>6. CASE UNCHANGED vars
  BY <1>1, <1>6
  DEF vars, window, composer, others, TypeOK, ComposerTypeOK, WindowTypeOK, CallsTypeOK
<1>7. QED BY <1>2, <1>3, <1>4, <1>5, <1>6 DEF Next
-----------------------------------------------------------------------------
(* The theorems                                                             *)

\* All parts of the invariant hold together.
LEMMA InvCorrect == Spec => []ReviewInv
<1>1. Init => ReviewInv
  <2> SUFFICES ASSUME Init PROVE ReviewInv
    OBVIOUS
  <2>1. \A v \in Opens : view[v].at = "unused"
    BY DEF Init, NoView
  <2>2. \A d \in Decisions : decision[d].at = "unused" /\ decision[d].kind = None
    BY DEF Init, NoDecision
  <2>3. ViewsCarried /\ ViewedIsDocument
    BY <2>1 DEF Init, ViewsCarried, Loading, ViewedIsDocument
  <2>4. DecisionTypes
    BY InitTyped DEF TypeOK, CallsTypeOK, DecisionTypes
  <2>5. Approvals = {}
    BY <2>2, ReviewAssumption DEF Approvals, Kinds
  <2>6. DecisionInv
    BY <2>2, <2>4, <2>5 DEF Init, DecisionInv, DecisionsCarried, UnderWay, ButtonHeld, SentAsAttached
  <2>7. QED BY <2>3, <2>6, InitTyped DEF ReviewInv
<1>2. ReviewInv /\ [Next]_vars => ReviewInv'
  BY DecisionInductive, ViewedInductive, TypedInductive DEF ReviewInv, DecisionInv
<1>3. QED BY <1>1, <1>2, PTL DEF Spec

\* Every variable of the page keeps its type.
THEOREM TypeCorrect == Spec => []TypeOK
BY InvCorrect, PTL DEF ReviewInv

\* At most one approval or scan is under way, and the button is disabled just
\* then (approveCurrentPass and the closure of viewPass share it).
THEOREM OneApprovalCorrect == Spec => []OneApprovalAtATime
<1>1. ReviewInv => OneApprovalAtATime
  <2> SUFFICES ASSUME ReviewInv PROVE OneApprovalAtATime
    OBVIOUS
  <2>1. ButtonHeld
    BY DEF ReviewInv, DecisionInv
  <2>2. CASE Approvals = {}
    BY <2>1, <2>2, FS_EmptySet DEF ButtonHeld, OneApprovalAtATime
  <2>3. CASE Approvals # {}
    <3>1. PICK d : Approvals = {d}
      BY <2>1, <2>3 DEF ButtonHeld
    <3>2. Cardinality(Approvals) = 1
      BY <3>1, FS_Singleton
    <3>3. QED BY <2>1, <3>2 DEF ButtonHeld, OneApprovalAtATime
  <2>4. QED BY <2>2, <2>3
<1>2. QED BY <1>1, InvCorrect, PTL

\* An approval names the file of the image that was attached when its button was
\* pressed (uploadCurrentSignature and lastSignatureUpload).
THEOREM AttachedCorrect == Spec => []SentAsAttached
BY InvCorrect, PTL DEF ReviewInv, DecisionInv

\* An approver decides about the document on screen (currentViewedPassId).
THEOREM ShownCorrect == Spec => DecisionOnShownDocument
<1> DEFINE A == \A d \in Decisions :
                  decision[d].at = "unused" /\ decision'[d].at # "unused" /\ ~guard
                    => shown /\ decision'[d].pass = doc
<1>1. ReviewInv /\ [Next]_vars => [A]_vars
  <2> SUFFICES ASSUME ReviewInv, [Next]_vars, NEW e \in Decisions,
                      decision[e].at = "unused", decision'[e].at # "unused", ~guard
               PROVE  shown /\ decision'[e].pass = doc
    OBVIOUS
  <2>1. DecisionTypes /\ sig \in Images /\ guard \in BOOLEAN
    BY DEF ReviewInv, DecisionInv, TypeOK, ComposerTypeOK, CallsTypeOK
  <2>2. ASSUME NEW p \in Passes, Current(p) PROVE p = doc
    BY <2>2, ReviewAssumption DEF Current, ReviewInv, ViewedIsDocument
  <2>3. ASSUME NEW d \in Decisions,
               PressApprove(d) \/ PressConfirm(d) \/ PressReject(d) \/ PressHold(d)
        PROVE  shown /\ decision'[e].pass = doc
    <3>1. PICK p \in Passes, kind \in Kinds :
            shown /\ Current(p) /\ \E at, file : Send(d, kind, p, at, file)
      BY <2>3
      DEF PressApprove, PressConfirm, PressReject, PressHold, StartApproval, Kinds
    <3>2. e = d
      BY <2>1, <3>1 DEF Send, DecisionTypes
    <3>3. QED BY <2>1, <2>2, <3>1, <3>2 DEF Send, DecisionTypes
  <2>4. ASSUME NEW d \in Decisions, Answer(d) PROVE FALSE
    <3>1. Ends(d) \/ GoesOn(d) \/ Stored(d)
      BY <2>1, <2>4, AnswerForms
    <3>2. decision[d].at # "unused" /\ decision'[e] = decision[e]
      BY <2>1, <3>1 DEF Ends, GoesOn, Stored, UnderWay, Finish, Step, DecisionTypes
    <3>3. QED BY <3>2
  <2>5. UNCHANGED <<decision, disabled>> => FALSE
    OBVIOUS
  <2>6. QED BY <2>3, <2>4, <2>5, QuietSteps DEF Next
<1>2. QED BY <1>1, InvCorrect, PTL DEF Spec, DecisionOnShownDocument
=============================================================================
