----------------------------- MODULE ReviewModal -----------------------------
(***************************************************************************)
(* The document window of the front end and the decisions taken in it      *)
(* (viewPass in modal.js, approvals.js, the composer of signature.js).     *)
(*                                                                         *)
(* There is one window.  Opening a pass takes several awaited calls, and   *)
(* each sets another part of the window: the form, then the window itself, *)
(* then the buttons.  A second pass may be opened while the first is still *)
(* loading, and a decision goes on when its window has long been closed,   *)
(* reading what the window shows by then.                                  *)
(***************************************************************************)
EXTENDS Naturals, FiniteSets

CONSTANTS
  Passes,
  Signatures,      \* images that can be attached
  None,
  MaxOpens,        \* bound: documents opened
  MaxDecisions,    \* bound: decisions sent
  MaxImages,       \* bound: images attached by hand
  MaxTimers        \* bound: timers of closeModal running at once

Kinds == {"approve", "scan", "reject", "hold"}  \* of decisions

ASSUME ReviewAssumption ==
         /\ Passes # {} /\ None \notin Passes \cup Signatures \cup Kinds
         /\ MaxOpens \in Nat \ {0} /\ MaxDecisions \in Nat \ {0}
         /\ MaxImages \in Nat \ {0} /\ MaxTimers \in Nat \ {0}

VARIABLES
  guard,       \* the user is of Security, else an approver
  stage,       \* the server: [Passes -> Stages]
  \* the page
  records,     \* the passes gatePasses holds
  viewed,      \* currentViewedPassId
  doc,         \* the pass whose fields are in the form
  shown,       \* printModal is not hidden
  closing,     \* timers of closeModal that are running
  buttons,     \* the action area is displayed
  confirms,    \* the pass in the closure behind the guard's button
  reason,      \* the reason composer
  disabled,    \* approveRequestButton.disabled
  \* the signature composer
  sig,         \* currentUploadedSig
  incoming,    \* an image being read or processed
  uploaded,    \* lastSignatureUpload
  saved,       \* the default signature in localStorage
  images,      \* images attached by hand so far
  \* asynchronous functions
  view,        \* calls of viewPass
  decision     \* calls of approve-, reject-, holdCurrentPass and of the closure

window == <<viewed, doc, shown, closing, buttons, confirms, reason, disabled>>
others == <<incoming, saved, images>>
composer == <<sig, uploaded, others>>
vars == <<guard, stage, records, window, composer, view, decision>>

\* "ready": waits for the approver, or for the guard's first scan.
Stages == {"ready", "outside", "moved", "finished"}
Opens == 1 .. MaxOpens
Decisions == 1 .. MaxDecisions

\* at: the call under way; stage: the status read with the document.
NoView == [at |-> "unused", pass |-> None, reviewing |-> FALSE, stage |-> "ready"]
NoDecision == [at |-> "unused", kind |-> None, pass |-> None, chosen |-> None, file |-> None]
Ended(call) == [call EXCEPT !.at = "done"]

NextOpen(v) == view[v].at = "unused" /\ \A w \in Opens : w < v => view[w].at # "unused"
NextDecision(d) ==
  decision[d].at = "unused" /\ \A e \in Decisions : e < d => decision[e].at # "unused"

Approvals == {d \in Decisions : decision[d].kind \in {"approve", "scan"}}
-----------------------------------------------------------------------------
Init ==
  /\ guard \in BOOLEAN
  /\ stage = [p \in Passes |-> "ready"]
  /\ records \in {{}, Passes}     \* what has been opened before
  /\ viewed = None /\ doc = None
  /\ shown = FALSE /\ closing = 0
  /\ buttons = FALSE /\ confirms = None
  /\ reason = "hidden" /\ disabled = FALSE
  /\ sig = None /\ incoming = None /\ uploaded = None
  /\ saved \in Signatures \cup {None} /\ images = 0
  /\ view = [v \in Opens |-> NoView]
  /\ decision = [d \in Decisions |-> NoDecision]

\* resetApprovalSignatureComposer.  An image on its way still arrives.
ResetComposer == sig' = None /\ uploaded' = None

\* What closing leaves: the buttons keep their display and their closure.
HideWindow ==
  /\ shown' = FALSE
  /\ viewed' = None
  /\ reason' = "hidden"
  /\ ResetComposer
-----------------------------------------------------------------------------
(* viewPass.                                                                *)

\* Mutant: the pass is noted down before the document is there.
OpenNoted(v, p, r) ==
  /\ ~shown /\ NextOpen(v)
  /\ view' = [view EXCEPT ![v] = [at |-> "detail", pass |-> p, reviewing |-> r, stage |-> "ready"]]
  /\ viewed' = p
  /\ UNCHANGED <<guard, stage, records, doc, shown, closing, buttons, confirms, reason,
                 disabled, composer, decision>>

\* The window covers the page, so a document is opened only while it is hidden.
Open(v, p, r) ==
  /\ ~shown /\ NextOpen(v)
  /\ view' = [view EXCEPT ![v] = [at |-> "detail", pass |-> p, reviewing |-> r, stage |-> "ready"]]
  /\ UNCHANGED <<guard, stage, records, window, composer, decision>>

\* isFinishedDocumentStatus, and for a guard isSecurityScanActionableStatus.
MayBeReviewed(s) == s # "finished" /\ (guard => s \in {"ready", "outside"})

\* getGatePassDetail answers: the record joins gatePasses and the form is filled.
TakeDetail(v) ==
  /\ view[v].at = "detail"
  /\ LET p == view[v].pass IN
     \/ /\ view' = [view EXCEPT ![v].at = "parts",
                                ![v].stage = stage[p],
                                ![v].reviewing = @ /\ MayBeReviewed(stage[p])]
        /\ viewed' = p /\ doc' = p
        /\ records' = records \cup {p}
     \/ /\ view' = [view EXCEPT ![v] = Ended(NoView)]
        /\ UNCHANGED <<viewed, doc, records>>
  /\ UNCHANGED <<guard, stage, shown, closing, buttons, confirms, reason, disabled,
                 composer, decision>>

\* The action area of view v; a saved signature is attached at once.
SetActionArea(v) ==
  /\ view' = [view EXCEPT ![v] = Ended(NoView)]
  /\ buttons' = view[v].reviewing
  /\ IF view[v].reviewing
     THEN /\ confirms' = IF guard THEN view[v].pass ELSE confirms
          /\ sig' = saved /\ uploaded' = None
          /\ UNCHANGED reason
     ELSE /\ reason' = "hidden"
          /\ UNCHANGED <<confirms, sig, uploaded>>

\* Materials, signatures and QR code are there (each call may fail on its own):
\* the window is shown.  Signatures of guards, if it has been scanned with one, are
\* awaited before the buttons.
ShowWindow(v) ==
  /\ view[v].at = "parts"
  /\ shown' = TRUE
  /\ \/ /\ view[v].stage # "ready"
        /\ view' = [view EXCEPT ![v].at = "guardSignatures"]
        /\ UNCHANGED <<buttons, confirms, reason, sig, uploaded>>
     \/ SetActionArea(v)
  /\ UNCHANGED <<guard, stage, records, viewed, doc, closing, disabled, others,
                 decision>>

TakeGuardSignatures(v) ==
  /\ view[v].at = "guardSignatures"
  /\ SetActionArea(v)
  /\ UNCHANGED <<guard, stage, records, viewed, doc, shown, closing, disabled, others,
                 decision>>

\* closeModal: hidden after 300 ms, whatever is shown by then.
Close ==
  /\ shown /\ closing < MaxTimers
  /\ closing' = closing + 1
  /\ UNCHANGED <<guard, stage, records, viewed, doc, shown, buttons, confirms, reason, disabled,
                 composer, view, decision>>

CloseTimer ==
  /\ closing > 0
  /\ closing' = closing - 1
  /\ HideWindow
  /\ UNCHANGED <<guard, stage, records, doc, buttons, confirms, disabled, others,
                 view, decision>>
-----------------------------------------------------------------------------
(* The signature composer.                                                  *)

\* useDrawnSignature.
Draw(s) ==
  /\ shown /\ buttons /\ images < MaxImages
  /\ sig' = s
  /\ images' = images + 1
  /\ UNCHANGED <<guard, stage, records, window, incoming, uploaded, saved, view, decision>>

\* A chosen file, or a background to be removed, is worked on.
PickImage(s) ==
  /\ shown /\ buttons /\ incoming = None /\ images < MaxImages
  /\ incoming' = s
  /\ images' = images + 1
  /\ UNCHANGED <<guard, stage, records, window, sig, uploaded, saved, view, decision>>

\* processAndRenderSignature: the result is attached to whatever is there.
TakeImage ==
  /\ incoming # None
  /\ incoming' = None
  /\ sig' = incoming
  /\ UNCHANGED <<guard, stage, records, window, uploaded, saved, images, view, decision>>
-----------------------------------------------------------------------------
(* Decisions.                                                               *)

\* findGatePassRecord for currentViewedPassId.
Current(p) == viewed = p /\ p \in records

Send(d, kind, p, at, file) ==
  decision' = [decision EXCEPT ![d] =
                 [at |-> at, kind |-> kind, pass |-> p, chosen |-> sig, file |-> file]]

\* An image stands for the picture with the width and the offset it is sent with:
\* what uploadCurrentSignature compares.  Mutant: whatever was uploaded last is
\* sent again.
ReuseAny(s) == uploaded # None

\* uploadCurrentSignature: a file uploaded for the same image is used again.
Reuse(s) == uploaded = s

\* Mutant: the button stays enabled while the approval is under way.
StartEnabled(d, kind, p) ==
  /\ ~disabled /\ NextDecision(d)
  /\ IF sig = None \/ Reuse(sig)
     THEN Send(d, kind, p, "post", IF sig = None THEN None ELSE uploaded)
     ELSE Send(d, kind, p, "upload", None)
  /\ UNCHANGED <<guard, stage, records, window, composer, view>>

\* Up to the first await: the button is disabled, the image is chosen.
StartApproval(d, kind, p) ==
  /\ ~disabled /\ NextDecision(d)
  /\ disabled' = TRUE
  /\ IF sig = None \/ Reuse(sig)
     THEN Send(d, kind, p, "post", IF sig = None THEN None ELSE uploaded)
     ELSE Send(d, kind, p, "upload", None)
  /\ UNCHANGED <<guard, stage, records, viewed, doc, shown, closing, buttons, confirms, reason,
                 composer, view>>

PressApprove(d) ==
  /\ shown /\ buttons /\ ~guard
  /\ \E p \in Passes : Current(p) /\ StartApproval(d, "approve", p)

\* The closure of viewPass behind "Confirm Time Out" and "Confirm Time In".
PressConfirm(d) ==
  /\ shown /\ buttons /\ guard /\ confirms # None
  /\ StartApproval(d, "scan", confirms)

\* The first press of Reject or Hold only shows the reason composer.
AskReason ==
  /\ shown /\ buttons /\ ~guard
  /\ \E p \in Passes : Current(p)
  /\ reason = "hidden"
  /\ reason' = "empty"
  /\ UNCHANGED <<guard, stage, records, viewed, doc, shown, closing, buttons, confirms, disabled,
                 composer, view, decision>>

TypeReason ==
  /\ shown /\ reason = "empty"
  /\ reason' = "typed"
  /\ UNCHANGED <<guard, stage, records, viewed, doc, shown, closing, buttons, confirms, disabled,
                 composer, view, decision>>

\* rejectCurrentPass and holdCurrentPass send no signature; only the button of
\* the latter is disabled meanwhile.
PressReject(d) ==
  /\ shown /\ buttons /\ ~guard /\ reason = "typed" /\ NextDecision(d)
  /\ \E p \in Passes : Current(p) /\ Send(d, "reject", p, "post", None)
  /\ UNCHANGED <<guard, stage, records, window, composer, view>>

PressHold(d) ==
  /\ shown /\ buttons /\ ~guard /\ reason = "typed" /\ NextDecision(d)
  /\ \A e \in Decisions : decision[e].kind # "hold"
  /\ \E p \in Passes : Current(p) /\ Send(d, "hold", p, "post", None)
  /\ UNCHANGED <<guard, stage, records, window, composer, view>>

Step(d, at) == decision' = [decision EXCEPT ![d].at = at]

\* The end of decision d: its finally clause.  A guard's window is closed at
\* once (forceCloseModal) unless the upload failed.
Finish(d, closes) ==
  /\ decision' = [decision EXCEPT ![d] = Ended(NoDecision)]
  /\ disabled' = IF decision[d].kind \in {"approve", "scan"} THEN FALSE ELSE disabled
  /\ IF closes THEN HideWindow ELSE UNCHANGED <<shown, viewed, reason, sig, uploaded>>

\* The answer to POST /signatures is remembered for whatever is shown by now.
TakeUpload(d) ==
  /\ decision[d].at = "upload"
  /\ \/ /\ uploaded' = decision[d].chosen
        /\ decision' = [decision EXCEPT ![d].at = "post", ![d].file = decision[d].chosen]
        /\ UNCHANGED <<disabled, shown, viewed, reason, sig>>
     \/ Finish(d, FALSE)
  /\ UNCHANGED <<guard, stage, records, doc, closing, buttons, confirms, others, view>>

\* DecideAsync refuses a pass that does not wait for the approver.  One put on
\* hold still does.
Awaited(s) == s = "ready"
AfterDecision(kind, s) ==
  CASE kind = "hold" -> s
    [] kind = "reject" -> "finished"
    [] kind = "approve" -> "moved"

\* ScanAsync: out, or closed at once if nobody is to return, and back.
MayPass(s) == s \in {"ready", "outside"}
AfterScan(s) == IF s = "ready" THEN {"outside", "finished"} ELSE {"finished"}

\* Mutant: an error leaves the button as it is.
FailKeepingButton(d) ==
  /\ decision[d].at = "post" /\ decision[d].kind # "scan"
  /\ decision' = [decision EXCEPT ![d] = Ended(NoDecision)]
  /\ UNCHANGED <<disabled, shown, viewed, reason, sig, uploaded, guard, stage, records, doc,
                 closing, buttons, confirms, others, view>>

\* A decision is refused, or does not arrive.
FailDecision(d) ==
  /\ decision[d].at = "post" /\ decision[d].kind # "scan"
  /\ Finish(d, FALSE)
  /\ UNCHANGED <<guard, stage, records, doc, closing, buttons, confirms, others, view>>

\* A decision is taken.  An approval keeps the signature attached by now as the
\* default, if the box is ticked, and forgets the default if it is not.
TakeDecision(d) ==
  /\ decision[d].at = "post" /\ decision[d].kind # "scan"
  /\ LET c == decision[d] IN
     /\ Awaited(stage[c.pass])
     /\ stage' = [stage EXCEPT ![c.pass] = AfterDecision(c.kind, @)]
     /\ saved' \in IF c.kind = "approve" THEN {sig, None} ELSE {saved}
  /\ closing' = IF closing < MaxTimers THEN closing + 1 ELSE closing
  /\ Step(d, "lists")
  /\ UNCHANGED <<guard, records, viewed, doc, shown, buttons, confirms, reason, disabled,
                 sig, incoming, uploaded, images, view>>

\* executeSecurityScan shows every failure itself.
TakeScan(d) ==
  /\ decision[d].at = "post" /\ decision[d].kind = "scan"
  /\ LET p == decision[d].pass IN
     \/ /\ MayPass(stage[p])
        /\ \E s \in AfterScan(stage[p]) : stage' = [stage EXCEPT ![p] = s]
        /\ Step(d, "rest")
        /\ UNCHANGED <<disabled, shown, viewed, reason, sig, uploaded>>
     \/ Finish(d, TRUE) /\ UNCHANGED stage
  /\ UNCHANGED <<guard, records, doc, closing, buttons, confirms, others, view>>

\* refreshApplicationState: loadMyGatePasses replaces gatePasses by the user's
\* own passes.
TakeLists(d) ==
  /\ decision[d].at = "lists"
  /\ \/ /\ records' = {}
        /\ Step(d, "rest")
        /\ UNCHANGED <<disabled, shown, viewed, reason, sig, uploaded>>
     \/ Finish(d, FALSE) /\ UNCHANGED records
  /\ UNCHANGED <<guard, stage, doc, closing, buttons, confirms, others, view>>

TakeRest(d) ==
  /\ decision[d].at = "rest"
  /\ Finish(d, guard)
  /\ UNCHANGED <<guard, stage, records, doc, closing, buttons, confirms, others, view>>

Answer(d) ==
  TakeUpload(d) \/ FailDecision(d) \/ TakeDecision(d) \/ TakeScan(d) \/ TakeLists(d) \/ TakeRest(d)

Next ==
  \/ \E v \in Opens :
       \/ \E p \in Passes, r \in BOOLEAN : Open(v, p, r)
       \/ TakeDetail(v) \/ ShowWindow(v) \/ TakeGuardSignatures(v)
  \/ Close \/ CloseTimer
  \/ \E s \in Signatures : Draw(s) \/ PickImage(s)
  \/ TakeImage \/ AskReason \/ TypeReason
  \/ \E d \in Decisions :
       PressApprove(d) \/ PressConfirm(d) \/ PressReject(d) \/ PressHold(d) \/ Answer(d)

Spec == Init /\ [][Next]_vars

\* Every call is answered in the end.
FairSpec == Spec /\ \A d \in Decisions : WF_vars(Answer(d))
-----------------------------------------------------------------------------
Images == Signatures \cup {None}
Views == [at : {"unused", "detail", "parts", "guardSignatures", "done"},
          pass : Passes \cup {None}, reviewing : BOOLEAN, stage : Stages]
DecisionCalls == [at : {"unused", "upload", "post", "lists", "rest", "done"},
                  kind : Kinds \cup {None},
                  pass : Passes \cup {None}, chosen : Images, file : Images]

ComposerTypeOK ==
  /\ sig \in Images /\ incoming \in Images /\ uploaded \in Images /\ saved \in Images
  /\ images \in 0 .. MaxImages

WindowTypeOK ==
  /\ records \subseteq Passes
  /\ viewed \in Passes \cup {None} /\ doc \in Passes \cup {None}
  /\ shown \in BOOLEAN /\ closing \in 0 .. MaxTimers
  /\ buttons \in BOOLEAN /\ confirms \in Passes \cup {None}
  /\ reason \in {"hidden", "empty", "typed"} /\ disabled \in BOOLEAN

CallsTypeOK ==
  /\ guard \in BOOLEAN /\ stage \in [Passes -> Stages]
  /\ view \in [Opens -> Views]
  /\ decision \in [Decisions -> DecisionCalls]

TypeOK == ComposerTypeOK /\ WindowTypeOK /\ CallsTypeOK

\* What an approver decides is what the form shows: documents that load at the
\* same time, and windows that close under them, never make a decision go to
\* another pass (currentViewedPassId and the fields are set together).
DecisionOnShownDocument ==
  [][\A d \in Decisions :
       decision[d].at = "unused" /\ decision'[d].at # "unused" /\ ~guard
         => shown /\ decision'[d].pass = doc]_vars

\* The button shared by all documents lets one approval or scan through at a
\* time: no double click and no reopened window sends a second one meanwhile,
\* and whoever has one under way finds it disabled.
OneApprovalAtATime ==
  Cardinality(Approvals) <= 1 /\ (disabled <=> Approvals # {})

\* The file an approval names holds the image that was attached when its button
\* was pressed, also when a retry uses an uploaded file again.
SentAsAttached ==
  \A d \in Approvals : decision[d].at # "upload" => decision[d].file = decision[d].chosen

\* Whatever fails, the button can be pressed again in the end.
ButtonComesBack == disabled ~> ~disabled

\* "Click Mark as OUT on exit and Mark as IN on return": what a guard confirms
\* is the pass that is on screen.
GuardScansShownPass ==
  [][\A d \in Decisions :
       decision[d].at = "unused" /\ decision'[d].at # "unused" /\ guard
         => decision'[d].pass = doc]_vars
=============================================================================
