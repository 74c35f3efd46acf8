---------------------------- MODULE RequestForms ----------------------------
(***************************************************************************)
(* The two request forms of the page: the person form (gatepass.js) and the *)
(* material form (material-gatepass.js), with the list of companions both   *)
(* of them have.                                                            *)
(*                                                                          *)
(* A list of companions is what its rows show and what they remember: the   *)
(* text typed, and the employee picked for it.  The material form sends its *)
(* signature and its photos before the request, and reads the form again in *)
(* between; a refresh of the page, or a logout, may have come first.        *)
(***************************************************************************)
EXTENDS Integers, Sequences, FiniteSets, SequencesExt

CONSTANTS
  Employees, FirstPage,   \* the directory, and what GET /employees?limit=100 gives of it
  Me,                     \* the requestor
  Limit,                  \* 19: companions of a form
  MaxItems,               \* 20: items of a material form
  MaxAdding,              \* bound: rows that wait for the directory at once
  MaxAsked                \* bound: searches of the directory at once

None == "none"
Words == "words"          \* a text that names nobody, and may be a part of any name
Blank == ""
Forms == {"person", "material"}

ASSUME FormsAssumption ==
         /\ Me \in Employees /\ FirstPage \subseteq Employees
         /\ {None, Words, Blank} \cap Employees = {}
         /\ Limit \in Nat /\ MaxItems \in Nat \ {0} /\ MaxAdding \in Nat \ {0}
         /\ MaxAsked \in Nat

VARIABLES
  shown,        \* the form on the page
  companions,   \* [Forms -> the rows of its list, and the notice of whom the pass covers]
  directory,    \* associateDirectoryCache
  adding,       \* [Forms -> calls of addAssociateRow that wait for the directory]
  asked,        \* searches of the directory under way
  trip,         \* the person form's trip
  material,     \* the material form without its companions
  sending       \* [Forms -> the submission under way]

formsVars == <<shown, companions, directory, adding, asked, trip, material, sending>>

\* A row is blank, shows a text that is nobody's full name, or an employee's.
Texts == Employees \cup {Blank, Words}
Rows == [kind : {"employee", "other"}, text : Texts, pick : Employees \cup {None}]
NewRow == [kind |-> "employee", text |-> Blank, pick |-> None]
NoRows == [rows |-> <<>>, notice |-> "hidden"]

\* A submission: where it is, the slot whose photo is uploaded (0: the signature),
\* and the number of items it was pressed with.
NotSending == [at |-> "no", slot |-> 0, items |-> 0]
-----------------------------------------------------------------------------
(* Companions.  The operators take the list of a form and return it.        *)

\* personAssociateRows: rows that show something.
ShownRows(rows) == {i \in DOMAIN rows : rows[i].text # Blank}

\* isRequestorIncluded
Included(rows) ==
  ShownRows(rows) = {} \/ \E i \in ShownRows(rows) : rows[i].pick = Me

\* updateRequestorScopeNotice.  The material form has no such notice.
Scope(rows) == IF ShownRows(rows) = {} THEN "hidden"
               ELSE IF Included(rows) THEN "you too" ELSE "others only"

Told(f, c) == IF f = "person" THEN [c EXCEPT !.notice = Scope(c.rows)] ELSE c

Append1(f, c) == Told(f, [c EXCEPT !.rows = Append(@, NewRow)])

\* Mutant: the row goes and the notice stays.
RemovedSilently(f, c, i) == [c EXCEPT !.rows = RemoveAt(@, i)]

\* removeAssociateRow
Removed(f, c, i) == Told(f, [c EXCEPT !.rows = RemoveAt(@, i)])

\* toggleAssociateEmployee: the pick goes, and towards "Employee" the text too.
Toggled(f, c, i) ==
  Told(f, [c EXCEPT !.rows[i] =
             IF @.kind = "employee" THEN [@ EXCEPT !.kind = "other", !.pick = None]
                                    ELSE NewRow])

\* handleAssociateSearchInput
Typed(f, c, i, text) ==
  Told(f, [c EXCEPT !.rows[i].text = text, !.rows[i].pick = None])

\* selectAssociate: refused, the text is cleared and nobody is told.
Refused(f, c, i, e) ==
  \/ f = "material" /\ e = Me
  \/ \E j \in DOMAIN c.rows \ {i} : c.rows[j].pick = e

\* Mutant: the same employee may be picked twice.
SelectedAgain(f, c, i, e) == Told(f, [c EXCEPT !.rows[i].text = e, !.rows[i].pick = e])

Selected(f, c, i, e) ==
  IF Refused(f, c, i, e)
  THEN [c EXCEPT !.rows[i].text = Blank]
  ELSE Told(f, [c EXCEPT !.rows[i].text = e, !.rows[i].pick = e])

\* filterAssociateEmployees: the employees the directory knows whose name the
\* text is a part of.  After a refused pick the box stays open over a blank text,
\* with what was suggested for the text before, which may have been any.
Suggested(row) == {e \in directory : row.text \in {Blank, Words, e}}

\* hasUnconfirmedAssociateRows: from the top, a full name the directory knows is
\* picked; at the first text that names nobody the rest is left alone.
Unconfirmed(row) == row.kind = "employee" /\ row.pick = None /\ row.text # Blank

Confirmed(f, c) ==
  FoldLeft(LAMBDA acc, i :
             LET row == acc.c.rows[i] IN
             IF ~acc.ok \/ ~Unconfirmed(row) THEN acc
             ELSE IF row.text \in directory
                  THEN [acc EXCEPT !.c = Selected(f, acc.c, i, row.text)]
                  ELSE [acc EXCEPT !.ok = FALSE],
           [c |-> c, ok |-> TRUE],
           [i \in DOMAIN c.rows |-> i])
-----------------------------------------------------------------------------
(* The trip of the person form.                                             *)

\* updateRequestTripTypeOptions: a trip without return can only drop off, and
\* drop-off stays chosen when it is to return after all.
TripTypes(t, returns) ==
  [t EXCEPT !.type = IF returns THEN @ ELSE "HATID", !.free = returns]

\* toggleExpectedIn: with a return the time in is asked for, else it is emptied.
ToggledReturn(t, returns) ==
  [TripTypes(t, returns) EXCEPT !.returns = returns, !.asksTimeIn = returns,
                                !.timeIn = @ /\ returns]

\* form.reset() and toggleVehicleFields.  The select goes back to its first
\* option; the browser leaves disabled what was disabled.
ResetTrip(t) ==
  TripTypes([t EXCEPT !.needsVehicle = FALSE, !.returns = TRUE, !.timeIn = FALSE,
                      !.type = IF t.free THEN "BOTH" ELSE "HATID"], TRUE)

FirstTrip == [needsVehicle |-> FALSE, returns |-> TRUE, type |-> "BOTH", free |-> TRUE,
              asksTimeIn |-> TRUE, timeIn |-> FALSE]
-----------------------------------------------------------------------------
(* The material form.                                                       *)

\* renderMaterialProofSlots: photos beyond the last item are dropped.
WithItems(m, n) == [m EXCEPT !.items = n, !.photos = @ \cap 1 .. n]

\* initializeMaterialGatePassForm
Initialized(m) ==
  WithItems([m EXCEPT !.carrierKind = "employee", !.carrier = None, !.vehicle = FALSE,
                      !.photos = {}],
            IF m.items = 0 THEN 1 ELSE m.items)

\* form.reset() with the rows cleared, and the form as it is first shown.
ResetMaterial(m) == Initialized([m EXCEPT !.items = 0, !.signed = FALSE])

FirstMaterial == [carrierKind |-> "employee", carrier |-> None, items |-> 1, photos |-> {},
                  vehicle |-> FALSE, signed |-> FALSE, cleaning |-> FALSE]

\* The loop over the photos, from slot i on, as they are by now.
NextCall(s, i) ==
  LET left == {j \in i .. s.items : j \in material.photos}
  IN  IF left = {} THEN [s EXCEPT !.at = "post", !.slot = 0]
      ELSE [s EXCEPT !.at = "upload", !.slot = CHOOSE j \in left : \A k \in left : j <= k]
-----------------------------------------------------------------------------
FormsInit ==
  /\ shown = "person"
  /\ companions = [f \in Forms |-> NoRows]
  /\ directory = {} /\ adding = [f \in Forms |-> 0] /\ asked = {}
  /\ trip = FirstTrip /\ material = FirstMaterial
  /\ sending = [f \in Forms |-> NotSending]

SetCompanions(f, c) == companions' = [companions EXCEPT ![f] = c]

\* addAssociateRow; the first one of the page waits for the directory.
PressAdd(f) ==
  /\ shown = f
  /\ Len(companions[f].rows) < Limit
  /\ \/ /\ directory # {}
        /\ SetCompanions(f, Append1(f, companions[f]))
        /\ UNCHANGED adding
     \/ /\ directory = {} /\ adding[f] < MaxAdding
        /\ adding' = [adding EXCEPT ![f] = @ + 1]
        /\ UNCHANGED companions
  /\ UNCHANGED <<shown, directory, asked, trip, material, sending>>

\* The directory arrives, or fails to, and the row is added.
TakeDirectory(f) ==
  /\ adding[f] > 0
  /\ adding' = [adding EXCEPT ![f] = @ - 1]
  /\ directory' \in {FirstPage, {}}
  /\ SetCompanions(f, Append1(f, companions[f]))
  /\ UNCHANGED <<shown, asked, trip, material, sending>>

RemoveRow(f, i) ==
  /\ shown = f
  /\ SetCompanions(f, Removed(f, companions[f], i))
  /\ UNCHANGED <<shown, directory, adding, asked, trip, material, sending>>

ToggleKind(f, i) ==
  /\ shown = f
  /\ SetCompanions(f, Toggled(f, companions[f], i))
  /\ UNCHANGED <<shown, directory, adding, asked, trip, material, sending>>

\* A text is typed; for an employee the directory may be searched for it.
TypeText(f, i, text) ==
  /\ shown = f /\ text # companions[f].rows[i].text
  /\ SetCompanions(f, Typed(f, companions[f], i, text))
  /\ \/ UNCHANGED asked
     \/ /\ text \in Employees /\ companions[f].rows[i].kind = "employee"
        /\ Cardinality(asked) < MaxAsked
        /\ asked' = asked \cup {text}
  /\ UNCHANGED <<shown, directory, adding, trip, material, sending>>

\* searchAssociateEmployees: the directory grows, or the search fails.
TakeSearch(e) ==
  /\ e \in asked
  /\ asked' = asked \ {e}
  /\ directory' \in {directory, directory \cup {e}}
  /\ UNCHANGED <<shown, companions, adding, trip, material, sending>>

\* A suggestion is clicked, or Enter takes the first one.
PickSuggestion(f, i, e) ==
  /\ shown = f
  /\ companions[f].rows[i].kind = "employee" /\ companions[f].rows[i].pick = None
  /\ e \in Suggested(companions[f].rows[i])
  /\ SetCompanions(f, Selected(f, companions[f], i, e))
  /\ UNCHANGED <<shown, directory, adding, asked, trip, material, sending>>
-----------------------------------------------------------------------------
\* selectRequestFormType, from the page's two buttons and from applyPass.
SelectForm(f) ==
  /\ shown' = f
  /\ material' = IF f = "material" THEN [Initialized(material) EXCEPT !.signed = FALSE]
                                   ELSE [material EXCEPT !.signed = FALSE]
  /\ SetCompanions("person", IF f = "person" THEN Told("person", companions.person)
                                             ELSE companions.person)
  /\ UNCHANGED <<directory, adding, asked, trip, sending>>

\* The trip's radio buttons, tick box and lists; "Set Now" fills the time in
\* also when the field is disabled.
ChangeTrip ==
  /\ shown = "person"
  /\ \/ \E r \in BOOLEAN \ {trip.returns} : trip' = ToggledReturn(trip, r)
     \/ trip' = TripTypes([trip EXCEPT !.needsVehicle = ~@], trip.returns)
     \/ /\ trip.needsVehicle /\ trip.free
        /\ \E type \in {"BOTH", "HATID", "SUNDO"} : trip' = [trip EXCEPT !.type = type]
     \/ trip' = [trip EXCEPT !.timeIn = TRUE]
  /\ UNCHANGED <<shown, companions, directory, adding, asked, material, sending>>

SetMaterial(m) ==
  /\ shown = "material"
  /\ material' = m
  /\ UNCHANGED <<shown, companions, directory, adding, asked, trip, sending>>

\* Who carries the items: somebody else's text, or an employee picked; a text
\* typed over a pick clears it, and switching between the two clears both.
SwitchCarrier ==
  \E k \in {"employee", "other"} :
    SetMaterial([material EXCEPT !.carrierKind = k, !.carrier = None])

ChangeCarrier ==
  \E c \in IF material.carrierKind = "employee" THEN Employees \cup {None} ELSE {None, Words} :
    SetMaterial([material EXCEPT !.carrier = c])

\* addMaterialItemRow, removeMaterialItemRow
AddItem == material.items < MaxItems /\ SetMaterial(WithItems(material, material.items + 1))

RemoveItem == material.items > 1 /\ SetMaterial(WithItems(material, material.items - 1))

\* previewMaterialProof, clearMaterialProof
ChangePhoto ==
  \E i \in 1 .. material.items :
    SetMaterial([material EXCEPT !.photos = IF i \in @ THEN @ \ {i} ELSE @ \cup {i}])

ToggleVehicle == SetMaterial([material EXCEPT !.vehicle = ~@])

\* An image chosen for the signature is cleaned by the server, or read and
\* cleaned here, and attached when that is done.
PickSignature == SetMaterial([material EXCEPT !.cleaning = TRUE])

AttachSignature ==
  /\ material.cleaning
  /\ material' = [material EXCEPT !.signed = TRUE, !.cleaning = FALSE]
  /\ UNCHANGED <<shown, companions, directory, adding, asked, trip, sending>>

\* useMaterialPreparedDrawnSignature, clearPreparedSignature
DrawSignature == \E signed \in BOOLEAN : SetMaterial([material EXCEPT !.signed = signed])

ChangeMaterial ==
  \/ SwitchCarrier \/ ChangeCarrier
  \/ AddItem \/ RemoveItem \/ ChangePhoto \/ ToggleVehicle
  \/ PickSignature \/ AttachSignature \/ DrawSignature

\* renderVisibleSection at the end of a refresh begun with the material form
\* shown; it has waited for the directory, and the other one may be shown by now.
RefreshMaterial ==
  /\ material' = Initialized(material)
  /\ UNCHANGED <<shown, companions, directory, adding, asked, trip, sending>>

\* resetRequestForms: somebody else signs in.  A submission goes on.
SignInAgain ==
  /\ companions' = [f \in Forms |-> NoRows]
  /\ trip' = ResetTrip(trip)
  /\ material' = ResetMaterial(material)
  /\ UNCHANGED <<shown, directory, adding, asked, sending>>
-----------------------------------------------------------------------------
(* Submissions.                                                             *)

SetSending(f, s) == sending' = [sending EXCEPT ![f] = s]

\* submitGatePass.  The browser wants the time in as long as it is asked for.
\* A confirmed list has somebody to go out, so its last check never refuses.
SubmitPerson ==
  /\ shown = "person" /\ sending.person.at = "no"
  /\ trip.asksTimeIn => trip.timeIn
  /\ LET confirmed == Confirmed("person", companions.person) IN
     /\ SetCompanions("person", confirmed.c)
     /\ IF confirmed.ok THEN SetSending("person", [NotSending EXCEPT !.at = "post"])
                        ELSE UNCHANGED sending
  /\ UNCHANGED <<shown, directory, adding, asked, trip, material>>

\* submitMaterialGatePass up to the signature's upload.
SubmitMaterial ==
  /\ shown = "material" /\ sending.material.at = "no"
  /\ material.carrier # None
  /\ LET confirmed == Confirmed("material", companions.material)
         start == [at |-> "upload", slot |-> 0, items |-> material.items]
     IN
     /\ SetCompanions("material", confirmed.c)
     /\ IF confirmed.ok /\ material.photos # {}
        THEN SetSending("material", IF material.signed THEN start ELSE NextCall(start, 1))
        ELSE UNCHANGED sending
  /\ UNCHANGED <<shown, directory, adding, asked, trip, material>>

\* The signature or a photo has been stored: the next photo, or the request.
TakeUpload ==
  /\ sending.material.at = "upload"
  /\ SetSending("material", NextCall(sending.material, sending.material.slot + 1))
  /\ UNCHANGED <<shown, companions, directory, adding, asked, trip, material>>

\* A call fails: its message, and the button is back.
FailSending(f) ==
  /\ sending[f].at \in {"upload", "post"}
  /\ SetSending(f, NotSending)
  /\ UNCHANGED <<shown, companions, directory, adding, asked, trip, material>>

\* The request is filed: the form is emptied, whatever has been typed since.
\* The server wants a time in for a pass that returns.
TakeFiled(f) ==
  /\ sending[f].at = "post"
  /\ SetSending(f, [NotSending EXCEPT !.at = "leaving"])
  /\ SetCompanions(f, NoRows)
  /\ IF f = "person" THEN trip' = ResetTrip(trip) /\ UNCHANGED material
                     ELSE material' = ResetMaterial(material) /\ UNCHANGED trip
  /\ UNCHANGED <<shown, directory, adding, asked>>

\* The refresh and the dashboard are through.
LeaveForm(f) ==
  /\ sending[f].at = "leaving"
  /\ SetSending(f, NotSending)
  /\ UNCHANGED <<shown, companions, directory, adding, asked, trip, material>>
-----------------------------------------------------------------------------
RowsNext(f) ==
  \/ PressAdd(f) \/ TakeDirectory(f)
  \/ \E i \in DOMAIN companions[f].rows :
       \/ RemoveRow(f, i) \/ ToggleKind(f, i)
       \/ \E text \in Texts : TypeText(f, i, text)
       \/ \E e \in Employees : PickSuggestion(f, i, e)

FormsNext ==
  \/ \E f \in Forms : RowsNext(f) \/ SelectForm(f) \/ FailSending(f) \/ TakeFiled(f) \/ LeaveForm(f)
  \/ \E e \in Employees : TakeSearch(e)
  \/ ChangeTrip \/ ChangeMaterial \/ RefreshMaterial \/ SignInAgain
  \/ SubmitPerson \/ SubmitMaterial \/ TakeUpload

FormsSpec == FormsInit /\ [][FormsNext]_formsVars
-----------------------------------------------------------------------------
FormsTypeOK ==
  /\ shown \in Forms
  /\ \A f \in Forms : /\ companions[f].rows \in Seq(Rows)
                      /\ companions[f].notice \in {"hidden", "you too", "others only"}
                      /\ adding[f] \in 0 .. MaxAdding
  /\ directory \subseteq Employees /\ asked \subseteq Employees
  /\ trip \in [needsVehicle : BOOLEAN, returns : BOOLEAN, type : {"BOTH", "HATID", "SUNDO"},
               free : BOOLEAN, asksTimeIn : BOOLEAN, timeIn : BOOLEAN]
  /\ material \in [carrierKind : {"employee", "other"},
                   carrier : Employees \cup {None, Words}, items : 1 .. MaxItems,
                   photos : SUBSET (1 .. MaxItems), vehicle : BOOLEAN,
                   signed : BOOLEAN, cleaning : BOOLEAN]

\* collectAssociates sends what the rows remember, and the user sees what they
\* show: an employee picked for a row is the one its text names, on no other
\* row, and never the preparer of a material pass, in whatever order rows were
\* typed over, refused, switched, confirmed by a submission and removed.
CompanionsAsShown ==
  \A f \in Forms :
    LET rows == companions[f].rows IN
    \A i \in DOMAIN rows :
      rows[i].pick # None =>
        /\ rows[i].text = rows[i].pick /\ rows[i].kind = "employee"
        /\ f = "material" => rows[i].pick # Me
        /\ \A j \in DOMAIN rows \ {i} : rows[j].pick # rows[i].pick

\* "This pass covers you and the companions listed above": the notice says what
\* isRequestorIncluded will say when the form is sent, though selectAssociate
\* and a confirmation that clear a text do not update it.
NoticeTellsWhoGoes == companions["person"].notice = Scope(companions["person"].rows)

\* "toggleExpectedIn(show) disables expected-in when the user selects one-way
\* pass": it is not disabled under "Yes, I will return".
TimeInAskedOnReturn == trip.returns => trip.asksTimeIn
=============================================================================
