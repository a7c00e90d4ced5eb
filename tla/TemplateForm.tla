---------------------------- MODULE TemplateForm ----------------------------
(***************************************************************************)
(* The form in which a user makes an event from an event template: the     *)
(* fields, the files that are being read, the dialogs in which tags and    *)
(* galaxy clusters are picked, the button that sends the form, and the     *)
(* requests at the server.                                                 *)
(*                                                                         *)
(* The text of a field counts as far as it has any.  The line of a tag or  *)
(* galaxy field is the set of its labels; Comma stands for text in it that *)
(* names none.  Object and report fields are filled like attribute fields  *)
(* and have no actions of their own.                                       *)
(*                                                                         *)
(* Sources: app/webroot/js/event-templates/user_form.js,                   *)
(* app/View/Elements/eventTemplates/userForm/,                             *)
(* app/Controller/EventTemplatesController.php,                            *)
(* app/Lib/Tools/EventTemplateInstantiator.php.                            *)
(***************************************************************************)
EXTENDS Integers, FiniteSets, SequencesExt

CONSTANTS
    Attr,       \* attribute, object and report fields, filled in rows
    Tag,        \* tag fields
    Galaxy,     \* galaxy fields that are restricted to some types, so that they have a dialog
    FileField,  \* file fields
    Template,   \* the templates: sets of fields
    Mandatory,  \* the fields that must be filled
    Several,    \* the fields that take more than one row, label or file
    Fits,       \* the labels that the restriction of a tag or galaxy field allows
    Comma,      \* text in a line that is no label
    Typed,      \* what is typed into a line
    File,       \* the files of the user
    None,
    MaxRows,    \* bound on the rows of a field
    MaxPicks,   \* bound on how often files are picked for a field
    MaxActs     \* bound on what the user does

Line  == Tag \cup Galaxy
Field == Attr \cup Line \cup FileField
Label == UNION {Fits[f] : f \in Line}

ASSUME FieldAssumption ==
    /\ Template \subseteq SUBSET Field /\ Template # {}
    /\ Mandatory \subseteq Field /\ Several \subseteq Field
    /\ Typed \subseteq Label \cup {Comma} /\ Comma \notin Label
    /\ None \notin File /\ None \notin [field : Line, checked : SUBSET Label]
    /\ Attr \cap Line = {} /\ Tag \cap Galaxy = {} /\ FileField \cap (Attr \cup Line) = {}
    /\ MaxRows \in Nat \ {0} /\ MaxPicks \in Nat /\ MaxActs \in Nat

VARIABLES
    template,   \* the template the form was made from
    rows,       \* the rows of each attribute field: whether there is text in them
    line,       \* the line of each tag or galaxy field
    staging,    \* fileStaging: the files shown for a field, each with the data read for it
    readers,    \* the FileReaders at work, with the place in the list they were made for
    picks,      \* how often files were picked for a field
    alone,      \* history: nothing was being read for the field when its files were picked
    shown,      \* the dialog that covers the form, if any
    tagPick,    \* tagPickerCtx: the field, and what is checked from its line
    tagCache,   \* tagCache and tagCacheLoading: "none", "loading" or "loaded"
    tagBox,     \* the boxes of the tag dialog: label -> checked
    galaxyPick, \* galaxyPickerCtx: the field and preChecked
    galaxyBox,  \* the boxes of the galaxy dialog
    searches,   \* the searches under way, by the field they were made for
    drawn,      \* history: the boxes were drawn since the galaxy dialog was opened
    button,     \* the button is enabled
    submitting,
    left,       \* the page went on to the event
    sent,       \* the requests sent
    atServer,   \* the requests the server has not worked on: id, fields with a value
    answer,     \* what comes back for the last request
    created,    \* the requests an event was made for
    unsure,     \* history: the failures that were told without a reason of the server
    acts

form   == <<template, rows, line>>
files  == <<staging, readers, picks, alone>>
tags   == <<tagPick, tagCache, tagBox>>
galaxy == <<galaxyPick, galaxyBox, searches, drawn>>
post   == <<submitting, left, sent, atServer, answer, created, unsure>>
vars   == <<form, files, shown, tags, galaxy, button, post, acts>>

NoBox == [l \in {} |-> FALSE]

Init ==
    /\ template \in Template
    /\ rows = [f \in Attr |-> <<FALSE>>] /\ line = [f \in Line |-> {}]
    /\ staging = [f \in FileField |-> << >>] /\ readers = {}
    /\ picks = [f \in FileField |-> 0] /\ alone = [f \in FileField |-> TRUE]
    /\ shown = "form"
    /\ tagPick = None /\ tagCache = "none" /\ tagBox = NoBox
    /\ galaxyPick = None /\ galaxyBox = NoBox
    /\ searches = [f \in Galaxy |-> 0] /\ drawn = FALSE
    /\ button = (Mandatory \cap template = {})
    /\ submitting = FALSE /\ left = FALSE /\ sent = 0 /\ atServer = {} /\ answer = "none"
    /\ created = {} /\ unsure = 0
    /\ acts = 0

\* What the user does: on the form, or in the dialog that covers it.
Act(where) == ~left /\ shown = where /\ acts < MaxActs /\ acts' = acts + 1

-----------------------------------------------------------------------------
\* What is filled, for the button and for the server.

HasText(f) == \E i \in DOMAIN rows[f] : rows[f][i]
HasData(f) == \E i \in DOMAIN staging[f] : staging[f][i].data # None

Required == Mandatory \cap template

\* validateMandatory finds nothing missing.
Complete ==
    /\ \A f \in Required \cap Attr : HasText(f)
    /\ \A f \in Required \cap Line : line[f] # {}
    /\ \A f \in Required \cap FileField : HasData(f)

\* The fields for which collectValues has a value.
Collected == {f \in Attr : HasText(f)} \cup {f \in Line : line[f] \ {Comma} # {}}
                \cup {f \in FileField : HasData(f)}

\* updateSubmitEnabled
Refresh == button' = Complete'

-----------------------------------------------------------------------------
\* The fields.

Write(f, i, text) ==
    /\ Act("form") /\ rows' = [rows EXCEPT ![f][i] = text]
    /\ UNCHANGED <<template, line, files, shown, tags, galaxy, post>>
    /\ Refresh

WriteLine(f, labels) ==
    /\ Act("form") /\ line' = [line EXCEPT ![f] = labels]
    /\ UNCHANGED <<template, rows, files, shown, tags, galaxy, post>>
    /\ Refresh

AddEntry(f) ==
    /\ Act("form") /\ f \in Several /\ Len(rows[f]) < MaxRows
    /\ rows' = [rows EXCEPT ![f] = Append(@, FALSE)]
    /\ UNCHANGED <<template, line, files, shown, tags, galaxy, button, post>>

\* The last row has no button to remove it.
RemoveEntry(f, i) ==
    /\ Act("form") /\ Len(rows[f]) > 1
    /\ rows' = [rows EXCEPT ![f] = RemoveAt(@, i)]
    /\ UNCHANGED <<template, line, files, shown, tags, galaxy, button, post>>

Staged(f, picked) == [i \in DOMAIN picked |-> [file |-> picked[i], data |-> None]]

\* Files are chosen, or none: the list starts again, and each file is read by itself.
PickFiles(f, picked) ==
    /\ Act("form") /\ picks[f] < MaxPicks
    /\ staging' = [staging EXCEPT ![f] = Staged(f, picked)]
    /\ readers' = readers \cup
          {[field |-> f, turn |-> picks[f] + 1, at |-> i, file |-> picked[i]]
             : i \in DOMAIN picked}
    /\ picks' = [picks EXCEPT ![f] = @ + 1]
    /\ alone' = [alone EXCEPT ![f] = \A r \in readers : r.field # f]
    /\ UNCHANGED <<form, shown, tags, galaxy, post>>
    /\ Refresh

\* Fault: the reader writes into the place after its own.
OnloadNext(r, data) ==
    /\ readers' = readers \ {r}
    /\ staging' = IF r.at + 1 \in DOMAIN staging[r.field]
                  THEN [staging EXCEPT ![r.field][r.at + 1].data = data]
                  ELSE staging
    /\ UNCHANGED <<form, picks, alone, shown, tags, galaxy, post, acts>>
    /\ Refresh

\* A file is read; data is None if it is empty.  What is written to is the list as it is now,
\* at the place the file had in the list it was picked in.
Onload(r, data) ==
    /\ readers' = readers \ {r}
    /\ staging' = IF r.at \in DOMAIN staging[r.field]
                  THEN [staging EXCEPT ![r.field][r.at].data = data]
                  ELSE staging
    /\ UNCHANGED <<form, picks, alone, shown, tags, galaxy, post, acts>>
    /\ Refresh

Onerror(r) ==
    /\ readers' = readers \ {r}
    /\ UNCHANGED <<form, staging, picks, alone, shown, tags, galaxy, button, post, acts>>

-----------------------------------------------------------------------------
\* The dialogs.

Picked(box) == {l \in DOMAIN box : box[l]}

\* What a field may be given of what was picked: one of them if it takes only one.
Given(f, picked) ==
    IF f \in Several \/ Cardinality(picked) <= 1 THEN {picked} ELSE {{l} : l \in picked}

\* A dialog is closed without applying it; its context stays.
Close ==
    /\ ~left /\ shown # "form" /\ shown' = "form"
    /\ UNCHANGED <<form, files, tags, galaxy, button, post, acts>>

Offered(pick) == [l \in Fits[pick.field] |-> l \in pick.checked]

\* The tags are asked for once; who opens the dialog meanwhile waits for the same answer.
OpenTagPicker(f) ==
    /\ Act("form") /\ shown' = "tags"
    /\ tagPick' = [field |-> f, checked |-> line[f] \ {Comma}]
    /\ tagCache' = IF tagCache = "none" THEN "loading" ELSE tagCache
    /\ tagBox' = CASE tagCache = "loaded" -> Offered(tagPick')
                   [] tagCache = "loading" -> tagBox
                   [] tagCache = "none" -> NoBox
    /\ UNCHANGED <<form, files, galaxy, button, post>>

TagsArrive ==
    /\ ~left /\ tagCache = "loading" /\ tagCache' = "loaded"
    /\ tagBox' = IF tagPick = None THEN tagBox ELSE Offered(tagPick)
    /\ UNCHANGED <<form, files, shown, tagPick, galaxy, button, post, acts>>

TagsFail ==
    /\ ~left /\ tagCache = "loading" /\ tagCache' = "none"
    /\ UNCHANGED <<form, files, shown, tagPick, tagBox, galaxy, button, post, acts>>

TickTag(l) ==
    /\ Act("tags") /\ tagBox' = [tagBox EXCEPT ![l] = ~@]
    /\ UNCHANGED <<form, files, shown, tagPick, tagCache, galaxy, button, post>>

\* Fault: the dialog stays.
ApplyTagPickerOpen ==
    /\ Act("tags") /\ tagPick' = None
    /\ \E labels \in Given(tagPick.field, Picked(tagBox)) :
          line' = [line EXCEPT ![tagPick.field] = labels]
    /\ UNCHANGED <<template, rows, files, shown, tagCache, tagBox, galaxy, post>>
    /\ Refresh

\* The line becomes what is checked in the list, however much of the list there is.
ApplyTagPicker ==
    /\ Act("tags") /\ shown' = "form" /\ tagPick' = None
    /\ \E labels \in Given(tagPick.field, Picked(tagBox)) :
          line' = [line EXCEPT ![tagPick.field] = labels]
    /\ UNCHANGED <<template, rows, files, tagCache, tagBox, galaxy, post>>
    /\ Refresh

OpenGalaxyPicker(f) ==
    /\ Act("form") /\ shown' = "galaxy"
    /\ galaxyPick' = [field |-> f, checked |-> line[f] \ {Comma}]
    /\ searches' = [searches EXCEPT ![f] = @ + 1]
    /\ drawn' = FALSE
    /\ UNCHANGED <<form, files, tags, galaxyBox, button, post>>

\* The pause after a key in the search line is over; the key may have been pressed for another
\* field.
RunGalaxyPickerSearch ==
    /\ Act("galaxy")
    /\ searches' = [searches EXCEPT ![galaxyPick.field] = @ + 1]
    /\ UNCHANGED <<form, files, shown, tags, galaxyPick, galaxyBox, drawn, button, post>>

\* Fault: what was checked since the dialog was opened is forgotten.
RenderFromLine(found) ==
    /\ galaxyBox' = IF galaxyPick = None THEN galaxyBox
                    ELSE [l \in found |-> l \in line[galaxyPick.field]]
    /\ drawn' = (drawn \/ galaxyPick # None)

\* Searches are answered in any order, under whatever dialog there is by then.
RenderGalaxyPickerList(found) ==
    /\ galaxyBox' = IF galaxyPick = None THEN galaxyBox
                    ELSE [l \in found |-> l \in galaxyPick.checked]
    /\ drawn' = (drawn \/ galaxyPick # None)

SearchAnswered(f, found) ==
    /\ ~left /\ searches[f] > 0 /\ searches' = [searches EXCEPT ![f] = @ - 1]
    /\ RenderGalaxyPickerList(found)
    /\ UNCHANGED <<form, files, shown, tags, galaxyPick, button, post, acts>>

TickCluster(l) ==
    /\ Act("galaxy") /\ galaxyBox' = [galaxyBox EXCEPT ![l] = ~@]
    /\ galaxyPick' = [galaxyPick EXCEPT !.checked =
                        IF galaxyBox[l] THEN @ \ {l} ELSE @ \cup {l}]
    /\ UNCHANGED <<form, files, shown, tags, searches, drawn, button, post>>

\* Fault: no input event is sent to the field.
ApplyQuietly ==
    /\ Act("galaxy") /\ shown' = "form" /\ galaxyPick' = None
    /\ \E labels \in Given(galaxyPick.field, galaxyPick.checked) :
          line' = [line EXCEPT ![galaxyPick.field] = labels]
    /\ UNCHANGED <<template, rows, files, tags, galaxyBox, searches, drawn, button, post>>

\* The line becomes what was checked, in this search or an earlier one.
ApplyGalaxyPicker ==
    /\ Act("galaxy") /\ shown' = "form" /\ galaxyPick' = None
    /\ \E labels \in Given(galaxyPick.field, galaxyPick.checked) :
          line' = [line EXCEPT ![galaxyPick.field] = labels]
    /\ UNCHANGED <<template, rows, files, tags, galaxyBox, searches, drawn, post>>
    /\ Refresh

-----------------------------------------------------------------------------
\* Sending the form.

Send ==
    /\ submitting' = TRUE /\ button' = FALSE /\ answer' = "none"
    /\ sent' = sent + 1
    /\ atServer' = atServer \cup {[id |-> sent + 1, has |-> Collected]}

\* Fault: a form that is being sent is sent again.
SubmitAgain ==
    /\ Act("form") /\ button /\ Complete /\ Send
    /\ UNCHANGED <<form, files, shown, tags, galaxy, left, created, unsure>>

\* The button may have been enabled again since, by any input; while a form is being sent it
\* does nothing, and where a field is missing it only says so.
Submit ==
    /\ Act("form") /\ button /\ ~submitting /\ Complete /\ Send
    /\ UNCHANGED <<form, files, shown, tags, galaxy, left, created, unsure>>

Awaited(r) == submitting /\ ~left /\ r.id = sent

\* The event is made in one transaction; what follows it may fail when the event is there.
Create(r) ==
    /\ Required \subseteq r.has
    /\ atServer' = atServer \ {r} /\ created' = created \cup {r.id}
    /\ IF Awaited(r) THEN answer' \in {"created", "failed"} ELSE UNCHANGED answer
    /\ UNCHANGED <<form, files, shown, tags, galaxy, button, submitting, left, sent, unsure, acts>>

\* A field is missing or wrong, or attributes are dropped: the transaction is taken back.
Refuse(r) ==
    /\ atServer' = atServer \ {r}
    /\ answer' = IF Awaited(r) THEN "refused" ELSE answer
    /\ UNCHANGED <<form, files, shown, tags, galaxy, button, submitting, left, sent, created,
                   unsure, acts>>

Created ==
    /\ ~left /\ submitting /\ answer = "created" /\ left' = TRUE
    /\ UNCHANGED <<form, files, shown, tags, galaxy, button, submitting, sent, atServer, answer,
                   created, unsure, acts>>

Enable == submitting' = FALSE /\ answer' = "none"

Refused ==
    /\ ~left /\ submitting /\ answer = "refused" /\ Enable
    /\ UNCHANGED <<form, files, shown, tags, galaxy, left, sent, atServer, created, unsure, acts>>
    /\ Refresh

\* An answer that is no answer of the form's action, or the connection is lost at any time, the
\* request being worked on later, already or never.
Failed ==
    /\ ~left /\ submitting /\ Enable /\ unsure' = unsure + 1
    /\ atServer' \in {atServer, {r \in atServer : r.id # sent}}
    /\ UNCHANGED <<form, files, shown, tags, galaxy, left, sent, created, acts>>
    /\ Refresh

-----------------------------------------------------------------------------
Next ==
    \/ \E f \in Attr \cap template : \E i \in DOMAIN rows[f] :
          \/ Write(f, i, ~rows[f][i])
          \/ RemoveEntry(f, i)
    \/ \E f \in Attr \cap template : AddEntry(f)
    \/ \E f \in Line \cap template : \E labels \in {{}} \cup {{l} : l \in Typed} : WriteLine(f, labels)
    \/ \E f \in FileField \cap template :
          \/ PickFiles(f, << >>)
          \/ \E a \in File : PickFiles(f, <<a>>)
          \/ \E a, b \in File : f \in Several /\ a # b /\ PickFiles(f, <<a, b>>)
    \/ ~left /\ \E r \in readers : Onload(r, r.file) \/ Onload(r, None) \/ Onerror(r)
    \/ \E f \in Tag \cap template : OpenTagPicker(f)
    \/ TagsArrive \/ TagsFail \/ ApplyTagPicker \/ Close
    \/ \E l \in DOMAIN tagBox : TickTag(l)
    \/ \E f \in Galaxy \cap template : \/ OpenGalaxyPicker(f)
                         \/ \E found \in SUBSET Fits[f] : SearchAnswered(f, found)
    \/ RunGalaxyPickerSearch \/ ApplyGalaxyPicker
    \/ \E l \in DOMAIN galaxyBox : TickCluster(l)
    \/ Submit \/ Created \/ Refused \/ Failed
    \/ \E r \in atServer : Create(r) \/ Refuse(r)

Spec == Init /\ [][Next]_vars

-----------------------------------------------------------------------------
\* Properties.

Pick(fs) == {None} \cup [field : fs, checked : SUBSET Label]
Box(box) == DOMAIN box \subseteq Label /\ box \in [DOMAIN box -> BOOLEAN]

FieldsOK == template \in Template /\ rows \in [Attr -> Seq(BOOLEAN)]
            /\ line \in [Line -> SUBSET (Label \cup {Comma})]

FilesOK == /\ staging \in [FileField -> Seq([file : File, data : File \cup {None}])]
           /\ readers \subseteq [field : FileField, turn : Nat, at : Nat, file : File]
           /\ picks \in [FileField -> Nat] /\ alone \in [FileField -> BOOLEAN]

TagsOK == /\ tagCache \in {"none", "loading", "loaded"} /\ tagPick \in Pick(Tag) /\ Box(tagBox)
          /\ shown = "tags" => tagPick # None

GalaxyOK == /\ galaxyPick \in Pick(Galaxy) /\ Box(galaxyBox)
            /\ searches \in [Galaxy -> Nat] /\ drawn \in BOOLEAN
            /\ shown = "galaxy" => galaxyPick # None

PostOK == /\ submitting \in BOOLEAN /\ left \in BOOLEAN /\ sent \in Nat /\ unsure \in Nat
          /\ atServer \subseteq [id : 1..sent, has : SUBSET Field] /\ created \subseteq 1..sent
          /\ answer \in {"none", "created", "refused", "failed"}

\* Every variable holds values of its kind.
FormTypeOK == /\ FieldsOK /\ FilesOK /\ TagsOK /\ GalaxyOK /\ PostOK
              /\ shown \in {"form", "tags", "galaxy"} /\ button \in BOOLEAN /\ acts \in 0..MaxActs

\* A form whose mandatory fields are filled can be sent, whatever was typed, removed, picked in a
\* dialog or read late, and after every answer: the button is not left disabled.
NeverLockedOut == Complete /\ ~submitting => button

\* However often the button is pressed, also where typing enables it while the form is being
\* sent, there is no second event unless the user was told of a failure of the connection or
\* of the server in between.
NoSecondEvent == Cardinality(created) <= unsure + (IF submitting THEN 1 ELSE 0)

\* The data that is sent for a file is that file's, whatever order the files are read in, unless
\* files picked before for the field were still being read when it was picked.
FilesOwn ==
    \A f \in FileField : alone[f] =>
        \A i \in DOMAIN staging[f] : staging[f][i].data \in {None, staging[f][i].file}

\* What the dialogs show is what they will write: the tags offered are those the field allows,
\* whoever the list was loaded for; a cluster drawn since the dialog was opened is checked
\* exactly if it is chosen, whichever searches were answered since.
PickersTell ==
    /\ shown = "tags" => DOMAIN tagBox \subseteq Fits[tagPick.field]
    /\ shown = "galaxy" /\ drawn => Picked(galaxyBox) = DOMAIN galaxyBox \cap galaxyPick.checked

=============================================================================
