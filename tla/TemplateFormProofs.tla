------------------------- MODULE TemplateFormProofs -------------------------
(* The type invariant and the safety properties of TemplateForm, for every   *)
(* set of templates, fields, labels and files.                               *)
EXTENDS TemplateForm, FiniteSetTheorems, TLAPS

USE FieldAssumption

-----------------------------------------------------------------------------
\* What each step leaves alone.

FieldStep == \/ \E f \in Attr : \E i \in DOMAIN rows[f] : Write(f, i, ~rows[f][i]) \/ RemoveEntry(f, i)
             \/ \E f \in Attr : AddEntry(f)
             \/ \E f \in Line : \E labels \in {{}} \cup {{l} : l \in Typed} : WriteLine(f, labels)
             \/ ApplyTagPicker \/ ApplyGalaxyPicker

FileStep == \/ \E f \in FileField, picked \in Seq(File) : PickFiles(f, picked)
            \/ \E r \in readers : Onload(r, r.file) \/ Onload(r, None) \/ Onerror(r)

TagStep == \/ \E f \in Tag : OpenTagPicker(f)
           \/ TagsArrive \/ TagsFail \/ ApplyTagPicker
           \/ \E l \in DOMAIN tagBox : TickTag(l)

GalaxyStep == \/ \E f \in Galaxy : \/ OpenGalaxyPicker(f)
                                   \/ \E found \in SUBSET Fits[f] : SearchAnswered(f, found)
              \/ RunGalaxyPickerSearch \/ ApplyGalaxyPicker
              \/ \E l \in DOMAIN galaxyBox : TickCluster(l)

PostStep == \/ Submit \/ Created \/ Refused \/ Failed
            \/ \E r \in atServer : Create(r) \/ Refuse(r)

LEMMA NextIs == Next => FieldStep \/ FileStep \/ TagStep \/ GalaxyStep \/ PostStep \/ Close
<1> SUFFICES ASSUME Next PROVE FieldStep \/ FileStep \/ TagStep \/ GalaxyStep \/ PostStep \/ Close
  OBVIOUS
<1>1. ASSUME NEW f \in FileField \cap template,
             \/ PickFiles(f, << >>)
             \/ \E a \in File : PickFiles(f, <<a>>)
             \/ \E a, b \in File : f \in Several /\ a # b /\ PickFiles(f, <<a, b>>)
      PROVE  FileStep
  <2>1. << >> \in Seq(File)  OBVIOUS
  <2>2. \A a, b \in File : <<a>> \in Seq(File) /\ <<a, b>> \in Seq(File)  OBVIOUS
  <2> QED  BY <1>1, <2>1, <2>2 DEF FileStep
<1>2. ASSUME ~left, \E r \in readers : Onload(r, r.file) \/ Onload(r, None) \/ Onerror(r)
      PROVE  FileStep
  BY <1>2 DEF FileStep
<1> QED  BY <1>1, <1>2 DEF Next, FieldStep, TagStep, GalaxyStep, PostStep

LEMMA FieldFrame == FieldStep => UNCHANGED <<template, files, post>>
  BY DEF FieldStep, Write, RemoveEntry, AddEntry, WriteLine, ApplyTagPicker, ApplyGalaxyPicker,
         files, post

LEMMA FileFrame == FileStep => UNCHANGED <<form, shown, tags, galaxy, post>>
  BY DEF FileStep, PickFiles, Onload, Onerror

LEMMA TagFrame == TagStep => UNCHANGED <<template, rows, files, galaxy, post>>
  BY DEF TagStep, OpenTagPicker, TagsArrive, TagsFail, ApplyTagPicker, TickTag, form

LEMMA GalaxyFrame == GalaxyStep => UNCHANGED <<template, rows, files, tags, post>>
  BY DEF GalaxyStep, OpenGalaxyPicker, SearchAnswered, RunGalaxyPickerSearch, ApplyGalaxyPicker,
         TickCluster, form

LEMMA PostFrame == PostStep => UNCHANGED <<form, files, shown, tags, galaxy>>
  BY DEF PostStep, Submit, Created, Refused, Failed, Create, Refuse
-----------------------------------------------------------------------------
\* Types.

LEMMA RefreshTyped == Refresh => button' \in BOOLEAN
  BY DEF Refresh, Complete

LEMMA GivenTyped ==
    ASSUME NEW f, NEW picked \in SUBSET Label, NEW labels \in Given(f, picked)
    PROVE  labels \in SUBSET (Label \cup {Comma})
  BY DEF Given

LEMMA LineLabels ==
    ASSUME FieldsOK, NEW f \in Line PROVE line[f] \ {Comma} \in SUBSET Label
  BY DEF FieldsOK

LEMMA FitsLabels == ASSUME NEW f \in Line PROVE Fits[f] \subseteq Label
  BY DEF Label

LEMMA PickedTyped == ASSUME NEW box, Box(box) PROVE Picked(box) \in SUBSET Label
  BY DEF Box, Picked

LEMMA PickTyped ==
    ASSUME NEW fs \in SUBSET Line, NEW f \in fs, NEW checked \in SUBSET Label
    PROVE  /\ [field |-> f, checked |-> checked] \in Pick(fs)
           /\ [field |-> f, checked |-> checked] # None
  BY DEF Pick

LEMMA OfferedTyped ==
    ASSUME NEW pick \in Pick(Tag), pick # None PROVE Box(Offered(pick))
<1>1. pick.field \in Line  BY DEF Pick, Line
<1> QED  BY <1>1, FitsLabels DEF Box, Offered

LEMMA FieldsTyped == ASSUME FormTypeOK, Next PROVE FieldsOK'
<1> USE DEF FormTypeOK, FieldsOK
<1>1. ASSUME NEW f \in Attr, NEW i \in DOMAIN rows[f], Write(f, i, ~rows[f][i]) PROVE FieldsOK'
  <2>1. rows[f] \in Seq(BOOLEAN)  OBVIOUS
  <2>2. [rows[f] EXCEPT ![i] = ~rows[f][i]] \in Seq(BOOLEAN)  BY <2>1
  <2> QED  BY <1>1, <2>2 DEF Write
<1>2. ASSUME NEW f \in Attr, NEW i \in DOMAIN rows[f], RemoveEntry(f, i) PROVE FieldsOK'
  <2>1. RemoveAt(rows[f], i) \in Seq(BOOLEAN)  BY DEF RemoveAt
  <2> QED  BY <1>2, <2>1 DEF RemoveEntry
<1>3. ASSUME NEW f \in Attr, AddEntry(f) PROVE FieldsOK'
  <2>1. Append(rows[f], FALSE) \in Seq(BOOLEAN)  OBVIOUS
  <2> QED  BY <1>3, <2>1 DEF AddEntry
<1>4. ASSUME NEW f \in Line, NEW labels \in {{}} \cup {{l} : l \in Typed}, WriteLine(f, labels)
      PROVE  FieldsOK'
  BY <1>4 DEF WriteLine
<1>5. CASE ApplyTagPicker
  <2>1. PICK labels \in Given(tagPick.field, Picked(tagBox)) :
           line' = [line EXCEPT ![tagPick.field] = labels]
    BY <1>5 DEF ApplyTagPicker
  <2>2. labels \in SUBSET (Label \cup {Comma})  BY GivenTyped, PickedTyped DEF TagsOK
  <2> QED  BY <1>5, <2>1, <2>2 DEF ApplyTagPicker
<1>6. CASE ApplyGalaxyPicker
  <2>1. PICK labels \in Given(galaxyPick.field, galaxyPick.checked) :
           line' = [line EXCEPT ![galaxyPick.field] = labels]
    BY <1>6 DEF ApplyGalaxyPicker
  <2>2. galaxyPick # None  BY <1>6 DEF ApplyGalaxyPicker, Act, GalaxyOK
  <2>3. labels \in SUBSET (Label \cup {Comma})  BY <2>2, GivenTyped DEF GalaxyOK, Pick
  <2> QED  BY <1>6, <2>1, <2>3 DEF ApplyGalaxyPicker
<1>7. FieldStep => FieldsOK'  BY <1>1, <1>2, <1>3, <1>4, <1>5, <1>6 DEF FieldStep
<1>8. TagStep /\ ~ApplyTagPicker => UNCHANGED form
  BY DEF TagStep, OpenTagPicker, TagsArrive, TagsFail, TickTag
<1>9. GalaxyStep /\ ~ApplyGalaxyPicker => UNCHANGED form
  BY DEF GalaxyStep, OpenGalaxyPicker, SearchAnswered, RunGalaxyPickerSearch, TickCluster
<1>10. UNCHANGED form => FieldsOK'  BY DEF form
<1> QED  BY <1>5, <1>6, <1>7, <1>8, <1>9, <1>10, NextIs, FileFrame, PostFrame DEF Close

LEMMA StagedTyped ==
    ASSUME NEW f, NEW picked \in Seq(File)
    PROVE  Staged(f, picked) \in Seq([file : File, data : File \cup {None}])
<1> DEFINE n == Len(picked)
           entry == [file : File, data : File \cup {None}]
<1>1. n \in Nat /\ DOMAIN picked = 1..n  OBVIOUS
<1>2. \A i \in 1..n : [file |-> picked[i], data |-> None] \in entry  BY <1>1
<1> HIDE DEF n, entry
<1>3. [i \in 1..n |-> [file |-> picked[i], data |-> None]] \in Seq(entry)  BY <1>1, <1>2
<1> QED  BY <1>1, <1>3 DEF Staged, entry

LEMMA SequencePut ==
    ASSUME NEW S, NEW s \in Seq(S), NEW i \in DOMAIN s
    PROVE  s[i] \in S /\ \A x \in S : [s EXCEPT ![i] = x] \in Seq(S)
  OBVIOUS

LEMMA FilesTyped == ASSUME FormTypeOK, Next PROVE FilesOK'
<1> USE DEF FormTypeOK, FilesOK
<1>1. ASSUME NEW f \in FileField, NEW picked \in Seq(File), PickFiles(f, picked) PROVE FilesOK'
  <2>1. Staged(f, picked) \in Seq([file : File, data : File \cup {None}])  BY StagedTyped
  <2>2. readers' \subseteq [field : FileField, turn : Nat, at : Nat, file : File]
    BY <1>1 DEF PickFiles
  <2>3. staging' \in [FileField -> Seq([file : File, data : File \cup {None}])]
    BY <1>1, <2>1 DEF PickFiles
  <2>4. picks' \in [FileField -> Nat] /\ alone' \in [FileField -> BOOLEAN]
    BY <1>1 DEF PickFiles
  <2> QED  BY <2>2, <2>3, <2>4
<1>2. ASSUME NEW r \in readers, NEW data \in {r.file, None}, Onload(r, data) PROVE FilesOK'
  <2>1. r.field \in FileField /\ data \in File \cup {None}  OBVIOUS
  <2>2. CASE r.at \in DOMAIN staging[r.field]
    <3> DEFINE entry == [file : File, data : File \cup {None}]
               old == staging[r.field]
               new == [old EXCEPT ![r.at] = [old[r.at] EXCEPT !.data = data]]
    <3>1. old \in Seq(entry) /\ r.at \in DOMAIN old  BY <2>1, <2>2
    <3>2. [old[r.at] EXCEPT !.data = data] \in entry
      <4> HIDE DEF old, entry
      <4>1. old[r.at] \in entry  BY <3>1, SequencePut
      <4> QED  BY <2>1, <4>1 DEF entry
    <3>3. new \in Seq(entry)  BY <3>1, <3>2, SequencePut
    <3>4. staging' = [staging EXCEPT ![r.field] = new]  BY <1>2, <2>2 DEF Onload
    <3> HIDE DEF new, entry
    <3>5. staging' \in [FileField -> Seq(entry)]  BY <2>1, <3>3, <3>4 DEF entry
    <3> QED  BY <1>2, <3>5 DEF Onload, entry
  <2>3. CASE r.at \notin DOMAIN staging[r.field]  BY <1>2, <2>3 DEF Onload
  <2> QED  BY <2>2, <2>3
<1>3. ASSUME NEW r \in readers, Onerror(r) PROVE FilesOK'
  BY <1>3 DEF Onerror
<1>4. FileStep => FilesOK'  BY <1>1, <1>2, <1>3 DEF FileStep
<1>5. UNCHANGED files => FilesOK'  BY DEF files
<1> QED  BY <1>4, <1>5, NextIs, FieldFrame, TagFrame, GalaxyFrame, PostFrame DEF Close

LEMMA TagsTyped == ASSUME FormTypeOK, Next PROVE TagsOK'
<1> USE DEF FormTypeOK, TagsOK
<1>1. ASSUME NEW f \in Tag, OpenTagPicker(f) PROVE TagsOK'
  <2>1. tagPick' \in Pick(Tag) /\ tagPick' # None
    <3>1. line[f] \ {Comma} \in SUBSET Label  BY LineLabels DEF Line
    <3> QED  BY <1>1, <3>1, PickTyped DEF OpenTagPicker, Line
  <2>2. Box(Offered(tagPick'))  BY <2>1, OfferedTyped
  <2>3. Box(NoBox)  BY DEF Box, NoBox
  <2> QED  BY <1>1, <2>1, <2>2, <2>3 DEF OpenTagPicker
<1>2. CASE TagsArrive
  <2>1. tagPick # None => Box(Offered(tagPick))  BY OfferedTyped
  <2> QED  BY <1>2, <2>1 DEF TagsArrive
<1>3. CASE TagsFail  BY <1>3 DEF TagsFail
<1>4. CASE ApplyTagPicker  BY <1>4 DEF ApplyTagPicker, Pick
<1>5. ASSUME NEW l \in DOMAIN tagBox, TickTag(l) PROVE TagsOK'
  BY <1>5 DEF TickTag, Act, Box
<1>6. CASE TagStep  BY <1>1, <1>2, <1>3, <1>4, <1>5, <1>6 DEF TagStep
<1>7. CASE GalaxyStep \/ Close
  <2>1. shown' \in {shown, "form", "galaxy"}
    BY <1>7 DEF GalaxyStep, OpenGalaxyPicker, SearchAnswered, RunGalaxyPickerSearch,
                ApplyGalaxyPicker, TickCluster, Close
  <2> QED  BY <1>7, <2>1, GalaxyFrame DEF Close, tags
<1>8. CASE UNCHANGED <<tags, shown>>  BY <1>8 DEF tags
<1>9. CASE FieldStep /\ ~ApplyTagPicker /\ ~ApplyGalaxyPicker
  BY <1>8, <1>9 DEF FieldStep, Write, RemoveEntry, AddEntry, WriteLine
<1> QED
  BY <1>4, <1>6, <1>7, <1>8, <1>9, NextIs, FileFrame, PostFrame DEF GalaxyStep

LEMMA GalaxyTyped == ASSUME FormTypeOK, Next PROVE GalaxyOK'
<1> USE DEF FormTypeOK, GalaxyOK
<1>1. ASSUME NEW f \in Galaxy, OpenGalaxyPicker(f) PROVE GalaxyOK'
  <2>1. line[f] \ {Comma} \in SUBSET Label  BY LineLabels DEF Line
  <2>2. galaxyPick' \in Pick(Galaxy) /\ galaxyPick' # None
    BY <1>1, <2>1, PickTyped DEF OpenGalaxyPicker, Line
  <2>3. Box(galaxyBox')  BY <1>1 DEF OpenGalaxyPicker, Box
  <2>4. searches' = [searches EXCEPT ![f] = @ + 1] /\ drawn' = FALSE
    BY <1>1 DEF OpenGalaxyPicker
  <2>5. searches' \in [Galaxy -> Nat]  BY <2>4
  <2> QED  BY <2>2, <2>3, <2>4, <2>5
<1>2. ASSUME NEW f \in Galaxy, NEW found \in SUBSET Fits[f], SearchAnswered(f, found)
      PROVE  GalaxyOK'
  <2>1. found \subseteq Label  BY FitsLabels DEF Line
  <2>2. Box(galaxyBox')  BY <1>2, <2>1 DEF SearchAnswered, RenderGalaxyPickerList, Box
  <2>3. searches' \in [Galaxy -> Nat]  BY <1>2 DEF SearchAnswered
  <2> QED  BY <1>2, <2>2, <2>3 DEF SearchAnswered, RenderGalaxyPickerList
<1>3. CASE RunGalaxyPickerSearch
  <2>1. galaxyPick.field \in Galaxy  BY <1>3 DEF RunGalaxyPickerSearch, Act, Pick
  <2> QED  BY <1>3, <2>1 DEF RunGalaxyPickerSearch
<1>4. CASE ApplyGalaxyPicker  BY <1>4 DEF ApplyGalaxyPicker, Pick
<1>5. ASSUME NEW l \in DOMAIN galaxyBox, TickCluster(l) PROVE GalaxyOK'
  <2>1. PICK f \in Galaxy, checked \in SUBSET Label :
           galaxyPick = [field |-> f, checked |-> checked]
    BY <1>5 DEF TickCluster, Act, Pick
  <2>2. PICK more \in SUBSET Label : galaxyPick' = [field |-> f, checked |-> more]
    <3>1. l \in Label  BY DEF Box
    <3> QED  BY <1>5, <2>1, <3>1 DEF TickCluster
  <2>3. galaxyPick' \in Pick(Galaxy) /\ galaxyPick' # None  BY <2>2, PickTyped DEF Line
  <2>4. Box(galaxyBox')  BY <1>5 DEF TickCluster, Box
  <2> QED  BY <1>5, <2>3, <2>4 DEF TickCluster
<1>6. CASE GalaxyStep  BY <1>1, <1>2, <1>3, <1>4, <1>5, <1>6 DEF GalaxyStep
<1>7. CASE TagStep \/ Close
  <2>1. shown' \in {shown, "form", "tags"}
    BY <1>7 DEF TagStep, OpenTagPicker, TagsArrive, TagsFail, ApplyTagPicker, TickTag, Close
  <2> QED  BY <1>7, <2>1, TagFrame DEF Close, galaxy
<1>8. CASE UNCHANGED <<galaxy, shown>>  BY <1>8 DEF galaxy
<1>9. CASE FieldStep /\ ~ApplyTagPicker /\ ~ApplyGalaxyPicker
  BY <1>8, <1>9 DEF FieldStep, Write, RemoveEntry, AddEntry, WriteLine
<1> QED
  BY <1>4, <1>6, <1>7, <1>8, <1>9, NextIs, FileFrame, PostFrame DEF TagStep

LEMMA PostTyped == ASSUME FormTypeOK, Next PROVE PostOK'
<1> USE DEF FormTypeOK, PostOK
<1>1. CASE Submit
  <2>1. Collected \in SUBSET Field  BY DEF Collected, Field
  <2>2. atServer' \subseteq [id : 1..sent', has : SUBSET Field]
    BY <1>1, <2>1 DEF Submit, Send
  <2> QED  BY <1>1, <2>2 DEF Submit, Send
<1>2. CASE Created  BY <1>2 DEF Created
<1>3. CASE Refused  BY <1>3 DEF Refused, Enable
<1>4. CASE Failed
  <2>1. atServer' \subseteq atServer /\ unsure' \in Nat  BY <1>4 DEF Failed
  <2>2. UNCHANGED <<left, sent, created>> /\ submitting' = FALSE /\ answer' = "none"
    BY <1>4 DEF Failed, Enable
  <2> QED  BY <2>1, <2>2
<1>5. ASSUME NEW r \in atServer, Create(r) PROVE PostOK'
  BY <1>5 DEF Create
<1>6. ASSUME NEW r \in atServer, Refuse(r) PROVE PostOK'
  BY <1>6 DEF Refuse
<1>7. CASE UNCHANGED post  BY <1>7 DEF post
<1> QED
  BY <1>1, <1>2, <1>3, <1>4, <1>5, <1>6, <1>7, NextIs, FieldFrame, FileFrame, TagFrame,
     GalaxyFrame DEF PostStep, Close

LEMMA ShownTyped == ASSUME FormTypeOK, Next PROVE shown' \in {"form", "tags", "galaxy"}
<1> USE DEF FormTypeOK
<1>1. CASE FieldStep
  BY <1>1 DEF FieldStep, Write, RemoveEntry, AddEntry, WriteLine, ApplyTagPicker,
              ApplyGalaxyPicker
<1>2. CASE TagStep
  BY <1>2 DEF TagStep, OpenTagPicker, TagsArrive, TagsFail, ApplyTagPicker, TickTag
<1>3. CASE GalaxyStep
  BY <1>3 DEF GalaxyStep, OpenGalaxyPicker, SearchAnswered, RunGalaxyPickerSearch,
              ApplyGalaxyPicker, TickCluster
<1>4. CASE Close  BY <1>4 DEF Close
<1> QED  BY <1>1, <1>2, <1>3, <1>4, NextIs, FileFrame, PostFrame

LEMMA ActTyped == ASSUME NEW where, Act(where), FormTypeOK PROVE acts' \in 0..MaxActs
  BY DEF Act, FormTypeOK

LEMMA ActsTyped == ASSUME FormTypeOK, Next PROVE acts' \in 0..MaxActs
<1>1. CASE UNCHANGED acts  BY <1>1 DEF FormTypeOK
<1>2. FieldStep => \E where : Act(where)
  BY DEF FieldStep, Write, RemoveEntry, AddEntry, WriteLine, ApplyTagPicker, ApplyGalaxyPicker
<1>3. FileStep => UNCHANGED acts \/ \E where : Act(where)
  BY DEF FileStep, PickFiles, Onload, Onerror
<1>4. TagStep => UNCHANGED acts \/ \E where : Act(where)
  BY DEF TagStep, OpenTagPicker, TagsArrive, TagsFail, ApplyTagPicker, TickTag
<1>5. GalaxyStep => UNCHANGED acts \/ \E where : Act(where)
  BY DEF GalaxyStep, OpenGalaxyPicker, SearchAnswered, RunGalaxyPickerSearch,
         ApplyGalaxyPicker, TickCluster
<1>6. PostStep => UNCHANGED acts \/ \E where : Act(where)
  BY DEF PostStep, Submit, Created, Refused, Failed, Create, Refuse
<1>7. Close => UNCHANGED acts  BY DEF Close
<1> QED  BY <1>1, <1>2, <1>3, <1>4, <1>5, <1>6, <1>7, NextIs, ActTyped

\* What a step does to the button: it is updated, left, or disabled because the form is sent.
LEMMA FieldButton == FieldStep => \/ Refresh
                                  \/ \E f \in Attr : AddEntry(f)
                                  \/ \E f \in Attr : \E i \in DOMAIN rows[f] : RemoveEntry(f, i)
  BY DEF FieldStep, Write, WriteLine, ApplyTagPicker, ApplyGalaxyPicker

LEMMA FileButton == FileStep => Refresh \/ (UNCHANGED <<form, staging, button>>)
  BY DEF FileStep, PickFiles, Onload, Onerror

LEMMA TagButton == TagStep => Refresh \/ (UNCHANGED <<form, files, post, button>>)
  BY DEF TagStep, OpenTagPicker, TagsArrive, TagsFail, ApplyTagPicker, TickTag

LEMMA GalaxyButton == GalaxyStep => Refresh \/ (UNCHANGED <<form, files, post, button>>)
  BY DEF GalaxyStep, OpenGalaxyPicker, SearchAnswered, RunGalaxyPickerSearch, ApplyGalaxyPicker,
         TickCluster

LEMMA PostButton == PostStep => \/ Refresh
                                \/ submitting' /\ ~button'
                                \/ UNCHANGED <<submitting, button>>
  BY DEF PostStep, Submit, Send, Created, Refused, Failed, Create, Refuse

LEMMA ButtonTyped == ASSUME FormTypeOK, Next PROVE button' \in BOOLEAN
<1>1. button \in BOOLEAN  BY DEF FormTypeOK
<1>2. CASE FieldStep
  BY <1>1, <1>2, FieldButton, RefreshTyped DEF AddEntry, RemoveEntry
<1>3. CASE Close  BY <1>1, <1>3 DEF Close
<1>4. PostStep => Refresh \/ button' = FALSE \/ button' = button
  BY DEF PostStep, Submit, Send, Created, Refused, Failed, Create, Refuse
<1> QED  BY <1>1, <1>2, <1>3, <1>4, NextIs, FileButton, TagButton, GalaxyButton, RefreshTyped

LEMMA InitTypeOK == Init => FormTypeOK
<1> SUFFICES ASSUME Init PROVE FormTypeOK  OBVIOUS
<1>1. FieldsOK
  <2>1. <<FALSE>> \in Seq(BOOLEAN)  OBVIOUS
  <2> QED  BY <2>1 DEF Init, FieldsOK
<1>2. FilesOK  BY DEF Init, FilesOK
<1>3. TagsOK /\ GalaxyOK  BY DEF Init, TagsOK, GalaxyOK, Pick, Box, NoBox
<1>4. PostOK  BY DEF Init, PostOK
<1> QED  BY <1>1, <1>2, <1>3, <1>4 DEF Init, FormTypeOK

LEMMA NextTypeOK == ASSUME FormTypeOK, [Next]_vars PROVE FormTypeOK'
<1>1. CASE Next
  BY <1>1, FieldsTyped, FilesTyped, TagsTyped, GalaxyTyped, PostTyped, ShownTyped, ActsTyped,
     ButtonTyped DEF FormTypeOK
<1>2. CASE UNCHANGED vars
  BY <1>2 DEF vars, form, files, tags, galaxy, post, FormTypeOK, FieldsOK, FilesOK, TagsOK,
              GalaxyOK, PostOK
<1> QED  BY <1>1, <1>2

\* The form, its dialogs and the requests keep their shape (FormTypeOK).
THEOREM FormTypeCorrect == Spec => []FormTypeOK
<1> QED  BY InitTypeOK, NextTypeOK, PTL DEF Spec
-----------------------------------------------------------------------------
\* The button.

LEMMA CompleteSame == UNCHANGED <<form, staging>> => (Complete' <=> Complete)
  BY DEF form, Complete, Required, HasText, HasData

LEMMA ConcatAt ==
    ASSUME NEW S, NEW a \in Seq(S), NEW b \in Seq(S)
    PROVE  /\ DOMAIN (a \o b) = 1..(Len(a) + Len(b))
           /\ \A i \in 1..(Len(a) + Len(b)) :
                 (a \o b)[i] = IF i <= Len(a) THEN a[i] ELSE b[i - Len(a)]
  OBVIOUS

\* An empty row more or a row less fills nothing.
LEMMA CompleteBefore ==
    ASSUME FormTypeOK, NEW f \in Attr, AddEntry(f) \/ \E i \in DOMAIN rows[f] : RemoveEntry(f, i)
    PROVE  Complete' => Complete
<1>1. UNCHANGED <<template, line, staging>>  BY DEF AddEntry, RemoveEntry, files
<1>2. rows[f] \in Seq(BOOLEAN) /\ rows \in [Attr -> Seq(BOOLEAN)]
  BY DEF FormTypeOK, FieldsOK
<1>3. PICK new : rows' = [rows EXCEPT ![f] = new] /\ \A i \in DOMAIN new : new[i] =>
                    \E j \in DOMAIN rows[f] : rows[f][j]
  <2>1. CASE AddEntry(f)
    <3>1. \A i \in DOMAIN Append(rows[f], FALSE) :
             Append(rows[f], FALSE)[i] => \E j \in DOMAIN rows[f] : rows[f][j]
      <4> DEFINE s == rows[f]
      <4>1. s \in Seq(BOOLEAN)  BY <1>2
      <4> HIDE DEF s
      <4>2. \A i \in DOMAIN Append(s, FALSE) :
               Append(s, FALSE)[i] => i \in DOMAIN s /\ s[i]
        BY <4>1
      <4> QED  BY <4>2 DEF s
    <3> QED  BY <2>1, <3>1 DEF AddEntry
  <2>2. ASSUME NEW k \in DOMAIN rows[f], RemoveEntry(f, k)
        PROVE  \E new : rows' = [rows EXCEPT ![f] = new] /\ \A i \in DOMAIN new : new[i] =>
                    \E j \in DOMAIN rows[f] : rows[f][j]
    <3> DEFINE s == rows[f]
               n == Len(s)
    <3>1. s \in Seq(BOOLEAN) /\ n \in Nat /\ DOMAIN s = 1..n /\ k \in 1..n  BY <1>2
    <3> HIDE DEF s, n
    <3> DEFINE before == SubSeq(s, 1, k - 1)
               after == SubSeq(s, k + 1, n)
    <3>2. /\ before \in Seq(BOOLEAN) /\ Len(before) = k - 1
          /\ \A i \in 1..(k - 1) : before[i] = s[i]
      BY <3>1
    <3>3. /\ after \in Seq(BOOLEAN) /\ Len(after) = n - k
          /\ \A i \in 1..(n - k) : after[i] = s[k + i]
      BY <3>1
    <3>4. RemoveAt(s, k) = before \o after  BY DEF RemoveAt, n
    <3> HIDE DEF before, after
    <3>5. /\ DOMAIN (before \o after) = 1..(n - 1)
          /\ \A i \in 1..(n - 1) :
                (before \o after)[i] = IF i < k THEN before[i] ELSE after[i - k + 1]
      <4> DEFINE m == Len(before)
                 p == Len(after)
      <4>1. /\ DOMAIN (before \o after) = 1..(m + p)
            /\ \A i \in 1..(m + p) :
                  (before \o after)[i] = IF i <= m THEN before[i] ELSE after[i - m]
        <5>1. before \in Seq(BOOLEAN) /\ after \in Seq(BOOLEAN)  BY <3>2, <3>3
        <5>2. /\ DOMAIN (before \o after) = 1..(Len(before) + Len(after))
              /\ \A i \in 1..(Len(before) + Len(after)) :
                    (before \o after)[i] = IF i <= Len(before) THEN before[i]
                                            ELSE after[i - Len(before)]
          BY ONLY <5>1, ConcatAt
        <5> QED  BY <5>2
      <4>2. m = k - 1 /\ p = n - k  BY <3>2, <3>3
      <4> HIDE DEF m, p
      <4>3. m + p = n - 1 /\ \A i \in 1..(n - 1) : i - m = i - k + 1 /\ (i <= m <=> i < k)
        BY <3>1, <4>2
      <4> QED  BY <4>1, <4>3
    <3>6. \A i \in DOMAIN RemoveAt(s, k) :
             RemoveAt(s, k)[i] => \E j \in DOMAIN s : s[j]
      <4> SUFFICES ASSUME NEW i \in 1..(n - 1), (before \o after)[i]
                   PROVE  \E j \in 1..n : s[j]
        BY <3>1, <3>4, <3>5
      <4>1. CASE i < k
        <5>1. i \in 1..n /\ s[i]  BY <3>1, <3>2, <3>5, <4>1
        <5> QED  BY <5>1
      <4>2. CASE ~(i < k)
        <5>1. after[i - k + 1] /\ i - k + 1 \in 1..(n - k)  BY <3>1, <3>5, <4>2
        <5>2. after[i - k + 1] = s[k + (i - k + 1)]  BY <3>3, <5>1
        <5>3. k + (i - k + 1) \in 1..n  BY <3>1, <5>1
        <5> QED  BY <5>1, <5>2, <5>3
      <4> QED  BY <4>1, <4>2
    <3> QED  BY <2>2, <3>6 DEF s, RemoveEntry
  <2> QED  BY <2>1, <2>2
<1>4. \A g \in Attr : HasText(g)' => HasText(g)
  BY <1>2, <1>3 DEF HasText
<1> QED  BY <1>1, <1>4 DEF Complete, Required, HasData

LEMMA NextButton == ASSUME FormTypeOK, NeverLockedOut, Next PROVE NeverLockedOut'
<1> USE DEF NeverLockedOut
<1>1. CASE Refresh  BY <1>1 DEF Refresh
<1>2. CASE UNCHANGED <<form, staging, submitting, button>>  BY <1>2, CompleteSame
<1>3. ASSUME NEW f \in Attr, AddEntry(f) \/ \E i \in DOMAIN rows[f] : RemoveEntry(f, i)
      PROVE  NeverLockedOut'
  <2>1. UNCHANGED <<button, submitting>>  BY <1>3 DEF AddEntry, RemoveEntry, post
  <2> QED  BY <1>3, <2>1, CompleteBefore
<1>4. CASE FileStep  BY <1>1, <1>2, <1>4, FileButton, FileFrame DEF post
<1>5. CASE TagStep  BY <1>1, <1>2, <1>5, TagButton DEF post, files
<1>6. CASE GalaxyStep  BY <1>1, <1>2, <1>6, GalaxyButton DEF post, files
<1>7. CASE PostStep
  <2>1. UNCHANGED <<form, staging>>  BY <1>7, PostFrame DEF files
  <2> QED  BY <1>1, <1>2, <1>7, <2>1, PostButton
<1>8. CASE Close  BY <1>2, <1>8 DEF Close, files, post
<1> QED  BY <1>1, <1>3, <1>4, <1>5, <1>6, <1>7, <1>8, FieldButton, NextIs

LEMMA InitButton == Init => NeverLockedOut
<1> SUFFICES ASSUME Init, Complete PROVE button  BY DEF NeverLockedOut
<1>1. ASSUME NEW f \in Required PROVE FALSE
  <2>1. f \in Attr \/ f \in Line \/ f \in FileField  BY DEF Required, Field
  <2>2. CASE f \in Attr
    <3>1. HasText(f) /\ rows[f] = <<FALSE>>  BY <1>1, <2>2 DEF Init, Complete
    <3>2. rows[f] \in Seq({FALSE})  BY <3>1
    <3>3. \A i \in DOMAIN rows[f] : rows[f][i] \in {FALSE}  BY ONLY <3>2, SequencePut
    <3> QED  BY <3>1, <3>3 DEF HasText
  <2>3. CASE f \in Line  BY <1>1, <2>3 DEF Init, Complete
  <2>4. CASE f \in FileField
    <3>1. HasData(f) /\ staging[f] = << >>  BY <1>1, <2>4 DEF Init, Complete
    <3> QED  BY <3>1 DEF HasData
  <2> QED  BY <2>1, <2>2, <2>3, <2>4
<1> QED  BY <1>1 DEF Init, Required

\* The form is never left with a disabled button (NeverLockedOut).
THEOREM ButtonTold == Spec => []NeverLockedOut
<1>1. ASSUME FormTypeOK, NeverLockedOut, UNCHANGED vars PROVE NeverLockedOut'
  BY <1>1, CompleteSame DEF NeverLockedOut, vars, files, post
<1> QED  BY <1>1, InitButton, NextButton, FormTypeCorrect, PTL DEF Spec

-----------------------------------------------------------------------------
\* Requests and events.

\* The requests that have made an event or may make one yet.
Possible == created \cup {r.id : r \in atServer}

\* Those of them that the user does not wait for.
Others == IF submitting THEN Possible \ {sent} ELSE Possible

\* A request is worked on once; each one the user does not wait for was given up for a failure.
Counted ==
    /\ \A r \in atServer : r.id \notin created
    /\ \A r, s \in atServer : r.id = s.id => r = s
    /\ submitting /\ answer = "refused" => sent \notin Possible
    /\ Cardinality(Others) <= unsure

LEMMA PossibleFinite == ASSUME PostOK PROVE Possible \subseteq 1..sent /\ IsFiniteSet(Possible)
<1>1. Possible \subseteq 1..sent  BY DEF PostOK, Possible
<1>2. 1 \in Int /\ sent \in Int  BY DEF PostOK
<1>3. IsFiniteSet(1..sent)  BY <1>2, FS_Interval
<1> QED  BY <1>1, <1>3, FS_Subset

LEMMA OthersFinite == ASSUME PostOK PROVE IsFiniteSet(Others) /\ Cardinality(Others) \in Nat
<1>1. Others \subseteq Possible  BY DEF Others
<1> QED  BY <1>1, PossibleFinite, FS_Subset, FS_CardinalityType

\* One request more is one event more at most.
LEMMA WithSent ==
    ASSUME PostOK
    PROVE  /\ IsFiniteSet(Others \cup {sent}) /\ Cardinality(Others \cup {sent}) \in Nat
           /\ Cardinality(Others \cup {sent}) <= Cardinality(Others) + 1
<1>1. IsFiniteSet(Others) /\ Cardinality(Others) \in Nat  BY OthersFinite
<1>2. /\ IsFiniteSet(Others \cup {sent})
      /\ Cardinality(Others \cup {sent}) =
            IF sent \in Others THEN Cardinality(Others) ELSE Cardinality(Others) + 1
  BY <1>1, FS_AddElement
<1> QED  BY <1>1, <1>2

LEMMA NextCounted == ASSUME PostOK, Counted, Next PROVE Counted'
<1>1. ASSUME Others' \subseteq Others, unsure' = unsure PROVE (Cardinality(Others) <= unsure)'
  <2>1. Cardinality(Others') \in Nat /\ Cardinality(Others') <= Cardinality(Others)
    BY <1>1, OthersFinite, FS_Subset, FS_CardinalityType
  <2> QED  BY <1>1, <2>1, OthersFinite DEF Counted, PostOK
<1>2. CASE Submit
  <2>1. /\ sent' = sent + 1 /\ submitting' /\ ~submitting /\ answer' = "none"
        /\ atServer' = atServer \cup {[id |-> sent + 1, has |-> Collected]}
        /\ UNCHANGED <<created, unsure>>
    BY <1>2 DEF Submit, Send
  <2>2. sent + 1 \notin Possible  BY PossibleFinite DEF PostOK
  <2>3. Possible' = Possible \cup {sent + 1}
    <3> DEFINE q == [id |-> sent + 1, has |-> Collected]
    <3>1. q.id = sent + 1 /\ atServer' = atServer \cup {q}  BY <2>1
    <3> HIDE DEF q
    <3>2. {r.id : r \in atServer'} = {r.id : r \in atServer} \cup {sent + 1}  BY <3>1
    <3> QED  BY <2>1, <3>2 DEF Possible
  <2>4. Others' \subseteq Others  BY <2>1, <2>2, <2>3 DEF Others
  <2>5. \A r \in atServer : r.id # sent + 1 /\ sent + 1 \notin created
    BY <2>2 DEF Possible
  <2>6. (\A r \in atServer : r.id \notin created)'  BY <2>1, <2>5 DEF Counted, Possible, PostOK
  <2>7. (\A r, s \in atServer : r.id = s.id => r = s)'  BY <2>1, <2>5 DEF Counted
  <2> QED  BY <1>1, <2>1, <2>4, <2>6, <2>7 DEF Counted
<1>3. ASSUME NEW r \in atServer, Create(r) PROVE Counted'
  <2>1. /\ atServer' = atServer \ {r} /\ created' = created \cup {r.id}
        /\ UNCHANGED <<submitting, sent, unsure>>
    BY <1>3 DEF Create
  <2>2. Possible' \subseteq Possible  BY <2>1 DEF Possible
  <2>3. Others' \subseteq Others  BY <2>1, <2>2 DEF Others
  <2>4. submitting' /\ answer' = "refused" => sent' \notin Possible'
    BY <1>3, <2>1, <2>2 DEF Create, Counted
  <2>5. (\A s \in atServer : s.id \notin created)'  BY <2>1 DEF Counted
  <2>6. (\A q, s \in atServer : q.id = s.id => q = s)'  BY <2>1 DEF Counted
  <2> QED  BY <1>1, <2>1, <2>3, <2>4, <2>5, <2>6 DEF Counted
<1>4. ASSUME NEW r \in atServer, Refuse(r) PROVE Counted'
  <2>1. /\ atServer' = atServer \ {r} /\ UNCHANGED <<created, submitting, sent, unsure>>
        /\ answer' = IF Awaited(r) THEN "refused" ELSE answer
    BY <1>4 DEF Refuse
  <2>2. Possible' \subseteq Possible /\ r.id \notin Possible'
    BY <2>1 DEF Possible, Counted
  <2>3. Others' \subseteq Others  BY <2>1, <2>2 DEF Others
  <2>4. submitting' /\ answer' = "refused" => sent' \notin Possible'
    BY <2>1, <2>2 DEF Counted, Awaited
  <2>5. (\A s \in atServer : s.id \notin created)'  BY <2>1 DEF Counted
  <2>6. (\A q, s \in atServer : q.id = s.id => q = s)'  BY <2>1 DEF Counted
  <2> QED  BY <1>1, <2>1, <2>3, <2>4, <2>5, <2>6 DEF Counted
<1>5. CASE Refused
  <2>1. /\ ~submitting' /\ UNCHANGED <<atServer, created, unsure>>
        /\ submitting /\ answer = "refused"
    BY <1>5 DEF Refused, Enable
  <2>2. Possible' = Possible  BY <2>1 DEF Possible
  <2>3. Others' \subseteq Others  BY <2>1, <2>2 DEF Others, Counted
  <2> QED  BY <1>1, <2>1, <2>3 DEF Counted
<1>6. CASE Failed
  <2>1. /\ ~submitting' /\ submitting /\ UNCHANGED created /\ unsure' = unsure + 1
        /\ atServer' \subseteq atServer
    BY <1>6 DEF Failed, Enable
  <2>2. Possible' \subseteq Possible  BY <2>1 DEF Possible
  <2>3. Others' \subseteq Others \cup {sent}  BY <2>1, <2>2 DEF Others
  <2>5. Cardinality(Others') \in Nat /\ Cardinality(Others') <= Cardinality(Others \cup {sent})
    BY <2>3, WithSent, FS_Subset, FS_CardinalityType
  <2>6. Cardinality(Others') <= unsure'
    BY <2>1, <2>5, WithSent, OthersFinite DEF Counted, PostOK
  <2> QED  BY <2>1, <2>6 DEF Counted
<1>7. CASE UNCHANGED <<submitting, sent, atServer, answer, created, unsure>>
  BY <1>7 DEF Counted, Others, Possible
<1>8. CASE Created  BY <1>7, <1>8 DEF Created
<1>9. CASE UNCHANGED post  BY <1>7, <1>9 DEF post
<1> QED
  BY <1>2, <1>3, <1>4, <1>5, <1>6, <1>8, <1>9, NextIs, FieldFrame, FileFrame, TagFrame,
     GalaxyFrame DEF PostStep, Close

LEMMA CountedOne == ASSUME PostOK, Counted PROVE NoSecondEvent
<1>1. CASE submitting
  <2>1. created \subseteq Others \cup {sent}  BY <1>1 DEF Others, Possible
  <2>3. Cardinality(created) \in Nat /\ Cardinality(created) <= Cardinality(Others \cup {sent})
    BY <2>1, WithSent, FS_Subset, FS_CardinalityType
  <2> QED  BY <1>1, <2>3, WithSent, OthersFinite DEF NoSecondEvent, Counted, PostOK
<1>2. CASE ~submitting
  <2>1. created \subseteq Others  BY <1>2 DEF Others, Possible
  <2>2. Cardinality(created) \in Nat /\ Cardinality(created) <= Cardinality(Others)
    BY <2>1, OthersFinite, FS_Subset, FS_CardinalityType
  <2> QED  BY <1>2, <2>2, OthersFinite DEF NoSecondEvent, Counted, PostOK
<1> QED  BY <1>1, <1>2

LEMMA InitCounted == Init => Counted
<1> SUFFICES ASSUME Init PROVE Counted  OBVIOUS
<1>1. Others = {}  BY DEF Init, Others, Possible
<1>2. Cardinality(Others) = 0  BY <1>1, FS_EmptySet
<1> QED  BY <1>2 DEF Init, Counted

\* There is no second event without a failure the user was told of (NoSecondEvent).
THEOREM OneEvent == Spec => []NoSecondEvent
<1>1. FormTypeOK => PostOK  BY DEF FormTypeOK
<1>2. ASSUME Counted, UNCHANGED vars PROVE Counted'
  BY <1>2 DEF Counted, Others, Possible, vars, post
<1> QED  BY <1>1, <1>2, InitCounted, NextCounted, CountedOne, FormTypeCorrect, PTL DEF Spec

-----------------------------------------------------------------------------
\* Files.

\* A file picked while nothing was being read is written to by its own reader only.
OwnReader ==
    \A r \in readers : alone[r.field] =>
        r.at \in DOMAIN staging[r.field] /\ staging[r.field][r.at].file = r.file

LEMMA NextFiles == ASSUME FilesOK, FilesOwn, OwnReader, Next PROVE FilesOwn' /\ OwnReader'
<1>1. ASSUME NEW f \in FileField, NEW picked \in Seq(File), PickFiles(f, picked)
      PROVE  FilesOwn' /\ OwnReader'
  <2>1. /\ staging' = [staging EXCEPT ![f] = Staged(f, picked)]
        /\ readers' = readers \cup
              {[field |-> f, turn |-> picks[f] + 1, at |-> i, file |-> picked[i]]
                 : i \in DOMAIN picked}
        /\ alone' = [alone EXCEPT ![f] = \A r \in readers : r.field # f]
    BY <1>1 DEF PickFiles
  <2>2. /\ staging'[f] = Staged(f, picked)
        /\ \A g \in FileField \ {f} : staging'[g] = staging[g] /\ alone'[g] = alone[g]
        /\ alone'[f] => \A r \in readers : r.field # f
    BY <2>1 DEF FilesOK
  <2>3. \A i \in DOMAIN picked : /\ i \in DOMAIN Staged(f, picked)
                                 /\ Staged(f, picked)[i].file = picked[i]
    BY DEF Staged
  <2>4. \A i \in DOMAIN Staged(f, picked) : Staged(f, picked)[i].data = None  BY DEF Staged
  <2>5. FilesOwn'  BY <2>2, <2>4 DEF FilesOwn
  <2>6. OwnReader'
    <3> SUFFICES ASSUME NEW r \in readers', alone'[r.field]
                 PROVE  /\ r.at \in DOMAIN staging'[r.field]
                        /\ staging'[r.field][r.at].file = r.file
      BY DEF OwnReader
    <3>1. CASE r \in readers
      <4>1. r.field \in FileField  BY <3>1 DEF FilesOK
      <4>2. r.field # f  BY <2>2, <3>1
      <4> QED  BY <2>2, <3>1, <4>1, <4>2 DEF OwnReader
    <3>2. ASSUME NEW i \in DOMAIN picked,
                 r = [field |-> f, turn |-> picks[f] + 1, at |-> i, file |-> picked[i]]
          PROVE  r.at \in DOMAIN staging'[r.field] /\ staging'[r.field][r.at].file = r.file
      BY <2>2, <2>3, <3>2
    <3> QED  BY <2>1, <3>1, <3>2
  <2> QED  BY <2>5, <2>6
<1>2. ASSUME NEW r \in readers, NEW data \in {r.file, None}, Onload(r, data)
      PROVE  FilesOwn' /\ OwnReader'
  <2>1. readers' = readers \ {r} /\ alone' = alone /\ r.field \in FileField
    BY <1>2 DEF Onload, FilesOK
  <2>2. CASE r.at \in DOMAIN staging[r.field]
    <3>1. staging' = [staging EXCEPT ![r.field][r.at].data = data]  BY <1>2, <2>2 DEF Onload
    <3>2. \A g \in FileField \ {r.field} : staging'[g] = staging[g]  BY <3>1 DEF FilesOK
    <3>3. staging'[r.field] = [staging[r.field] EXCEPT ![r.at] =
                                 [staging[r.field][r.at] EXCEPT !.data = data]]
      BY <2>1, <3>1 DEF FilesOK
    <3>4. staging[r.field] \in Seq([file : File, data : File \cup {None}])
      BY <2>1 DEF FilesOK
    <3>5. staging[r.field][r.at] \in [file : File, data : File \cup {None}]
      <4> DEFINE s == staging[r.field]
                 entry == [file : File, data : File \cup {None}]
      <4>1. s \in Seq(entry) /\ r.at \in DOMAIN s  BY <2>2, <3>4
      <4> HIDE DEF s, entry
      <4>2. s[r.at] \in entry  BY <4>1, SequencePut
      <4> QED  BY <4>2 DEF s, entry
    <3>6. /\ DOMAIN staging'[r.field] = DOMAIN staging[r.field]
          /\ \A i \in DOMAIN staging[r.field] :
                /\ staging'[r.field][i].file = staging[r.field][i].file
                /\ staging'[r.field][i].data = IF i = r.at THEN data
                                               ELSE staging[r.field][i].data
      BY <2>2, <3>3, <3>5
    <3>7. FilesOwn'
      <4> SUFFICES ASSUME NEW g \in FileField, alone[g], NEW i \in DOMAIN staging'[g]
                   PROVE  staging'[g][i].data \in {None, staging'[g][i].file}
        BY <2>1 DEF FilesOwn
      <4>1. CASE g # r.field  BY <3>2, <4>1 DEF FilesOwn
      <4>2. CASE g = r.field /\ i = r.at  BY <2>2, <3>6, <4>2 DEF OwnReader
      <4>3. CASE g = r.field /\ i # r.at  BY <3>6, <4>3 DEF FilesOwn
      <4> QED  BY <4>1, <4>2, <4>3
    <3>8. OwnReader'
      <4> SUFFICES ASSUME NEW q \in readers, alone[q.field]
                   PROVE  /\ q.at \in DOMAIN staging'[q.field]
                          /\ staging'[q.field][q.at].file = q.file
        BY <2>1 DEF OwnReader
      <4>1. q.field \in FileField  BY DEF FilesOK
      <4>2. q.at \in DOMAIN staging[q.field] /\ staging[q.field][q.at].file = q.file
        BY DEF OwnReader
      <4> QED  BY <3>2, <3>6, <4>1, <4>2
    <3> QED  BY <3>7, <3>8
  <2>3. CASE r.at \notin DOMAIN staging[r.field]
    <3>1. staging' = staging  BY <1>2, <2>3 DEF Onload
    <3> QED  BY <2>1, <3>1 DEF FilesOwn, OwnReader
  <2> QED  BY <2>2, <2>3
<1>3. ASSUME NEW r \in readers, Onerror(r) PROVE FilesOwn' /\ OwnReader'
  BY <1>3 DEF Onerror, FilesOwn, OwnReader
<1>4. FileStep => FilesOwn' /\ OwnReader'  BY <1>1, <1>2, <1>3 DEF FileStep
<1>5. UNCHANGED files => FilesOwn' /\ OwnReader'  BY DEF files, FilesOwn, OwnReader
<1> QED  BY <1>4, <1>5, NextIs, FieldFrame, TagFrame, GalaxyFrame, PostFrame DEF Close

\* A file's data is its own if nothing was being read when it was picked (FilesOwn).
THEOREM DataOwn == Spec => []FilesOwn
<1>1. Init => FilesOwn /\ OwnReader  BY DEF Init, FilesOwn, OwnReader
<1>2. ASSUME FilesOwn, OwnReader, UNCHANGED vars PROVE FilesOwn' /\ OwnReader'
  BY <1>2 DEF FilesOwn, OwnReader, vars, files
<1>3. FormTypeOK => FilesOK  BY DEF FormTypeOK
<1> QED  BY <1>1, <1>2, <1>3, NextFiles, FormTypeCorrect, PTL DEF Spec

-----------------------------------------------------------------------------
\* The dialogs.

\* No tag is offered before the tags are loaded.
NotYetLoaded == tagCache # "loaded" => DOMAIN tagBox = {}

TagsTell == shown = "tags" => DOMAIN tagBox \subseteq Fits[tagPick.field]

GalaxyTells ==
    shown = "galaxy" /\ drawn => Picked(galaxyBox) = DOMAIN galaxyBox \cap galaxyPick.checked

LEMMA NextTagsTell ==
    ASSUME FormTypeOK, NotYetLoaded, TagsTell, Next PROVE NotYetLoaded' /\ TagsTell'
<1> USE DEF NotYetLoaded, TagsTell
<1>1. ASSUME NEW f \in Tag, OpenTagPicker(f) PROVE NotYetLoaded' /\ TagsTell'
  <2>1. DOMAIN Offered(tagPick') = Fits[tagPick'.field]  BY DEF Offered
  <2>2. DOMAIN NoBox = {}  BY DEF NoBox
  <2>3. tagCache \in {"none", "loading", "loaded"}  BY DEF FormTypeOK, TagsOK
  <2>4. CASE tagCache = "loaded"  BY <1>1, <2>1, <2>4 DEF OpenTagPicker
  <2>5. CASE tagCache = "loading"  BY <1>1, <2>5 DEF OpenTagPicker
  <2>6. CASE tagCache = "none"  BY <1>1, <2>2, <2>6 DEF OpenTagPicker
  <2> QED  BY <2>3, <2>4, <2>5, <2>6
<1>2. CASE TagsArrive
  <2>1. DOMAIN Offered(tagPick) = Fits[tagPick.field]  BY DEF Offered
  <2> QED  BY <1>2, <2>1 DEF TagsArrive, FormTypeOK, TagsOK
<1>3. CASE TagsFail  BY <1>3 DEF TagsFail
<1>4. CASE ApplyTagPicker  BY <1>4 DEF ApplyTagPicker
<1>5. ASSUME NEW l \in DOMAIN tagBox, TickTag(l) PROVE NotYetLoaded' /\ TagsTell'
  BY <1>5 DEF TickTag, Act
<1>6. CASE TagStep  BY <1>1, <1>2, <1>3, <1>4, <1>5, <1>6 DEF TagStep
<1>7. CASE UNCHANGED tags /\ (shown' = shown \/ shown' \in {"form", "galaxy"})
  BY <1>7 DEF tags
<1>8. CASE GalaxyStep \/ Close
  <2>1. shown' = shown \/ shown' \in {"form", "galaxy"}
    BY <1>8 DEF GalaxyStep, OpenGalaxyPicker, SearchAnswered, RunGalaxyPickerSearch,
                ApplyGalaxyPicker, TickCluster, Close
  <2> QED  BY <1>7, <1>8, <2>1, GalaxyFrame DEF Close
<1>9. CASE FieldStep /\ ~ApplyTagPicker /\ ~ApplyGalaxyPicker
  BY <1>7, <1>9 DEF FieldStep, Write, RemoveEntry, AddEntry, WriteLine
<1> QED
  BY <1>4, <1>6, <1>7, <1>8, <1>9, NextIs, FileFrame, PostFrame DEF GalaxyStep

LEMMA NextGalaxyTells == ASSUME FormTypeOK, GalaxyTells, Next PROVE GalaxyTells'
<1> USE DEF GalaxyTells
<1>1. ASSUME NEW f \in Galaxy, OpenGalaxyPicker(f) PROVE GalaxyTells'
  BY <1>1 DEF OpenGalaxyPicker
<1>2. ASSUME NEW f \in Galaxy, NEW found \in SUBSET Fits[f], SearchAnswered(f, found)
      PROVE  GalaxyTells'
  <2>1. UNCHANGED <<shown, galaxyPick>>  BY <1>2 DEF SearchAnswered
  <2>2. CASE galaxyPick = None  BY <2>1, <2>2 DEF FormTypeOK, GalaxyOK
  <2>3. CASE galaxyPick # None
    <3>1. galaxyBox' = [l \in found |-> l \in galaxyPick.checked]
      BY <1>2, <2>3 DEF SearchAnswered, RenderGalaxyPickerList
    <3>2. Picked(galaxyBox') = DOMAIN galaxyBox' \cap galaxyPick.checked  BY <3>1 DEF Picked
    <3> QED  BY <2>1, <3>2 DEF Picked
  <2> QED  BY <2>2, <2>3
<1>3. CASE RunGalaxyPickerSearch  BY <1>3 DEF RunGalaxyPickerSearch, Picked
<1>4. CASE ApplyGalaxyPicker  BY <1>4 DEF ApplyGalaxyPicker
<1>5. ASSUME NEW l \in DOMAIN galaxyBox, TickCluster(l) PROVE GalaxyTells'
  <2>1. PICK f \in Galaxy, checked \in SUBSET Label :
           galaxyPick = [field |-> f, checked |-> checked]
    BY <1>5 DEF TickCluster, Act, FormTypeOK, GalaxyOK, Pick
  <2>2. UNCHANGED <<shown, drawn>> /\ galaxyBox' = [galaxyBox EXCEPT ![l] = ~@]
    BY <1>5 DEF TickCluster
  <2>3. galaxyPick'.checked = IF galaxyBox[l] THEN checked \ {l} ELSE checked \cup {l}
    BY <1>5, <2>1 DEF TickCluster
  <2>4. galaxyBox \in [DOMAIN galaxyBox -> BOOLEAN]  BY DEF FormTypeOK, GalaxyOK, Box
  <2>5. /\ DOMAIN galaxyBox' = DOMAIN galaxyBox
        /\ \A k \in DOMAIN galaxyBox : galaxyBox'[k] = IF k = l THEN ~galaxyBox[l]
                                                      ELSE galaxyBox[k]
    BY <2>2, <2>4
  <2>6. ASSUME shown = "galaxy", drawn
        PROVE  Picked(galaxyBox') = DOMAIN galaxyBox' \cap galaxyPick'.checked
    <3>1. \A k \in DOMAIN galaxyBox : galaxyBox[k] <=> k \in checked
      BY <2>1, <2>6 DEF Picked
    <3> QED  BY <2>3, <2>5, <3>1 DEF Picked
  <2> QED  BY <2>2, <2>6 DEF Picked
<1>6. CASE GalaxyStep  BY <1>1, <1>2, <1>3, <1>4, <1>5, <1>6 DEF GalaxyStep
<1>7. CASE UNCHANGED galaxy /\ (shown' = shown \/ shown' \in {"form", "tags"})
  BY <1>7 DEF galaxy, Picked
<1>8. CASE TagStep \/ Close
  <2>1. shown' = shown \/ shown' \in {"form", "tags"}
    BY <1>8 DEF TagStep, OpenTagPicker, TagsArrive, TagsFail, ApplyTagPicker, TickTag, Close
  <2> QED  BY <1>7, <1>8, <2>1, TagFrame DEF Close
<1>9. CASE FieldStep /\ ~ApplyTagPicker /\ ~ApplyGalaxyPicker
  BY <1>7, <1>9 DEF FieldStep, Write, RemoveEntry, AddEntry, WriteLine
<1> QED
  BY <1>4, <1>6, <1>7, <1>8, <1>9, NextIs, FileFrame, PostFrame DEF TagStep

\* The dialogs show what they will write (PickersTell).
THEOREM DialogsTell == Spec => []PickersTell
<1>1. Init => NotYetLoaded /\ TagsTell /\ GalaxyTells
  BY DEF Init, NotYetLoaded, TagsTell, GalaxyTells, NoBox
<1>2. ASSUME NotYetLoaded, TagsTell, GalaxyTells, UNCHANGED vars
      PROVE  NotYetLoaded' /\ TagsTell' /\ GalaxyTells'
  BY <1>2 DEF NotYetLoaded, TagsTell, GalaxyTells, Picked, vars, tags, galaxy
<1>3. TagsTell /\ GalaxyTells => PickersTell  BY DEF PickersTell, TagsTell, GalaxyTells
<1> QED
  BY <1>1, <1>2, <1>3, NextTagsTell, NextGalaxyTells, FormTypeCorrect, PTL DEF Spec

=============================================================================
