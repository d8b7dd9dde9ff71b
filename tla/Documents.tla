------------------------------ MODULE Documents ------------------------------
(***************************************************************************)
(* The documents of one Form: the template it is published with, and the   *)
(* Response that is filled in on it, natively or in the document editor,   *)
(* submitted and corrected.  Each save pairs a document with the data that *)
(* was read from it, or that was written into it.                          *)
(*                                                                         *)
(* A document is a sequence of content controls with what the server reads *)
(* of them and writes into them: the XML around them, namespaces, fonts    *)
(* and sizes are left out.  When operations run, fail and are recovered is *)
(* modelled in OperationLifecycle; here the callback of a save arrives     *)
(* once, or the save fails.                                                *)
(*                                                                         *)
(* Values are texts (see NativeText), or one of the three constants below. *)
(***************************************************************************)
EXTENDS NativeText

CONSTANTS Templates,  \* names of documents that a Form may be published with
          MaxEdits,   \* changes made to a document in the editor
          MaxSaves    \* operations asked for

ASSUME DocumentBounds == {MaxEdits, MaxSaves} \subseteq Nat

Null  == <<"#null">>
True  == <<"#true">>
False == <<"#false">>
IsText(value) == value \notin {Null, True, False}

None == "none"
NoData == [tag \in {} |-> Null]
Only(tag, value) == [one \in {tag} |-> value]
Override(first, rest) == [tag \in DOMAIN first \cup DOMAIN rest |-> IF tag \in DOMAIN first THEN first[tag] ELSE rest[tag]]

---------------------------------------------------------------------------
(* Controls *)

\* A plain text control.  The others differ from it in what they name.
Control(tag) ==
  [tag |-> tag,
   padded |-> FALSE,          \* there is white space around the tag
   others |-> {},             \* other values that the tag element carries
   tags |-> 1,                \* how often its tag property occurs
   markers |-> <<"text">>,    \* its field type markers, as they occur
   options |-> <<>>,
   required |-> FALSE,        \* as configured for the published field
   part |-> "document", alternate |-> 0, choice |-> 0, nested |-> FALSE, block |-> FALSE,
   format |-> <<>>, calendar |-> "gregorian", language |-> "en",
   checked |-> "[x]", unchecked |-> "[ ]",
   content |-> <<T(<<"?">>)>>,
   showing |-> TRUE,          \* its placeholder
   state |-> Null,            \* the date, option or check that its properties hold
   locked |-> FALSE,
   images |-> <<>>]           \* ids of the relationships that its content refers to

Markers == {"checkbox", "combo", "date", "dropdown", "picture", "text"}
Unsupported == {"group", "richText", "repeatingSection"}

Type(c) == IF 1 \in DOMAIN c.markers THEN c.markers[1] ELSE "text"
IsList(c) == Type(c) \in {"dropdown", "combo"}
Shown(c) == IF c.showing THEN <<>> ELSE VisibleText(c.content)

Document(controls) ==
  [controls |-> controls,
   links |-> [part \in {"document", "header", "orphan"} |-> IF part = "document" THEN {"header"} ELSE {}],
   requires |-> <<>>,       \* whether the choices of each alternate content are supported
   rels |-> [part \in {"document", "header", "orphan"} |-> <<>>],  \* media by relationship id
   media |-> <<>>]          \* images, and whether the server named their part

ReachableParts(doc) ==
  LET More(parts) == parts \cup UNION {doc.links[part] : part \in parts}
  IN  More(More({"document"}))

InFallback(c) == c.alternate > 0 /\ c.choice = 0

\* The controls that are read: those of the main document and of the parts it leads to,
\* in the order of the document, without those of fallbacks.
Read(doc) == {i \in DOMAIN doc.controls : /\ doc.controls[i].part \in ReachableParts(doc)
                                          /\ ~InFallback(doc.controls[i])}

Tagged(doc, tag) == {i \in Read(doc) : doc.controls[i].tag = tag}

---------------------------------------------------------------------------
(* Templates: what may be published, and what can be filled in natively *)

ParsedTemplateField(c) ==
  /\ c.tag # ""
  /\ c.tags = 1
  /\ \A k \in DOMAIN c.markers : c.markers[k] \notin Unsupported
  /\ Len(c.markers) <= 1
  /\ (c.options = <<>>) <=> ~IsList(c)
  /\ \A j, k \in DOMAIN c.options :
       j # k => /\ c.options[j].displayText # c.options[k].displayText
                /\ c.options[j].value # c.options[k].value

\* Inside of the properties of a control.
PropertiesRead(c) ==
  /\ \A k \in DOMAIN c.markers : c.markers[k] \in Markers \cup Unsupported
  /\ \A k \in DOMAIN c.options : Trim(c.options[k].displayText) # <<>>

UniqueTags(doc) ==
  \A i, j \in Read(doc) : doc.controls[i].tag = doc.controls[j].tag => i = j

ParseTemplateFields(doc) ==
  /\ Read(doc) # {}
  /\ \A i \in Read(doc) : PropertiesRead(doc.controls[i]) /\ ParsedTemplateField(doc.controls[i])
  /\ UniqueTags(doc)

Limits(c) == IF Type(c) = "picture" THEN [bytes |-> 10, width |-> 4096, height |-> 4096]
                                    ELSE [bytes |-> 0, width |-> 0, height |-> 0]

\* The fields of a published template by tag.
Manifest(doc) ==
  [tag \in {doc.controls[i].tag : i \in Read(doc)} |->
     LET c == doc.controls[CHOOSE i \in Tagged(doc, tag) : TRUE]
     IN  [type |-> Type(c), options |-> c.options, required |-> c.required, limits |-> Limits(c)]]

PictureTags(manifest) == {tag \in DOMAIN manifest : manifest[tag].type = "picture"}
ScalarTags(manifest) == DOMAIN manifest \ PictureTags(manifest)

HasNested(doc) == \E i \in Read(doc) : doc.controls[i].nested

UnsupportedDates(doc) ==
  \E i \in Read(doc) : LET c == doc.controls[i] IN
    /\ Type(c) = "date"
    /\ \/ c.calendar # "gregorian"
       \/ c.language # "en"
       \/ \E k \in DOMAIN c.format : c.format[k] \notin DateTokens \cup Separators

\* Of an alternate content at most one choice may hold fields: the one that is used.
\* Alternate contents inside of others are left out.
ChoicesWith(doc, fields, alternate) ==
  {doc.controls[i].choice : i \in {j \in DOMAIN doc.controls :
     doc.controls[j].alternate = alternate /\ doc.controls[j].tag \in fields}}

FlattenSupported(doc, fields) ==
  \A a \in DOMAIN doc.requires :
    LET with == ChoicesWith(doc, fields, a) IN
    /\ 0 \notin with
    /\ Cardinality(with) <= 1
    /\ \A k \in with : doc.requires[a][k] /\ \A j \in 1..k-1 : ~doc.requires[a][j]

\* The choice takes the place of the whole.
Flatten(doc, fields) ==
  LET Kept(c) == c.alternate = 0 \/ ChoicesWith(doc, fields, c.alternate) \subseteq {c.choice}
      Plain(c) == IF c.alternate > 0 /\ ChoicesWith(doc, fields, c.alternate) = {c.choice}
                  THEN [c EXCEPT !.alternate = 0, !.choice = 0] ELSE c
  IN  [doc EXCEPT !.controls =
         FlattenSeq([i \in DOMAIN @ |-> IF Kept(@[i]) THEN <<Plain(@[i])>> ELSE <<>>])]

SupportsNativeTemplate(doc) ==
  /\ Read(doc) # {}
  /\ ~UnsupportedDates(doc)
  /\ ~HasNested(doc)
  /\ FlattenSupported(doc, DOMAIN Manifest(doc))

---------------------------------------------------------------------------
(* Pictures *)

\* What the bytes of an image say: a PNG needs its header, a JPEG a frame
\* before its data and after segments that can be passed over.
Images ==
  [red   |-> [png |-> TRUE, header |-> TRUE, segments |-> <<>>, bytes |-> 1, width |-> 10, height |-> 10],
   blue  |-> [png |-> FALSE, header |-> FALSE, segments |-> <<"standalone", "passed", "frame">>,
              bytes |-> 1, width |-> 10, height |-> 10],
   wide  |-> [png |-> TRUE, header |-> TRUE, segments |-> <<>>, bytes |-> 1, width |-> 5000, height |-> 10],
   torn  |-> [png |-> FALSE, header |-> FALSE, segments |-> <<"passed", "scan", "frame">>,
              bytes |-> 1, width |-> 10, height |-> 10]]

JpegDimensions(image) ==
  \E k \in DOMAIN image.segments : /\ image.segments[k] = "frame"
                                   /\ \A j \in 1..k-1 : image.segments[j] \in {"standalone", "passed"}

Dimensions(image) == IF image.png THEN image.header ELSE JpegDimensions(image)

ValidMedia(name, limits) ==
  LET image == Images[name] IN
  /\ name \in DOMAIN Images
  /\ image.bytes <= limits.bytes
  /\ Dimensions(image)
  /\ image.width \in 1..limits.width
  /\ image.height \in 1..limits.height

Media(doc, c) ==
  IF Len(c.images) = 1 /\ c.images[1] \in DOMAIN doc.rels[c.part] THEN doc.rels[c.part][c.images[1]] ELSE 0

\* The image in a picture control.
Pictured(doc, c) ==
  IF c.showing \/ Media(doc, c) \notin DOMAIN doc.media THEN None ELSE doc.media[Media(doc, c)].image

PictureControls(doc) == {i \in Read(doc) : Type(doc.controls[i]) = "picture"}

ValidPictureControl(doc, c, field, enforceRequired) ==
  IF c.showing \/ c.images = <<>>
  THEN ~(field.required /\ enforceRequired)
  ELSE /\ Len(c.images) = 1
       /\ Media(doc, c) \in DOMAIN doc.media
       /\ ValidMedia(doc.media[Media(doc, c)].image, field.limits)

ValidPictureControls(doc, manifest, enforceRequired) ==
  \A tag \in PictureTags(manifest) :
    \E i \in PictureControls(doc) :
      /\ {j \in PictureControls(doc) : doc.controls[j].tag = tag} = {i}
      /\ ValidPictureControl(doc, doc.controls[i], manifest[tag], enforceRequired)

\* The document still has the fields that were published, and no others.
ValidResponseDocument(doc, manifest, enforceRequired) ==
  /\ ParseTemplateFields(doc)
  /\ DOMAIN Manifest(doc) = DOMAIN manifest
  /\ \A tag \in DOMAIN manifest : LET field == Manifest(doc)[tag] IN
       <<field.type, field.options, field.limits>>
         = <<manifest[tag].type, manifest[tag].options, manifest[tag].limits>>
  /\ ValidPictureControls(doc, manifest, enforceRequired)

---------------------------------------------------------------------------
(* Values of fields: what the editor shows is not what is stored *)

\* No display of one of these dates can be read as another date.
Dates == {[year |-> 2025, month |-> 3, day |-> 4], [year |-> 2024, month |-> 1, day |-> 2]}
IsoDates == {Iso(date) : date \in Dates}
DateOfIso(text) == CHOOSE date \in Dates : Iso(date) = text

InCalendar(c, date) == IF c.calendar = "thai" THEN [date EXCEPT !.year = @ + 543] ELSE date

\* The server reads a date as displayed: years of two digits and other calendars stay as they are.
ParsedDate(c, text) ==
  LET fits == {date \in Dates : Masked(InCalendar(c, date), c.format) = text}
  IN  IF \/ c.format = <<>>
         \/ Contains(c.format, "yy")
         \/ c.calendar \notin {"gregorian", "thai"}
         \/ fits = {}
      THEN text ELSE Iso(CHOOSE date \in fits : TRUE)

Values(field) == {field.options[k].value : k \in DOMAIN field.options}
Labelled(field, text) == {k \in DOMAIN field.options : field.options[k].displayText = text}
Valued(field, text) == {k \in DOMAIN field.options : field.options[k].value = text}

\* c is the control of the field whose settings the value is read with.
NormalizeDisplayValue(c, field, value) ==
  CASE ~IsText(value) -> value
    [] IsText(value) /\ field.type = "checkbox" ->
         (CASE value = <<>> -> False
            [] value = <<c.checked>> /\ c.checked # c.unchecked -> True
            [] value = <<c.unchecked>> /\ c.checked # c.unchecked -> False
            [] OTHER -> value)
    [] IsText(value) /\ field.type = "date" -> IF value = <<>> THEN Null ELSE ParsedDate(c, value)
    [] IsText(value) /\ field.type \in {"dropdown", "combo"} ->
         (CASE value = <<>> -> Null
            [] value # <<>> /\ Labelled(field, value) # {} -> field.options[Min(Labelled(field, value))].value
            [] OTHER -> value)
    [] OTHER -> value

ManifestFieldValueMatches(field, value) ==
  CASE field.type = "checkbox" -> value \in {True, False}
    [] field.type = "dropdown" -> value \in Values(field)
    [] field.type = "date" -> value \in IsoDates
    [] field.type \in {"combo", "text"} -> IsText(value)
    [] field.type = "picture" -> FALSE

\* Mutant of RequiredMet: blank text is an answer.
RequiredPresent(field, data, tag) ==
  /\ tag \in DOMAIN data
  /\ data[tag] # Null
  /\ field.type = "checkbox" => data[tag] = True

\* Blank text is no answer, unless it is the value of an option.
RequiredMet(field, data, tag) ==
  /\ tag \in DOMAIN data
  /\ data[tag] # Null
  /\ IsText(data[tag]) /\ Trim(data[tag]) = <<>> =>
       field.type \in {"dropdown", "combo"} /\ data[tag] \in Values(field)
  /\ field.type = "checkbox" => data[tag] = True

---------------------------------------------------------------------------
(* The data of a save *)

FieldControl(doc, tag) == doc.controls[CHOOSE i \in Tagged(doc, tag) : TRUE]

\* A date that the plugin says it has read as such is not read again.
CanonicalDateFields(manifest, supplied, canonical) ==
  /\ IsInjective(canonical)
  /\ \A tag \in ToSet(canonical) : /\ tag \in DOMAIN manifest \cap DOMAIN supplied
                                  /\ manifest[tag].type = "date"
                                  /\ supplied[tag] \in IsoDates

Normalized(doc, supplied, canonical) ==
  LET manifest == Manifest(doc) IN
  [tag \in DOMAIN supplied |->
     IF tag \in ToSet(canonical) THEN supplied[tag]
     ELSE NormalizeDisplayValue(FieldControl(doc, tag), manifest[tag], supplied[tag])]

\* Locked values of the Prefill come last, and pictures are not data.
MergedData(doc, previous, snapshot, supplied) ==
  LET all == Override([tag \in snapshot.locked |-> snapshot.values[tag]], Override(supplied, previous))
  IN  Restrict(all, DOMAIN all \ PictureTags(Manifest(doc)))

AcceptedData(doc, data, supplied, snapshot, requireRequired) ==
  LET manifest == Manifest(doc) IN
  /\ \A tag \in DOMAIN data : data[tag] = Null \/ ManifestFieldValueMatches(manifest[tag], data[tag])
  /\ requireRequired =>
       \A tag \in ScalarTags(manifest) : manifest[tag].required => RequiredMet(manifest[tag], data, tag)
  /\ \A tag \in snapshot.locked \cap DOMAIN supplied : supplied[tag] = snapshot.values[tag]

\* What the callback of the save must still do: texts that were read as empty are
\* read again, and values that the editor does not hold are written into the document.
CallbackEmptyFieldTags(data, supplied) == {tag \in DOMAIN data \cap DOMAIN supplied : supplied[tag] = <<>>}
ServerHeldFieldTags(data, supplied, snapshot) ==
  {tag \in DOMAIN data : tag \in snapshot.locked \/ tag \notin DOMAIN supplied}

ValueOf(data, tag) == IF tag \in DOMAIN data THEN data[tag] ELSE Null

---------------------------------------------------------------------------
(* Writing data into a document *)

Glyph(c, value) == IF value = True THEN <<c.checked>> ELSE <<c.unchecked>>

NativeDateDisplayValue(c, text) ==
  IF text \in IsoDates /\ c.format # <<>> THEN Masked(DateOfIso(text), c.format) ELSE text

DisplayValue(c, field, value) ==
  CASE field.type = "checkbox" -> Glyph(c, value)
    [] field.type # "checkbox" /\ ~IsText(value) -> <<>>
    [] field.type = "date" /\ IsText(value) -> NativeDateDisplayValue(c, value)
    [] field.type \in {"dropdown", "combo"} /\ IsText(value) /\ Valued(field, value) # {} ->
         field.options[Min(Valued(field, value))].displayText
    [] OTHER -> value

\* Whatever is not true is an unchecked box.
CheckedState(value) == IF value = True THEN True ELSE False

\* What the properties of the control say: the check, the date or the option.
StoredState(c, field, value) ==
  CASE field.type = "checkbox" -> CheckedState(value)
    [] field.type = "date" -> IF IsText(value) /\ value # <<>> THEN value ELSE Null
    [] field.type \in {"dropdown", "combo"} -> IF IsText(value) THEN value ELSE Null
    [] OTHER -> c.state

NativeFieldControl(c, field, value) ==
  [c EXCEPT !.padded = FALSE,
            !.showing = FALSE,
            !.state = StoredState(c, field, value),
            !.content = SetText(@, DisplayValue(c, field, value), c.block)]

Overlaid(doc, manifest, data, selected) ==
  [doc EXCEPT !.controls = [i \in DOMAIN doc.controls |->
     LET c == doc.controls[i] IN
     IF i \in Read(doc) /\ c.tag \in selected \cap ScalarTags(manifest)
     THEN NativeFieldControl(c, manifest[c.tag], ValueOf(data, c.tag)) ELSE c]]

CanOverlay(doc, manifest) == ~HasNested(doc) /\ FlattenSupported(doc, DOMAIN manifest)

OverlayNativeResponseDocument(doc, manifest, data, selected) ==
  Flatten(Overlaid(doc, manifest, data, selected), DOMAIN manifest)

---------------------------------------------------------------------------
(* Placing pictures *)

ReferenceCount(doc, part, rel) ==
  Cardinality(UNION {{<<i, k>> : k \in {l \in DOMAIN doc.controls[i].images : doc.controls[i].images[l] = rel}} :
                       i \in {j \in DOMAIN doc.controls : doc.controls[j].part = part}})

\* Mutant of CanReplaceMedia: another control may refer to the image through the same relationship.
CanReplaceShared(doc, c) ==
  /\ Media(doc, c) \in DOMAIN doc.media
  /\ doc.media[Media(doc, c)].own
  /\ Cardinality({rel \in DOMAIN doc.rels[c.part] : doc.rels[c.part][rel] = Media(doc, c)}) = 1

\* An image that the server placed, and that nothing else of the part shows, is replaced in its place.
CanReplaceMedia(doc, c) ==
  /\ Media(doc, c) \in DOMAIN doc.media
  /\ doc.media[Media(doc, c)].own
  /\ Cardinality({rel \in DOMAIN doc.rels[c.part] : doc.rels[c.part][rel] = Media(doc, c)}) = 1
  /\ ReferenceCount(doc, c.part, c.images[1]) = 1

AddNativePicturePackageParts(doc, c, image) ==
  IF CanReplaceMedia(doc, c)
  THEN [doc |-> [doc EXCEPT !.media[Media(doc, c)].image = image], rel |-> c.images[1]]
  ELSE [doc |-> [doc EXCEPT !.media = Append(@, [image |-> image, own |-> TRUE]),
                            !.rels[c.part] = Append(@, Len(doc.media) + 1)],
        rel |-> Len(doc.rels[c.part]) + 1]

PicturePlaced(doc, i, image) ==
  LET added == AddNativePicturePackageParts(doc, doc.controls[i], image)
  IN  [added.doc EXCEPT !.controls[i].images = <<added.rel>>, !.controls[i].showing = FALSE]

PlacesOf(doc, tag) == {i \in PictureControls(doc) : doc.controls[i].tag = tag}

CanPlacePictures(doc, manifest, pictures) ==
  \A tag \in DOMAIN pictures : tag \in PictureTags(manifest) /\ Cardinality(PlacesOf(doc, tag)) = 1

OverlayNativeResponsePictures(doc, pictures) ==
  FoldSet(LAMBDA tag, to : PicturePlaced(to, CHOOSE i \in PlacesOf(to, tag) : TRUE, pictures[tag]),
          doc, DOMAIN pictures)

NativeResponseDocument(doc, manifest, data, pictures) ==
  OverlayNativeResponsePictures(OverlayNativeResponseDocument(doc, manifest, data, ScalarTags(manifest)), pictures)

\* The files that come with a native save.
NativeResponsePictures(manifest, pictures) ==
  \A tag \in DOMAIN pictures : tag \in PictureTags(manifest) /\ ValidMedia(pictures[tag], manifest[tag].limits)

\* The values that the native editor starts from.
NativeValues(manifest, data) ==
  [tag \in ScalarTags(manifest) |->
     LET value == ValueOf(data, tag) IN
     CASE manifest[tag].type = "checkbox" -> IF value = True THEN True ELSE False
       [] manifest[tag].type \in {"dropdown", "combo"} -> IF IsText(value) THEN value ELSE Null
       [] manifest[tag].type = "date" -> IF IsText(value) /\ value # <<>> THEN value ELSE Null
       [] manifest[tag].type = "text" -> IF IsText(value) THEN value ELSE <<>>]

---------------------------------------------------------------------------
(* The document editor and its plugin *)

\* Other values that the tag element of a control carries, in documents of other programs,
\* reach the plugin in place of the tag.  The server says which of them name which field.
AliasTags(doc, alias) ==
  {doc.controls[i].tag : i \in {j \in DOMAIN doc.controls :
     doc.controls[j].part \in ReachableParts(doc) /\ alias \in doc.controls[j].others \ {doc.controls[j].tag}}}

TagAliases(doc) ==
  LET aliases == UNION {doc.controls[i].others : i \in DOMAIN doc.controls}
      tags == {doc.controls[i].tag : i \in DOMAIN doc.controls}
  IN  {alias \in aliases \ tags : Cardinality(AliasTags(doc, alias)) = 1}

FieldTag(published, c) ==
  LET received == IF c.others = {} THEN c.tag ELSE CHOOSE other \in c.others : TRUE
  IN  IF received \in TagAliases(published) THEN CHOOSE tag \in AliasTags(published, received) : TRUE ELSE received

\* The plugin passes over pictures.
Scalars(doc) == {i \in Read(doc) : Type(doc.controls[i]) # "picture"}

\* The editor shows a date in the format and the calendar of its control.
EditorDisplay(c, text) ==
  IF text \in IsoDates /\ c.format # <<>> THEN Masked(InCalendar(c, DateOfIso(text)), c.format) ELSE text

ShowText(c, text) == [c EXCEPT !.content = Fresh(text, c.block), !.showing = FALSE]
Cleared(c) == [c EXCEPT !.content = Fresh(<<"?">>, c.block), !.showing = TRUE, !.state = Null]
Checked(c, value) == [c EXCEPT !.content = Fresh(Glyph(c, value), c.block), !.showing = FALSE, !.state = value]
Dated(c, text) == [ShowText(c, EditorDisplay(c, text)) EXCEPT !.state = text]
Selected(c, option) == [ShowText(c, option.displayText) EXCEPT !.state = option.value]
Typed(c, text) == [ShowText(c, text) EXCEPT !.state = Null]

\* A dropdown without the option stays as it is.
SetControlValue(c, value) ==
  LET items == Valued(c, value) IN
  CASE Type(c) = "checkbox" -> Checked(c, IF value = True THEN True ELSE False)
    [] Type(c) = "date" -> IF IsText(value) /\ value # <<>> THEN Dated(c, value) ELSE Cleared(c)
    [] IsList(c) /\ items # {} -> Selected(c, c.options[Min(items)])
    [] Type(c) = "combo" /\ items = {} /\ IsText(value) -> Typed(c, value)
    [] Type(c) = "text" -> IF IsText(value) THEN Typed(c, value) ELSE Cleared(c)
    [] OTHER -> c

ApplyPrefill(published, doc, values, locked) ==
  [doc EXCEPT !.controls = [i \in DOMAIN doc.controls |->
     LET c == doc.controls[i]
         tag == FieldTag(published, c)
     IN  IF i \in Scalars(doc) /\ tag \in DOMAIN values
         THEN [SetControlValue(c, values[tag]) EXCEPT !.locked = tag \in locked] ELSE c]]

\* At most ten characters of a date that the editor gives as text: how many a part of it has, and
\* how many there are up to each.
Width(part) ==
  CASE part \in {"2024", "2025", "2567", "2568"} -> 4
    [] part \in {"01", "02", "03", "04", "24", "25", "67", "68"} -> 2
    [] part \in {Months.short[m] : m \in DOMAIN Months.short} -> 3
    [] part \in {Months.long[m] : m \in DOMAIN Months.long} -> IF part = "March" THEN 5 ELSE IF part = "January" THEN 7 ELSE 8
    [] OTHER -> 1
Chars(text) ==
  LET chars[n \in 0..Len(text)] == IF n = 0 THEN 0 ELSE chars[n - 1] + Width(text[n])
  IN  chars
FormatDate(text) == SubSeq(text, 1, Max({k \in 0..Len(text) : Chars(text)[k] <= 10}))

\* How a reading of the document went: of one control the text may be missed, or it is not listed
\* at all, and dates come as dates or as text.
Readings(doc) ==
  LET texts == {i \in Scalars(doc) : Type(doc.controls[i]) \notin {"checkbox", "date"} /\ Trim(Shown(doc.controls[i])) # <<>>}
  IN  [missed : texts, unlisted : {0}, dates : {TRUE}]
        \cup [missed : {0}, unlisted : {0} \cup Scalars(doc), dates : {TRUE}]
        \cup [missed : {0}, unlisted : {0}, dates : {FALSE}]

ReadControl(c, missed, dates) ==
  CASE Type(c) = "checkbox" -> IF c.state = True THEN True ELSE False
    [] Type(c) = "date" -> (CASE c.state = Null -> Null
                              [] c.state # Null /\ dates -> c.state
                              [] OTHER -> FormatDate(Shown(c)))
    [] OTHER -> IF missed THEN <<>> ELSE Trim(Shown(c))

Listed(doc, reading) == Scalars(doc) \ {reading.unlisted}

\* Of controls with one tag the last one counts.
ExtractedData(published, doc, reading) ==
  [tag \in {FieldTag(published, doc.controls[i]) : i \in Listed(doc, reading)} |->
     LET i == Max({j \in Listed(doc, reading) : FieldTag(published, doc.controls[j]) = tag})
     IN  ReadControl(doc.controls[i], reading.missed = i, reading.dates)]

ExtractedDates(published, doc, reading) ==
  LET dates == SetToSortSeq({i \in Listed(doc, reading) :
                 /\ Type(doc.controls[i]) = "date"
                 /\ ReadControl(doc.controls[i], FALSE, reading.dates) \in IsoDates}, <)
  IN  [k \in DOMAIN dates |-> FieldTag(published, doc.controls[dates[k]])]

---------------------------------------------------------------------------
(* Reading a saved document again *)

\* Tags are taken as they are here: of a control with white space around its tag nothing is found.
ResponseTextControlValues(doc) ==
  LET found == {i \in Read(doc) : ~doc.controls[i].showing /\ ~doc.controls[i].padded}
  IN  [tag \in {doc.controls[i].tag : i \in found} |->
         VisibleText(doc.controls[Max({i \in found : doc.controls[i].tag = tag})].content)]

DataReadAgain(doc, manifest, data, empties, held) ==
  LET texts == ResponseTextControlValues(doc) IN
  [tag \in DOMAIN data |->
     IF tag \in (empties \ held) \cap DOMAIN texts
     THEN LET value == NormalizeDisplayValue(FieldControl(doc, tag), manifest[tag], texts[tag])
          IN  IF ManifestFieldValueMatches(manifest[tag], value) THEN value ELSE data[tag]
     ELSE data[tag]]

---------------------------------------------------------------------------
(* Documents that a Form may be published with *)

A == <<"a">>
AB == <<"a", NewLine, "b">>
Red  == [displayText |-> <<"Red">>, value |-> <<"r">>]
Nil  == [displayText |-> <<"none">>, value |-> <<>>]
Filled(tag, content) == [Control(tag) EXCEPT !.content = content, !.showing = FALSE]
Required(c) == [c EXCEPT !.required = TRUE]
List(tag, type, options) == [Control(tag) EXCEPT !.markers = <<type>>, !.options = options]
Picture(tag) == [Control(tag) EXCEPT !.markers = <<"picture">>, !.content = <<>>]
Day(tag, format) == [Control(tag) EXCEPT !.markers = <<"date">>, !.format = format]
Check(tag) == [Control(tag) EXCEPT !.markers = <<"checkbox">>, !.content = <<T(<<"[ ]">>)>>, !.showing = FALSE]
InAlternate(c, choice) == [c EXCEPT !.alternate = 1, !.choice = choice]
Holding(tag) == [Picture(tag) EXCEPT !.images = <<1>>, !.showing = FALSE]
WithImage(doc) == [doc EXCEPT !.media = <<[image |-> "red", own |-> TRUE]>>, !.rels["document"] = <<1>>]
With(doc, requires) == [doc EXCEPT !.requires = <<requires>>]

Usual == <<"dd", "/", "MM", "/", "yyyy">>

TemplateDocuments ==
  [notes    |-> Document(<<Required([Filled("note", <<P, T(A), Br, T(A), P, T(<<"c">>)>>) EXCEPT !.block = TRUE]),
                           Filled("line", <<T(A), TabNode, T(<<"b">>)>>)>>),
   padded   |-> Document(<<[Control("note") EXCEPT !.padded = TRUE], [Control("head") EXCEPT !.part = "header"],
                           [Control("lost") EXCEPT !.part = "orphan"]>>),
   lists    |-> Document(<<List("one", "dropdown", <<Red, Nil>>), Required(List("any", "combo", <<Red>>))>>),
   blank    |-> Document(<<Required(List("one", "dropdown", <<Red, Nil>>)), Required(Check("agreed"))>>),
   days     |-> Document(<<Required(Day("day", Usual)), Day("long", <<"d", " ", "MMMM", " ", "yyyy">>)>>),
   loose    |-> Document(<<Day("day", <<>>), Day("short", <<"d", "-", "MMM", "-", "yy">>)>>),
   thai     |-> Document(<<[Day("day", Usual) EXCEPT !.calendar = "thai"], Check("agreed")>>),
   checks   |-> Document(<<[Check("plain") EXCEPT !.unchecked = "[x]", !.content = <<T(<<"[x]">>)>>], Required(Check("agreed"))>>),
   pictures |-> Document(<<Required(Picture("p")), Picture("q")>>),
   apart    |-> WithImage(Document(<<Holding("p"), [Picture("q") EXCEPT !.part = "header"]>>)),
   copied   |-> WithImage(Document(<<Holding("p"), Holding("q")>>)),
   named    |-> Document(<<[Control("note") EXCEPT !.others = {"alias"}], Check("plain")>>),
   twice    |-> Document(<<[Control("note") EXCEPT !.others = {"alias"}],
                           [Control("line") EXCEPT !.others = {"alias"}]>>),
   nested   |-> Document(<<[Check("plain") EXCEPT !.nested = TRUE], Control("note")>>),
   chosen   |-> With(Document(<<InAlternate(Control("note"), 1), InAlternate(Control("other"), 0), Check("plain")>>),
                     <<TRUE>>),
   fallback |-> With(Document(<<InAlternate(Control("note"), 1), InAlternate(Control("note"), 0)>>), <<TRUE>>),
   second   |-> With(Document(<<InAlternate(Control("note"), 2)>>), <<TRUE, TRUE>>),
   same     |-> Document(<<Control("note"), Control("note")>>),
   untagged |-> Document(<<Control("")>>),
   retagged |-> Document(<<[Control("note") EXCEPT !.tags = 2]>>),
   mixed    |-> Document(<<[Control("note") EXCEPT !.markers = <<"date", "text">>]>>),
   grouped  |-> Document(<<[Control("note") EXCEPT !.markers = <<"group">>]>>),
   empty    |-> Document(<<List("one", "dropdown", <<>>)>>),
   equal    |-> Document(<<List("one", "combo", <<Red, Red>>)>>),
   without  |-> Document(<<[Control("lost") EXCEPT !.part = "orphan"]>>)]

\* Values tried for a field, as they are stored.  A text that is locked or that is entered for a combo
\* box has no white space around it and is no label of another option: see README.
Samples(field) ==
  CASE field.type = "text" -> {AB, <<>>}
    [] field.type = "combo" -> Values(field) \cup {A}
    [] field.type = "dropdown" -> Values(field)
    [] field.type = "checkbox" -> {True, False}
    [] field.type = "date" -> {Iso([year |-> 2025, month |-> 3, day |-> 4])}
    [] OTHER -> {}

---------------------------------------------------------------------------
VARIABLES
  template,   \* the name of the published document, or None
  method,     \* how the Form is filled in
  snapshot,   \* the values of the Prefill the Response was started with, and which are locked
  response,   \* its state, stored document and data
  editor,     \* the document that is open in the editor
  operation,  \* the save that is in progress
  count

vars == <<template, method, snapshot, response, editor, operation, count>>

Published == TemplateDocuments[template]
Manifests == [name \in {other \in DOMAIN TemplateDocuments : ParseTemplateFields(TemplateDocuments[other])} |->
                Manifest(TemplateDocuments[name])]
Fields == Manifests[template]
NativeTemplates == {name \in DOMAIN Manifests : SupportsNativeTemplate(TemplateDocuments[name])}

NoDocument  == Document(<<>>)
NoSnapshot  == [values |-> NoData, locked |-> {}]
NoResponse  == [status |-> None, doc |-> NoDocument, data |-> NoData, saved |-> FALSE, placed |-> NoData, unread |-> {}]
NoEditor    == [mode |-> None, doc |-> NoDocument, placed |-> NoData]
NoOperation == [action |-> None, native |-> FALSE, data |-> NoData, doc |-> NoDocument, placed |-> NoData,
                empties |-> {}, held |-> {}, unread |-> {}]

Init ==
  /\ template = None
  /\ method = "onlyoffice"
  /\ snapshot = NoSnapshot
  /\ response = NoResponse
  /\ editor = NoEditor
  /\ operation = NoOperation
  /\ count = [edits |-> 0, saves |-> 0]

Publish(name) ==
  /\ template = None
  /\ name \in DOMAIN Manifests
  /\ template' = name
  /\ UNCHANGED <<method, snapshot, response, editor, operation, count>>

\* Responses are started with nothing, or with the value of one field.
Start(prefill) ==
  /\ template # None
  /\ response.status = None
  /\ \A tag \in DOMAIN prefill.values : /\ tag \in DOMAIN Fields
                                        /\ ManifestFieldValueMatches(Fields[tag], prefill.values[tag])
  /\ snapshot' = prefill
  /\ response' = [NoResponse EXCEPT !.status = "draft", !.doc = Published,
                                    !.placed = [tag \in PictureTags(Fields) |-> Pictured(Published, FieldControl(Published, tag))]]
  /\ UNCHANGED <<template, method, editor, operation, count>>

Prefills ==
  {NoSnapshot} \cup
  UNION {{[values |-> Only(tag, value), locked |-> locked] : locked \in {{}, {tag}},
            value \in (UNION {Samples(Fields[other]) : other \in DOMAIN Fields}) \ {<<>>}} : tag \in DOMAIN Fields}

\* An administrator changes how the Form is filled in.
SwitchFillMethod ==
  /\ response.status = "draft"
  /\ operation = NoOperation
  /\ editor = NoEditor
  /\ method' = IF method = "native" THEN "onlyoffice" ELSE "native"
  /\ method' = "native" => template \in NativeTemplates
  /\ UNCHANGED <<template, snapshot, response, editor, operation, count>>

---------------------------------------------------------------------------
(* In the document editor *)

\* What was last placed in each control of a document, and in the control of each field.
PlacedIn(doc, placed) ==
  [i \in DOMAIN doc.controls |-> IF doc.controls[i].tag \in DOMAIN placed THEN placed[doc.controls[i].tag] ELSE None]
PlacedOf(doc, placed) ==
  [tag \in PictureTags(Fields) |-> IF Tagged(doc, tag) = {} THEN None ELSE placed[CHOOSE i \in Tagged(doc, tag) : TRUE]]

LockedValues == [tag \in snapshot.locked |-> snapshot.values[tag]]

\* The page that fills in a Response applies its Prefill, and the editor of a correction its locked
\* values.  A draft is opened as it is.
OpenEditor(mode) ==
  /\ editor = NoEditor
  /\ operation = NoOperation
  /\ IF mode = "correction" THEN response.status = "submitted" ELSE response.status = "draft" /\ method = "onlyoffice"
  /\ editor' = [mode |-> mode, placed |-> PlacedIn(response.doc, response.placed),
                doc |-> CASE mode = "fill" -> ApplyPrefill(Published, response.doc, snapshot.values, snapshot.locked)
                          [] mode = "correction" -> ApplyPrefill(Published, response.doc, LockedValues, snapshot.locked)
                          [] mode = "draft" -> response.doc]
  /\ UNCHANGED <<template, method, snapshot, response, operation, count>>

\* The editor is closed, and what was not saved is lost.
CloseEditor ==
  /\ editor.mode # None
  /\ operation = NoOperation
  /\ editor' = NoEditor
  /\ UNCHANGED <<template, method, snapshot, response, operation, count>>

Editing ==
  /\ editor.mode # None
  /\ operation = NoOperation
  /\ count.edits < MaxEdits
  /\ count' = [count EXCEPT !.edits = @ + 1]
  /\ UNCHANGED <<template, method, snapshot, response, operation>>

\* What the user may make of a control.
Changed(c) ==
  CASE Type(c) = "text" -> {Typed(c, <<" ">> \o AB), Cleared(c),
                            [c EXCEPT !.content = IF c.block THEN <<P, T(A), P, TabNode>> ELSE <<T(A), TabNode, T(<<>>)>>,
                                      !.showing = FALSE]}
    [] Type(c) = "checkbox" -> {Checked(c, True), Checked(c, False)}
    [] Type(c) = "date" -> {Dated(c, text) : text \in IsoDates} \cup {Cleared(c)}
    [] Type(c) = "combo" -> {Selected(c, c.options[k]) : k \in DOMAIN c.options} \cup {Typed(c, A), Cleared(c)}
    [] Type(c) = "dropdown" -> {Selected(c, c.options[k]) : k \in DOMAIN c.options} \cup {Cleared(c)}
    [] OTHER -> {}

ChangeControl(i) ==
  /\ Editing
  /\ i \in Read(editor.doc)
  /\ ~editor.doc.controls[i].locked
  /\ \E c \in Changed(editor.doc.controls[i]) \ {editor.doc.controls[i]} : editor' = [editor EXCEPT !.doc.controls[i] = c]

DeleteControl(i) ==
  /\ Editing
  /\ i \in Read(editor.doc)
  /\ ~editor.doc.controls[i].locked
  /\ editor' = [editor EXCEPT !.doc.controls = RemoveAt(@, i), !.placed = RemoveAt(@, i)]

DuplicateControl(i) ==
  /\ Editing
  /\ i \in Read(editor.doc)
  /\ editor' = [editor EXCEPT !.doc.controls = Append(@, editor.doc.controls[i]),
                              !.placed = Append(@, editor.placed[i])]

InPicture(i, rel) == [editor.doc EXCEPT !.controls[i].images = <<rel>>, !.controls[i].showing = FALSE]

InsertPicture(i, image) ==
  /\ Editing
  /\ i \in PictureControls(editor.doc)
  /\ LET part == editor.doc.controls[i].part
         doc == InPicture(i, Len(editor.doc.rels[part]) + 1)
     IN  editor' = [editor EXCEPT
           !.doc = [doc EXCEPT !.media = Append(@, [image |-> image, own |-> FALSE]),
                               !.rels[part] = Append(@, Len(doc.media) + 1)],
           !.placed[i] = image]

RemovePicture(i) ==
  /\ Editing
  /\ i \in PictureControls(editor.doc)
  /\ editor' = [editor EXCEPT !.doc.controls[i].images = <<>>, !.doc.controls[i].showing = TRUE,
                              !.placed[i] = None]

\* The copy shows the medium through the same relationship, or through one of its own.
CopyPicture(i, j) ==
  LET c == editor.doc.controls[j]
      part == c.part
  IN  /\ Editing
      /\ {i, j} \subseteq PictureControls(editor.doc)
      /\ editor.doc.controls[i].part = part
      /\ c.images # <<>>
      /\ \E doc \in {InPicture(i, c.images[1]),
                     [InPicture(i, Len(editor.doc.rels[part]) + 1)
                        EXCEPT !.rels[part] = Append(@, editor.doc.rels[part][c.images[1]])]} :
           editor' = [editor EXCEPT !.doc = doc, !.placed[i] = editor.placed[j]]

---------------------------------------------------------------------------
(* Saves *)

CanSave ==
  /\ operation = NoOperation
  /\ count.saves < MaxSaves
  /\ count' = [count EXCEPT !.saves = @ + 1]
  /\ UNCHANGED <<template, method, snapshot>>

Submitting(action) == response' = [response EXCEPT !.status = IF action = "submit" THEN "submitting" ELSE @]

\* Texts of fields whose reading fails and that no later step finds.
Unread(reading, again) ==
  LET Lost(i) == \/ ~again
                 \/ i = reading.missed /\ editor.doc.controls[i].padded
  IN  {FieldTag(Published, editor.doc.controls[i]) : i \in {j \in {reading.missed, reading.unlisted} \ {0} : Lost(j)}}

\* A save of the document that is open.  The data of a correction complete those of the
\* Response, and the plugin does not say which dates it has read as such.  In a Form that is
\* filled in natively, a correction leaves the callback nothing to do.
RequestEditorSave(action, reading) ==
  LET correction == action = "save-correction"
      read     == ExtractedData(Published, editor.doc, reading)
      given    == IF correction THEN Override(read, response.data) ELSE read
      dates    == IF correction THEN <<>> ELSE ExtractedDates(Published, editor.doc, reading)
      supplied == Normalized(Published, given, dates)
      previous == IF correction THEN NoData ELSE response.data
      data     == MergedData(Published, previous, snapshot, supplied)
      further  == method = "onlyoffice"
  IN  /\ CanSave
      /\ editor.mode # None
      /\ correction <=> editor.mode = "correction"
      /\ ~correction => method = "onlyoffice" /\ response.status = "draft"
      /\ DOMAIN given \subseteq DOMAIN Fields
      /\ CanonicalDateFields(Fields, given, dates)
      /\ AcceptedData(Published, data, supplied, snapshot, action # "save-draft")
      /\ operation' = [action |-> action, native |-> FALSE, data |-> data, doc |-> editor.doc,
                       placed |-> PlacedOf(editor.doc, editor.placed),
                       empties |-> IF further THEN CallbackEmptyFieldTags(data, read) ELSE {},
                       held |-> IF further THEN ServerHeldFieldTags(data, read, snapshot) ELSE {},
                       unread |-> Unread(reading, further /\ template \in NativeTemplates)]
      /\ Submitting(action)
      /\ UNCHANGED editor

\* A save of values and pictures that were entered natively.  With picture fields the document
\* is written from the stored one before it is answered, without from the published one, later.
RequestNativeSave(action, changes, pictures) ==
  LET stored   == IF response.saved THEN response.data ELSE snapshot.values
      supplied == Override(changes, NativeValues(Fields, stored))
      data     == MergedData(Published, NoData, snapshot, supplied)
      doc      == NativeResponseDocument(response.doc, Fields, data, pictures)
  IN  /\ CanSave
      /\ method = "native"
      /\ response.status = "draft"
      /\ NativeResponsePictures(Fields, pictures)
      /\ AcceptedData(Published, data, supplied, snapshot, action = "submit")
      /\ PictureTags(Fields) # {} =>
           /\ CanOverlay(response.doc, Fields)
           /\ CanPlacePictures(response.doc, Fields, pictures)
           /\ ValidResponseDocument(doc, Fields, action = "submit")
      /\ operation' = [NoOperation EXCEPT !.action = action, !.native = TRUE, !.data = data,
                                          !.doc = IF PictureTags(Fields) # {} THEN doc ELSE NoDocument,
                                          !.placed = Override(pictures, response.placed)]
      /\ Submitting(action)
      /\ UNCHANGED editor

Completed(doc, data) ==
  /\ ValidResponseDocument(doc, Fields, operation.action # "save-draft")
  /\ response' = [status |-> IF operation.action = "save-draft" THEN "draft" ELSE "submitted",
                  doc |-> doc, data |-> data, saved |-> TRUE, placed |-> operation.placed, unread |-> operation.unread]
  /\ editor' = NoEditor
  /\ operation' = NoOperation
  /\ UNCHANGED <<template, method, snapshot, count>>

\* The document server delivers the document.
Callback ==
  /\ operation.action # None
  /\ ~operation.native
  /\ IF template \in NativeTemplates
     THEN LET data == DataReadAgain(operation.doc, Fields, operation.data, operation.empties, operation.held)
          IN  /\ CanOverlay(operation.doc, Fields)
              /\ Completed(OverlayNativeResponseDocument(operation.doc, Fields, data, operation.held), data)
     ELSE Completed(operation.doc, operation.data)

ProcessNative ==
  /\ operation.native
  /\ operation.doc = NoDocument => CanOverlay(Published, Fields)
  /\ Completed(IF operation.doc = NoDocument THEN NativeResponseDocument(Published, Fields, operation.data, NoData)
                                       ELSE operation.doc, operation.data)

\* A save that is refused later, or that fails for another reason.  The editor stays open.
Fail ==
  /\ operation.action # None
  /\ operation' = NoOperation
  /\ response' = [response EXCEPT !.status = IF @ = "submitting" THEN "draft" ELSE @]
  /\ UNCHANGED <<template, method, snapshot, editor, count>>

Edit ==
  \/ \E i \in DOMAIN editor.doc.controls : ChangeControl(i) \/ DeleteControl(i) \/ DuplicateControl(i) \/ RemovePicture(i)
  \/ \E i \in DOMAIN editor.doc.controls, image \in DOMAIN Images : InsertPicture(i, image)
  \/ \E i, j \in DOMAIN editor.doc.controls : CopyPicture(i, j)

\* At most one value and one picture change in a native save.
NativeChanges == {NoData} \cup UNION {{Only(tag, value) : value \in Samples(Fields[tag])} : tag \in ScalarTags(Fields)}
NativeUploads == {NoData} \cup {Only(tag, image) : tag \in PictureTags(Fields), image \in DOMAIN Images}

Next ==
  \/ \E name \in Templates : Publish(name)
  \/ template # None /\ \E prefill \in Prefills : Start(prefill)
  \/ SwitchFillMethod
  \/ \E mode \in {"fill", "draft", "correction"} : OpenEditor(mode)
  \/ CloseEditor
  \/ editor.mode # None /\ Edit
  \/ editor.mode # None /\ \E action \in {"save-draft", "submit", "save-correction"}, reading \in Readings(editor.doc) :
                              RequestEditorSave(action, reading)
  \/ method = "native" /\ \E action \in {"save-draft", "submit"}, changes \in NativeChanges, pictures \in NativeUploads :
                             RequestNativeSave(action, changes, pictures)
  \/ Callback
  \/ ProcessNative
  \/ Fail

Spec == Init /\ [][Next]_vars

---------------------------------------------------------------------------
(* Properties *)

Tells(c, field, value) ==
  /\ Trim(Shown(c)) = Trim(CASE field.type = "checkbox" -> Glyph(c, value)
                             [] field.type = "date" /\ IsText(value) -> EditorDisplay(c, value)
                             [] OTHER -> DisplayValue(c, field, value))
  /\ field.type = "checkbox" => (c.state = True <=> value = True)

\* Whatever was typed, prefilled, placed, copied, missed by the editor's plugin and read again or
\* written by the server: after a save the document that is stored shows the data that are stored
\* with it, field by field, and each picture field shows the picture that was last placed in it,
\* and no other.  Surrounding white space aside; texts that were missed where the callback cannot
\* look for them are excepted (see README).
DocumentTellsData ==
  response.saved =>
    /\ \A tag \in (DOMAIN response.data \cap ScalarTags(Fields)) \ response.unread :
         Tells(FieldControl(response.doc, tag), Fields[tag], response.data[tag])
    /\ \A tag \in PictureTags(Fields) : Pictured(response.doc, FieldControl(response.doc, tag)) = response.placed[tag]

\* The document of a submitted Response, as it is submitted and after each correction, shows an answer in
\* every required field, a checked box in every required checkbox and a picture in every required picture
\* field; it still has exactly the fields that were published, and its data are the locked values of the
\* Prefill, in whichever editor they were saved.
SubmittedComplete ==
  response.status = "submitted" =>
    /\ \A tag \in ScalarTags(Fields) \ response.unread : Fields[tag].required =>
         LET c == FieldControl(response.doc, tag) IN
         /\ Trim(Shown(c)) # <<>>
         /\ Fields[tag].type = "checkbox" => c.state = True
    /\ \A tag \in PictureTags(Fields) : Fields[tag].required =>
         Pictured(response.doc, FieldControl(response.doc, tag)) # None
    /\ \A tag \in snapshot.locked : response.data[tag] = snapshot.values[tag]
    /\ DOMAIN Manifest(response.doc) = DOMAIN Fields
=============================================================================
