---------------------------- MODULE DocumentsProofs ----------------------------
(***************************************************************************)
(* Proofs about Documents for any number of edits and saves: what a        *)
(* document that was saved says of the data that are stored with it, and   *)
(* what one that was submitted shows.                                      *)
(***************************************************************************)
EXTENDS DocumentControlsProofs

---------------------------------------------------------------------------
(* Data that the server writes into a document *)

\* The data of fields are valid.
ValidData(pub, data) == \A tag \in DOMAIN data : tag \in DOMAIN Manifest(pub) => Valid(Manifest(pub)[tag], data[tag])

\* A template that is filled in natively has no dates of other calendars.
LEMMA NativeDates ==
  ASSUME NEW pub, Sound(pub), ParseTemplateFields(pub), ~UnsupportedDates(pub),
         NEW c, GoodControl(pub, c), c.tag \in DOMAIN Manifest(pub), Type(c) = "date"
  PROVE  c.calendar = "gregorian"
<1> DEFINE d == FieldControl(pub, c.tag)
<1>1. Tagged(pub, c.tag) # {}
  BY DEF Manifest, Tagged
<1>2. PICK i \in Read(pub) : d = pub.controls[i]
  BY <1>1, TaggedOne
<1>3. GoodControl(pub, d) /\ d.tag = c.tag
  BY FieldOf
<1> HIDE DEF d
<1>4. SameField(c, d)
  BY <1>3, SameTag
<1>5. Type(pub.controls[i]) = "date" /\ pub.controls[i].calendar = c.calendar
  BY <1>2, <1>4 DEF SameField, Type
<1> QED BY <1>5 DEF UnsupportedDates

\* What a control tells, another one like it tells too.
LEMMA LikeTells ==
  ASSUME NEW c, NEW d, Like(d, c), NEW field, NEW value, Tells(c, field, value)
  PROVE  Tells(d, field, value)
<1>1. /\ d.format = c.format /\ d.calendar = c.calendar /\ d.checked = c.checked
      /\ d.unchecked = c.unchecked /\ d.content = c.content /\ d.showing = c.showing /\ d.state = c.state
  BY DEF Like, SameField
<1>2. Shown(d) = Shown(c)
  BY <1>1 DEF Shown
<1>3. /\ Glyph(d, value) = Glyph(c, value) /\ EditorDisplay(d, value) = EditorDisplay(c, value)
      /\ NativeDateDisplayValue(d, value) = NativeDateDisplayValue(c, value)
  BY <1>1 DEF Glyph, EditorDisplay, InCalendar, NativeDateDisplayValue
<1>4. DisplayValue(d, field, value) = DisplayValue(c, field, value)
  BY <1>3 DEF DisplayValue
<1> QED BY <1>1, <1>2, <1>3, <1>4 DEF Tells

\* Only the fields that are selected are written.
LEMMA OverlaidGood ==
  ASSUME NEW pub, Sound(pub), ParseTemplateFields(pub), ~UnsupportedDates(pub),
         NEW doc, GoodDocument(pub, doc), NEW data, ValidData(pub, data), NEW selected
  PROVE  LET new == Overlaid(doc, Manifest(pub), data, selected)
             written == selected \cap ScalarTags(Manifest(pub))
         IN  /\ GoodDocument(pub, new) /\ DOMAIN new.controls = DOMAIN doc.controls
             /\ new.links = doc.links /\ new.requires = doc.requires
             /\ \A i \in DOMAIN doc.controls : Follows(pub, new.controls[i], doc.controls[i])
             /\ \A i \in DOMAIN doc.controls : doc.controls[i].tag \notin written => new.controls[i] = doc.controls[i]
             /\ \A i \in Read(doc) : LET tag == doc.controls[i].tag IN
                  tag \in written =>
                    /\ Met(Manifest(pub)[tag], ValueOf(data, tag)) => Answers(new.controls[i])
                    /\ Tells(new.controls[i], Manifest(pub)[tag], ValueOf(data, tag))
<1> DEFINE M == Manifest(pub)
           written == selected \cap ScalarTags(M)
           own(i) == LET c == doc.controls[i] IN
                     IF i \in Read(doc) /\ c.tag \in written
                     THEN NativeFieldControl(c, M[c.tag], ValueOf(data, c.tag)) ELSE c
           new == Overlaid(doc, M, data, selected)
<1>1. new = [doc EXCEPT !.controls = [i \in DOMAIN doc.controls |-> own(i)]]
  BY Zenon DEF Overlaid
<1> HIDE DEF own, new
<1>2. DOMAIN doc = DocumentNames
  BY DEF GoodDocument
<1>3. /\ DOMAIN new = DocumentNames /\ new.links = doc.links /\ new.requires = doc.requires
      /\ new.controls = [i \in DOMAIN doc.controls |-> own(i)]
  BY <1>1, <1>2 DEF DocumentNames
<1>4. ASSUME NEW i \in DOMAIN doc.controls
      PROVE  LET tag == doc.controls[i].tag IN
             /\ Follows(pub, own(i), doc.controls[i])
             /\ tag \notin written => own(i) = doc.controls[i]
             /\ i \in Read(doc) /\ tag \in written =>
                  (Met(M[tag], ValueOf(data, tag)) => Answers(own(i))) /\ Tells(own(i), M[tag], ValueOf(data, tag))
  <2> DEFINE c == doc.controls[i]
             value == ValueOf(data, c.tag)
  <2>1. GoodControl(pub, c)
    BY GoodControls
  <2>2. CASE i \in Read(doc) /\ c.tag \in written
    <3>1. c.tag \in DOMAIN M /\ M[c.tag].type # "picture"
      BY <2>2 DEF ScalarTags, PictureTags
    <3>2. /\ GoodField(M[c.tag]) /\ M[c.tag].type = Type(c) /\ M[c.tag].options = c.options
          /\ Type(c) = "date" => c.calendar = "gregorian"
      BY <2>1, <3>1, FieldGood, FieldOfControl, NativeDates
    <3>3. Valid(M[c.tag], value)
      <4>1. CASE c.tag \in DOMAIN data
      <5>1. value = data[c.tag]
        BY <4>1 DEF ValueOf
      <5> QED BY <3>1, <4>1, <5>1, Zenon DEF ValidData
    <4>2. CASE c.tag \notin DOMAIN data
      BY <4>2, NullValid DEF ValueOf
    <4> QED BY <4>1, <4>2
    <3>4. own(i) = NativeFieldControl(c, M[c.tag], value)
      BY <2>2, Zenon DEF own
    <3> HIDE DEF M, value, c
    <3>5. Follows(pub, own(i), c) /\ (Met(M[c.tag], value) => Answers(own(i))) /\ Tells(own(i), M[c.tag], value)
      BY <2>1, <3>1, <3>2, <3>3, <3>4, NativeControlGood
    <3> QED BY <2>2, <3>5 DEF c, value
  <2>3. CASE ~(i \in Read(doc) /\ c.tag \in written)
    <3>1. own(i) = c
      BY <2>3 DEF own
    <3>2. Follows(pub, c, c)
      BY <2>1 DEF Follows, SameField
    <3> QED BY <2>3, <3>1, <3>2
  <2> QED BY <2>2, <2>3
<1>5. GoodDocument(pub, new)
  <2> DEFINE f == [i \in DOMAIN doc.controls |-> own(i)]
             n == Len(doc.controls)
  <2>1. n \in Nat /\ DOMAIN doc.controls = 1..n
    BY GoodControls
  <2> HIDE DEF n
  <2>2. \A i \in 1..n : GoodControl(pub, f[i])
    BY <1>4, <2>1 DEF Follows
  <2>3. new.controls = [i \in 1..n |-> f[i]]
    BY <1>3, <2>1
  <2> HIDE DEF f
  <2> QED BY <1>3, <2>1, <2>2, <2>3, DocumentGood
<1>6. DOMAIN new.controls = DOMAIN doc.controls /\ \A i \in DOMAIN doc.controls : new.controls[i] = own(i)
  BY <1>3
<1>7. \A i \in DOMAIN doc.controls : Follows(pub, new.controls[i], doc.controls[i])
  BY <1>4, <1>6
<1>8. \A i \in DOMAIN doc.controls : doc.controls[i].tag \notin written => new.controls[i] = doc.controls[i]
  BY <1>4, <1>6
<1>9. ASSUME NEW i \in Read(doc), doc.controls[i].tag \in written
      PROVE  LET tag == doc.controls[i].tag IN
             /\ Met(M[tag], ValueOf(data, tag)) => Answers(new.controls[i])
             /\ Tells(new.controls[i], M[tag], ValueOf(data, tag))
  BY <1>4, <1>6, <1>9 DEF Read
<1> QED BY <1>3, <1>5, <1>6, <1>7, <1>8, <1>9 DEF new

\* Documents with the same controls are read and flattened alike.
LEMMA SameReading ==
  ASSUME NEW doc, NEW new, new.links = doc.links, new.requires = doc.requires,
         DOMAIN new.controls = DOMAIN doc.controls,
         \A i \in DOMAIN doc.controls :
           /\ new.controls[i].tag = doc.controls[i].tag /\ new.controls[i].part = doc.controls[i].part
           /\ new.controls[i].alternate = doc.controls[i].alternate /\ new.controls[i].choice = doc.controls[i].choice,
         NEW fields
  PROVE  Read(new) = Read(doc) /\ (FlattenSupported(new, fields) <=> FlattenSupported(doc, fields))
<1>1. ReachableParts(new) = ReachableParts(doc)
  BY SameParts
<1>2. \A i \in DOMAIN doc.controls : InFallback(new.controls[i]) <=> InFallback(doc.controls[i])
  BY DEF InFallback
<1>3. Read(new) = Read(doc)
  BY <1>1, <1>2 DEF Read
<1>4. ASSUME NEW a PROVE ChoicesWith(new, fields, a) = ChoicesWith(doc, fields, a)
  BY DEF ChoicesWith
<1>5. FlattenSupported(new, fields) <=> FlattenSupported(doc, fields)
  BY <1>4 DEF FlattenSupported
<1> QED BY <1>3, <1>5

\* The document that the server writes: its answers, and what it leaves.
LEMMA OverlayWritten ==
  ASSUME NEW pub, Sound(pub), ParseTemplateFields(pub), ~UnsupportedDates(pub),
         NEW doc, GoodDocument(pub, doc), NEW data, ValidData(pub, data), NEW selected, FlattenSupported(doc, DOMAIN Manifest(pub))
  PROVE  LET new == OverlayNativeResponseDocument(doc, Manifest(pub), data, selected)
             written == selected \cap ScalarTags(Manifest(pub))
         IN  /\ GoodDocument(pub, new)
             /\ \A j \in Read(new) : LET tag == new.controls[j].tag IN
                  /\ Tagged(doc, tag) # {}
                  /\ tag \in written =>
                       /\ Met(Manifest(pub)[tag], ValueOf(data, tag)) => Answers(new.controls[j])
                       /\ Tells(new.controls[j], Manifest(pub)[tag], ValueOf(data, tag))
                  /\ tag \notin written => \E i \in Tagged(doc, tag) : Like(new.controls[j], doc.controls[i])
             /\ \A i \in Read(doc) : LET tag == doc.controls[i].tag IN
                  tag \in DOMAIN Manifest(pub) \ written => \E j \in Tagged(new, tag) : Like(new.controls[j], doc.controls[i])
<1> DEFINE M == Manifest(pub)
           written == selected \cap ScalarTags(M)
           over == Overlaid(doc, M, data, selected)
           new == OverlayNativeResponseDocument(doc, M, data, selected)
<1>1. /\ GoodDocument(pub, over) /\ DOMAIN over.controls = DOMAIN doc.controls
      /\ over.links = doc.links /\ over.requires = doc.requires
      /\ \A i \in DOMAIN doc.controls : Follows(pub, over.controls[i], doc.controls[i])
      /\ \A i \in DOMAIN doc.controls : doc.controls[i].tag \notin written => over.controls[i] = doc.controls[i]
      /\ \A i \in Read(doc) : LET tag == doc.controls[i].tag IN
           tag \in written =>
             /\ Met(M[tag], ValueOf(data, tag)) => Answers(over.controls[i])
             /\ Tells(over.controls[i], M[tag], ValueOf(data, tag))
  BY OverlaidGood
<1>2. new = Flatten(over, DOMAIN M)
  BY Zenon DEF OverlayNativeResponseDocument
<1> HIDE DEF over, new
<1>3. \A i \in DOMAIN doc.controls :
           /\ over.controls[i].tag = doc.controls[i].tag /\ over.controls[i].part = doc.controls[i].part
           /\ over.controls[i].alternate = doc.controls[i].alternate /\ over.controls[i].choice = doc.controls[i].choice
  BY <1>1 DEF Follows, SameField
<1>4. Read(over) = Read(doc) /\ FlattenSupported(over, DOMAIN M)
  BY <1>1, <1>3, SameReading
<1>5. GoodDocument(pub, new)
  BY <1>1, <1>2, FlattenGood
<1>6. /\ \A j \in Read(new) : \E i \in Read(over) : Like(new.controls[j], over.controls[i])
      /\ \A i \in Read(over) : over.controls[i].tag \in DOMAIN M => \E j \in Read(new) : Like(new.controls[j], over.controls[i])
  BY <1>1, <1>2, <1>4, FlattenRead
<1> HIDE DEF M, written
<1>7. ASSUME NEW j \in Read(new)
      PROVE  LET tag == new.controls[j].tag IN
             /\ Tagged(doc, tag) # {}
             /\ tag \in written =>
                  /\ Met(M[tag], ValueOf(data, tag)) => Answers(new.controls[j])
                  /\ Tells(new.controls[j], M[tag], ValueOf(data, tag))
             /\ tag \notin written => \E i \in Tagged(doc, tag) : Like(new.controls[j], doc.controls[i])
  <2>1. PICK i \in Read(doc) : Like(new.controls[j], over.controls[i])
    BY <1>4, <1>6
  <2>2. i \in DOMAIN doc.controls
    BY DEF Read
  <2>3. new.controls[j].tag = doc.controls[i].tag
    BY <1>3, <2>1, <2>2 DEF Like, SameField
  <2>4. Answers(over.controls[i]) => Answers(new.controls[j])
    BY <2>1 DEF Answers, Shows, Like
  <2>5. i \in Tagged(doc, new.controls[j].tag)
    BY <2>3 DEF Tagged
  <2> DEFINE tag == new.controls[j].tag
  <2>6. ASSUME tag \in written
        PROVE  /\ Met(M[tag], ValueOf(data, tag)) => Answers(new.controls[j])
               /\ Tells(new.controls[j], M[tag], ValueOf(data, tag))
    <3>1. /\ Met(M[tag], ValueOf(data, tag)) => Answers(over.controls[i])
          /\ Tells(over.controls[i], M[tag], ValueOf(data, tag))
      BY <1>1, <2>3, <2>6
    <3> QED BY <2>1, <2>4, <3>1, LikeTells
  <2>7. ASSUME tag \notin written PROVE Like(new.controls[j], doc.controls[i])
    <3>1. over.controls[i] = doc.controls[i]
      BY <1>1, <2>2, <2>3, <2>7
    <3> QED BY <2>1, <3>1
  <2> QED BY <2>5, <2>6, <2>7
<1>8. ASSUME NEW i \in Read(doc), doc.controls[i].tag \in DOMAIN M \ written
      PROVE  \E j \in Tagged(new, doc.controls[i].tag) : Like(new.controls[j], doc.controls[i])
  <2>1. i \in DOMAIN doc.controls
    BY DEF Read
  <2>2. over.controls[i] = doc.controls[i]
    BY <1>1, <1>8, <2>1
  <2>3. PICK j \in Read(new) : Like(new.controls[j], over.controls[i])
    BY <1>4, <1>6, <1>8, <2>2
  <2>4. j \in Tagged(new, doc.controls[i].tag)
    BY <2>2, <2>3 DEF Tagged, Like, SameField
  <2> QED BY <2>2, <2>3, <2>4
<1> QED BY <1>5, <1>7, <1>8 DEF new, M, written

---------------------------------------------------------------------------
(* Pictures that the server places *)

\* One document follows another: control by control, and only pictures differ.
Succeeds(pub, new, doc) ==
  /\ GoodDocument(pub, new) /\ DOMAIN new.controls = DOMAIN doc.controls
  /\ new.links = doc.links /\ new.requires = doc.requires
  /\ \A i \in DOMAIN doc.controls :
       /\ Follows(pub, new.controls[i], doc.controls[i])
       /\ Type(doc.controls[i]) # "picture" => Like(new.controls[i], doc.controls[i])

\* One picture is placed.
LEMMA PlacedGood ==
  ASSUME NEW pub, NEW doc, GoodDocument(pub, doc), NEW i, i \in DOMAIN doc.controls => Type(doc.controls[i]) = "picture",
         NEW image
  PROVE  Succeeds(pub, PicturePlaced(doc, i, image), doc)
<1> DEFINE added == AddNativePicturePackageParts(doc, doc.controls[i], image)
           rel == added.rel
           base == added.doc
           pictured(c) == [[c EXCEPT !.images = <<rel>>] EXCEPT !.showing = FALSE]
           new == PicturePlaced(doc, i, image)
<1>1. DOMAIN doc = DocumentNames
  BY DEF GoodDocument
<1>2. DOMAIN base = DocumentNames /\ base.links = doc.links /\ base.requires = doc.requires /\ base.controls = doc.controls
  <2> DEFINE c == doc.controls[i]
             same == [doc EXCEPT !.media[Media(doc, c)].image = image]
             more == [doc EXCEPT !.media = Append(@, [image |-> image, own |-> TRUE]),
                                 !.rels[c.part] = Append(@, Len(doc.media) + 1)]
  <2>1. base \in {same, more}
    BY DEF AddNativePicturePackageParts
  <2> HIDE DEF base
  <2>2. DOMAIN same = DocumentNames /\ same.links = doc.links /\ same.requires = doc.requires /\ same.controls = doc.controls
    BY <1>1 DEF DocumentNames
  <2>3. DOMAIN more = DocumentNames /\ more.links = doc.links /\ more.requires = doc.requires /\ more.controls = doc.controls
    BY <1>1 DEF DocumentNames
  <2> HIDE DEF same, more
  <2> QED BY <2>1, <2>2, <2>3
<1>3. new = [base EXCEPT !.controls[i].images = <<rel>>, !.controls[i].showing = FALSE]
  BY DEF PicturePlaced
<1> HIDE DEF base, rel, new, added
<1>4. /\ DOMAIN new = DocumentNames /\ new.links = doc.links /\ new.requires = doc.requires
      /\ DOMAIN new.controls = DOMAIN doc.controls
      /\ \A j \in DOMAIN doc.controls : j # i => new.controls[j] = doc.controls[j]
      /\ i \in DOMAIN doc.controls => new.controls[i] = pictured(doc.controls[i])
  BY <1>2, <1>3 DEF DocumentNames
<1>5. ASSUME NEW c, GoodControl(pub, c), Type(c) = "picture"
      PROVE  Follows(pub, pictured(c), c)
  <2> DEFINE d == pictured(c)
  <2>1. DOMAIN c = ControlNames /\ c.content \in Seq(Nodes) /\ c.state \in Texts
    BY <1>5 DEF GoodControl
  <2>2. DOMAIN d = ControlNames /\ d.showing = FALSE /\ \A n \in ControlNames \ {"images", "showing"} : d[n] = c[n]
    BY <2>1 DEF ControlNames
  <2> HIDE DEF pictured, d
  <2>3. d.content = c.content /\ d.state = c.state /\ d.markers = c.markers
    BY <2>2 DEF ControlNames
  <2>4. Shows(c) => Shows(d)
    BY <2>2, <2>3 DEF Shows
  <2>5. (Type(c) = "checkbox" /\ d.state = True) \/ (Type(c) = "date" /\ d.state # Null) => Shows(d)
    BY <1>5, <2>3, <2>4 DEF GoodControl
  <2>6. Exact(d)
    <3>1. Type(d) = "picture"
      BY <1>5, <2>3 DEF Type
    <3> QED BY <3>1 DEF Exact, IsList
  <2>7. Follows(pub, d, c)
    BY <1>5, <2>1, <2>2, <2>3, <2>5, <2>6, EditedGood DEF Follows
  <2> QED BY <2>7 DEF d
<1> HIDE DEF pictured
<1>6. ASSUME NEW j \in DOMAIN doc.controls
      PROVE  /\ Follows(pub, new.controls[j], doc.controls[j])
             /\ Type(doc.controls[j]) # "picture" => Like(new.controls[j], doc.controls[j])
  <2>1. GoodControl(pub, doc.controls[j])
    BY GoodControls
  <2>2. CASE j = i
    BY <1>4, <1>5, <2>1, <2>2
  <2>3. CASE j # i
    <3>1. new.controls[j] = doc.controls[j]
      BY <1>4, <2>3
    <3> QED BY <2>1, <3>1 DEF Follows, Like, SameField
  <2> QED BY <2>2, <2>3
<1>7. GoodDocument(pub, new)
  <2> DEFINE f == [j \in DOMAIN doc.controls |-> new.controls[j]]
             n == Len(doc.controls)
  <2>1. n \in Nat /\ DOMAIN doc.controls = 1..n
    BY GoodControls
  <2> HIDE DEF n
  <2>2. \A j \in 1..n : GoodControl(pub, f[j])
    BY <1>6, <2>1 DEF Follows
  <2>3. new.controls = [j \in 1..n |-> f[j]]
    <3>1. new.controls = [j \in DOMAIN new.controls |-> new.controls[j]]
      <4>1. CASE i \in DOMAIN doc.controls
        BY <1>2, <1>3, <1>4 DEF DocumentNames
      <4>2. CASE i \notin DOMAIN doc.controls
        BY <1>2, <1>3, <1>4 DEF DocumentNames
      <4> QED BY <4>1, <4>2
    <3> QED BY <1>4, <2>1, <3>1
  <2> HIDE DEF f
  <2> QED BY <1>4, <2>1, <2>2, <2>3, DocumentGood
<1> QED BY <1>4, <1>6, <1>7 DEF Succeeds, new

\* None is.
LEMMA SucceedsItself ==
  ASSUME NEW pub, NEW doc, GoodDocument(pub, doc)
  PROVE  Succeeds(pub, doc, doc)
<1>1. \A i \in DOMAIN doc.controls : GoodControl(pub, doc.controls[i])
  BY GoodControls
<1> QED BY <1>1 DEF Succeeds, Follows, Like, SameField

\* At most one picture is placed.
LEMMA PlacedOne ==
  ASSUME NEW doc, NEW pictures, NEW tag, DOMAIN pictures \subseteq {tag}
  PROVE  OverlayNativeResponsePictures(doc, pictures)
           = IF DOMAIN pictures = {} THEN doc
             ELSE PicturePlaced(doc, CHOOSE i \in PlacesOf(doc, tag) : TRUE, pictures[tag])
<1> DEFINE place(t, to) == PicturePlaced(to, CHOOSE i \in PlacesOf(to, t) : TRUE, pictures[t])
           S == DOMAIN pictures
           g == [s \in SUBSET S |-> IF s = {} THEN doc ELSE place(tag, doc)]
           Is(f) == f = [s \in SUBSET S |-> IF s = {} THEN doc ELSE place(CHOOSE x \in s : TRUE, f[s \ {CHOOSE x \in s : TRUE}])]
           f == CHOOSE h : Is(h)
<1>1. OverlayNativeResponsePictures(doc, pictures) = f[S]
  BY Zenon DEF OverlayNativeResponsePictures, FoldSet, MapThenFoldSet
<1>2. Is(g)
  <2>1. ASSUME NEW s \in SUBSET S, s # {} PROVE (CHOOSE x \in s : TRUE) = tag /\ s \ {tag} = {}
    BY <2>1
  <2> HIDE DEF place
  <2>2. ASSUME NEW s \in SUBSET S, s # {}
        PROVE  place(tag, doc) = place(CHOOSE x \in s : TRUE, g[s \ {CHOOSE x \in s : TRUE}])
    BY <2>1, <2>2
  <2> QED BY <2>2
<1>3. Is(f)
  BY <1>2, Zenon
<1>0. S = {} \/ S = {tag}
  OBVIOUS
<1> DEFINE i == CHOOSE j \in PlacesOf(doc, tag) : TRUE
<1>4. f[S] = IF S = {} THEN doc ELSE PicturePlaced(doc, i, pictures[tag])
  <2> HIDE DEF f, g
  <2>1. f[{}] = doc
    BY <1>3
  <2>2. CASE S = {}
    BY <2>1, <2>2
  <2>3. CASE S = {tag}
    <3> DEFINE one == CHOOSE x \in S : TRUE
    <3>1. one = tag /\ S \ {one} = {}
      BY <2>3
    <3> HIDE DEF place, one
    <3>2. f[S] = place(one, f[S \ {one}])
      BY <1>3, <2>3, Zenon DEF one
    <3>3. f[S] = place(tag, doc)
      BY <2>1, <3>1, <3>2
    <3> QED BY <2>3, <3>3 DEF place
  <2> QED BY <1>0, <2>2, <2>3
<1> HIDE DEF f
<1> QED BY <1>1, <1>4

\* A file that is placed in its picture control leaves the other controls as they are.
LEMMA PicturesGood ==
  ASSUME NEW pub, NEW doc, GoodDocument(pub, doc), NEW pictures, NEW tag, DOMAIN pictures \subseteq {tag},
         DOMAIN pictures # {} => PlacesOf(doc, tag) # {}
  PROVE  Succeeds(pub, OverlayNativeResponsePictures(doc, pictures), doc)
<1> DEFINE i == CHOOSE j \in PlacesOf(doc, tag) : TRUE
<1>1. DOMAIN pictures # {} => Type(doc.controls[i]) = "picture"
  BY DEF PlacesOf, PictureControls
<1>2. OverlayNativeResponsePictures(doc, pictures) = IF DOMAIN pictures = {} THEN doc ELSE PicturePlaced(doc, i, pictures[tag])
  BY PlacedOne
<1> HIDE DEF i
<1> QED BY <1>1, <1>2, PlacedGood, SucceedsItself

\* A picture control is still there after its document was written.
LEMMA PlacesWritten ==
  ASSUME NEW pub, Sound(pub), ParseTemplateFields(pub), ~UnsupportedDates(pub),
         NEW doc, GoodDocument(pub, doc), NEW data, ValidData(pub, data), NEW selected,
         FlattenSupported(doc, DOMAIN Manifest(pub)),
         NEW tag \in PictureTags(Manifest(pub)), PlacesOf(doc, tag) # {}
  PROVE  PlacesOf(OverlayNativeResponseDocument(doc, Manifest(pub), data, selected), tag) # {}
<1> DEFINE M == Manifest(pub)
           new == OverlayNativeResponseDocument(doc, M, data, selected)
<1>1. tag \in DOMAIN M \ (selected \cap ScalarTags(M))
  BY DEF PictureTags, ScalarTags
<1>2. PICK i \in Read(doc) : doc.controls[i].tag = tag /\ Type(doc.controls[i]) = "picture"
  BY DEF PlacesOf, PictureControls
<1>3. \A k \in Read(doc) : LET t == doc.controls[k].tag IN
        t \in DOMAIN M \ (selected \cap ScalarTags(M)) => \E j \in Tagged(new, t) : Like(new.controls[j], doc.controls[k])
  BY OverlayWritten
<1> HIDE DEF new, M
<1>4. PICK j \in Tagged(new, tag) : Like(new.controls[j], doc.controls[i])
  BY <1>1, <1>2, <1>3
<1>5. j \in PlacesOf(new, tag)
  BY <1>2, <1>4 DEF Tagged, PlacesOf, PictureControls, Like
<1> QED BY <1>5 DEF new, M

\* A document that is written as a whole.
LEMMA NativeWritten ==
  ASSUME NEW pub, Sound(pub), ParseTemplateFields(pub), ~UnsupportedDates(pub), NEW doc, GoodDocument(pub, doc),
         NEW data, ValidData(pub, data), FlattenSupported(doc, DOMAIN Manifest(pub)),
         NEW pictures, NEW picture, DOMAIN pictures \subseteq {picture},
         DOMAIN pictures # {} => picture \in PictureTags(Manifest(pub)) /\ PlacesOf(doc, picture) # {}
  PROVE  LET new == NativeResponseDocument(doc, Manifest(pub), data, pictures) IN
         /\ GoodDocument(pub, new)
         /\ \A tag \in ScalarTags(Manifest(pub)) : \A j \in Tagged(new, tag) :
              /\ Met(Manifest(pub)[tag], ValueOf(data, tag)) => Answers(new.controls[j])
              /\ Tells(new.controls[j], Manifest(pub)[tag], ValueOf(data, tag))
<1> DEFINE M == Manifest(pub)
           over == OverlayNativeResponseDocument(doc, M, data, ScalarTags(M))
           new == OverlayNativeResponsePictures(over, pictures)
<1>1. /\ GoodDocument(pub, over)
      /\ \A j \in Read(over) : LET tag == over.controls[j].tag IN
           tag \in ScalarTags(M) =>
             /\ Met(M[tag], ValueOf(data, tag)) => Answers(over.controls[j])
             /\ Tells(over.controls[j], M[tag], ValueOf(data, tag))
  BY OverlayWritten
<1>0. DOMAIN pictures # {} => PlacesOf(over, picture) # {}
  BY PlacesWritten
<1> HIDE DEF over
<1>2. Succeeds(pub, new, over)
  BY <1>0, <1>1, PicturesGood
<1>3. NativeResponseDocument(doc, M, data, pictures) = new
  BY Zenon DEF NativeResponseDocument, over
<1> HIDE DEF new
<1>4. /\ GoodDocument(pub, new) /\ DOMAIN new.controls = DOMAIN over.controls
      /\ new.links = over.links /\ new.requires = over.requires
      /\ \A i \in DOMAIN over.controls :
           /\ new.controls[i].tag = over.controls[i].tag /\ new.controls[i].part = over.controls[i].part
           /\ new.controls[i].alternate = over.controls[i].alternate /\ new.controls[i].choice = over.controls[i].choice
           /\ GoodControl(pub, over.controls[i])
           /\ Type(over.controls[i]) # "picture" => Like(new.controls[i], over.controls[i])
  BY <1>1, <1>2, GoodControls DEF Succeeds, Follows, SameField
<1>5. Read(new) = Read(over)
  BY <1>4, SameReading
<1>6. ASSUME NEW tag \in ScalarTags(M), NEW j \in Tagged(new, tag)
      PROVE  /\ Met(M[tag], ValueOf(data, tag)) => Answers(new.controls[j])
             /\ Tells(new.controls[j], M[tag], ValueOf(data, tag))
  <2>1. j \in Read(over) /\ j \in DOMAIN over.controls /\ over.controls[j].tag = tag
    BY <1>4, <1>5 DEF Tagged, Read
  <2>2. Type(over.controls[j]) # "picture"
    <3>1. tag \in DOMAIN M /\ M[tag].type # "picture"
      BY DEF ScalarTags, PictureTags
    <3> QED BY <1>4, <2>1, <3>1, FieldOfControl
  <2>3. Like(new.controls[j], over.controls[j])
    BY <1>4, <2>1, <2>2
  <2>4. /\ Met(M[tag], ValueOf(data, tag)) => Answers(over.controls[j])
        /\ Tells(over.controls[j], M[tag], ValueOf(data, tag))
    BY <1>1, <2>1
  <2>5. Answers(over.controls[j]) => Answers(new.controls[j])
    BY <2>3 DEF Answers, Shows, Like
  <2> HIDE DEF M
  <2> QED BY <2>3, <2>4, <2>5, LikeTells
<1> QED BY <1>3, <1>4, <1>6 DEF M

---------------------------------------------------------------------------
(* The data of a save *)

\* Which of two values a tag has.
LEMMA Overridden ==
  ASSUME NEW f, NEW g
  PROVE  /\ \A x : x \in DOMAIN Override(f, g) <=> x \in DOMAIN f \/ x \in DOMAIN g
         /\ \A x \in DOMAIN f : Override(f, g)[x] = f[x]
         /\ \A x \in DOMAIN g \ DOMAIN f : Override(f, g)[x] = g[x]
  BY DEF Override

\* Locked values come first, then what was supplied.
LEMMA MergedValues ==
  ASSUME NEW pub, NEW previous, NEW snap, NEW supplied
  PROVE  LET data == MergedData(pub, previous, snap, supplied) IN
         \A tag :
           /\ tag \in DOMAIN data <=> /\ tag \in snap.locked \/ tag \in DOMAIN supplied \/ tag \in DOMAIN previous
                                      /\ tag \notin PictureTags(Manifest(pub))
           /\ tag \in DOMAIN data =>
                data[tag] = IF tag \in snap.locked THEN snap.values[tag]
                            ELSE IF tag \in DOMAIN supplied THEN supplied[tag] ELSE previous[tag]
<1> DEFINE locked == [tag \in snap.locked |-> snap.values[tag]]
           rest == Override(supplied, previous)
           all == Override(locked, rest)
           data == MergedData(pub, previous, snap, supplied)
<1>1. data = Restrict(all, DOMAIN all \ PictureTags(Manifest(pub)))
  BY Zenon DEF MergedData
<1>2. DOMAIN data = DOMAIN all \ PictureTags(Manifest(pub)) /\ \A tag \in DOMAIN data : data[tag] = all[tag]
  BY <1>1, Zenon DEF Restrict
<1>3. /\ \A x : x \in DOMAIN rest <=> x \in DOMAIN supplied \/ x \in DOMAIN previous
      /\ \A x \in DOMAIN supplied : rest[x] = supplied[x]
      /\ \A x \in DOMAIN previous \ DOMAIN supplied : rest[x] = previous[x]
  BY Overridden
<1>4. DOMAIN locked = snap.locked /\ \A x \in snap.locked : locked[x] = snap.values[x]
  OBVIOUS
<1> HIDE DEF rest, locked
<1>5. /\ \A x : x \in DOMAIN all <=> x \in DOMAIN locked \/ x \in DOMAIN rest
      /\ \A x \in DOMAIN locked : all[x] = locked[x]
      /\ \A x \in DOMAIN rest \ DOMAIN locked : all[x] = rest[x]
  BY Overridden
<1> HIDE DEF all, data
<1>6. \A tag : tag \in DOMAIN data <=> /\ tag \in snap.locked \/ tag \in DOMAIN supplied \/ tag \in DOMAIN previous
                                       /\ tag \notin PictureTags(Manifest(pub))
  BY <1>2, <1>3, <1>4, <1>5
<1>7. ASSUME NEW tag \in DOMAIN data
      PROVE  data[tag] = IF tag \in snap.locked THEN snap.values[tag]
                         ELSE IF tag \in DOMAIN supplied THEN supplied[tag] ELSE previous[tag]
  BY <1>2, <1>3, <1>4, <1>5
<1> QED BY <1>6, <1>7 DEF data

\* What the plugin reads of a field is what it reads of one of its controls.
LEMMA ReadOf ==
  ASSUME NEW pub, NEW doc, GoodDocument(pub, doc), NEW reading, NEW tag \in DOMAIN ExtractedData(pub, doc, reading)
  PROVE  \E i \in Listed(doc, reading) :
           /\ FieldTag(pub, doc.controls[i]) = tag
           /\ ExtractedData(pub, doc, reading)[tag] = ReadControl(doc.controls[i], reading.missed = i, reading.dates)
<1> DEFINE all == {j \in Listed(doc, reading) : FieldTag(pub, doc.controls[j]) = tag}
           i == Max(all)
           read == ExtractedData(pub, doc, reading)
<1>1. Len(doc.controls) \in Nat /\ DOMAIN doc.controls = 1..Len(doc.controls)
  BY GoodControls
<1>2. Listed(doc, reading) \subseteq 1..Len(doc.controls)
  BY <1>1 DEF Listed, Scalars, Read
<1>3. all \in SUBSET (0..Len(doc.controls))
  BY <1>1, <1>2
<1>4. tag \in {FieldTag(pub, doc.controls[j]) : j \in Listed(doc, reading)}
  BY DEF ExtractedData
<1>5. all # {}
  BY <1>4
<1>6. read[tag] = ReadControl(doc.controls[i], reading.missed = i, reading.dates)
  BY <1>4 DEF ExtractedData
<1> HIDE DEF all, read
<1>7. i \in all
  BY <1>1, <1>3, <1>5, MaxIn
<1> QED BY <1>6, <1>7 DEF all, read

\* Which controls it reads.
LEMMA ListedGood ==
  ASSUME NEW pub, NEW doc, GoodDocument(pub, doc), NEW reading, NEW i \in Listed(doc, reading)
  PROVE  /\ i \in Read(doc) /\ i \in DOMAIN doc.controls /\ i # reading.unlisted
         /\ GoodControl(pub, doc.controls[i]) /\ Type(doc.controls[i]) # "picture"
<1>1. i \in Read(doc) /\ i \in DOMAIN doc.controls /\ i # reading.unlisted /\ Type(doc.controls[i]) # "picture"
  BY DEF Listed, Scalars, Read
<1> QED BY <1>1, GoodControls

\* The Prefill that a Response is started with.
SnapGood(pub, snap) ==
  /\ snap.locked \subseteq DOMAIN snap.values /\ DOMAIN snap.values \subseteq DOMAIN Manifest(pub)
  /\ \A tag \in DOMAIN snap.values : LET field == Manifest(pub)[tag] IN
       Valid(field, snap.values[tag]) /\ ManifestFieldValueMatches(field, snap.values[tag])

\* Locked values are in the data.
LEMMA LockedMerged ==
  ASSUME NEW pub, NEW snap, SnapGood(pub, snap), NEW previous, NEW supplied
  PROVE  LET data == MergedData(pub, previous, snap, supplied) IN
         \A tag \in snap.locked : tag \in DOMAIN data /\ data[tag] = snap.values[tag]
<1> DEFINE data == MergedData(pub, previous, snap, supplied)
<1>1. \A tag :
        /\ tag \in DOMAIN data <=> /\ tag \in snap.locked \/ tag \in DOMAIN supplied \/ tag \in DOMAIN previous
                                   /\ tag \notin PictureTags(Manifest(pub))
        /\ tag \in DOMAIN data =>
             data[tag] = IF tag \in snap.locked THEN snap.values[tag]
                         ELSE IF tag \in DOMAIN supplied THEN supplied[tag] ELSE previous[tag]
  BY MergedValues
<1> HIDE DEF data
<1>2. ASSUME NEW tag \in snap.locked PROVE tag \in DOMAIN data /\ data[tag] = snap.values[tag]
  <2>1. tag \in DOMAIN snap.values
    BY DEF SnapGood
  <2>2. ManifestFieldValueMatches(Manifest(pub)[tag], snap.values[tag])
    BY <2>1 DEF SnapGood
  <2>3. tag \notin PictureTags(Manifest(pub))
    <3> SUFFICES ASSUME Manifest(pub)[tag].type = "picture" PROVE FALSE
      BY DEF PictureTags
    <3> QED BY <2>2 DEF ManifestFieldValueMatches
  <2>4. tag \in DOMAIN data
    BY <1>1, <2>3
  <2> QED BY <1>1, <2>4
<1> QED BY <1>2 DEF data

\* Accepted data are valid, where what they are made of is.
LEMMA AcceptedValid ==
  ASSUME NEW pub, NEW snap, SnapGood(pub, snap), NEW previous, ValidData(pub, previous), NEW supplied, NEW required,
         AcceptedData(pub, MergedData(pub, previous, snap, supplied), supplied, snap, required),
         \A tag \in DOMAIN supplied \cap DOMAIN Manifest(pub) : LET field == Manifest(pub)[tag] IN
           supplied[tag] = Null \/ ManifestFieldValueMatches(field, supplied[tag]) => Valid(field, supplied[tag])
  PROVE  ValidData(pub, MergedData(pub, previous, snap, supplied))
<1> DEFINE data == MergedData(pub, previous, snap, supplied)
           M == Manifest(pub)
<1>1. \A tag :
        /\ tag \in DOMAIN data <=> /\ tag \in snap.locked \/ tag \in DOMAIN supplied \/ tag \in DOMAIN previous
                                   /\ tag \notin PictureTags(M)
        /\ tag \in DOMAIN data =>
             data[tag] = IF tag \in snap.locked THEN snap.values[tag]
                         ELSE IF tag \in DOMAIN supplied THEN supplied[tag] ELSE previous[tag]
  BY MergedValues
<1>2. \A tag \in DOMAIN data : data[tag] = Null \/ ManifestFieldValueMatches(M[tag], data[tag])
  BY DEF AcceptedData
<1> HIDE DEF data
<1>3. ASSUME NEW tag \in DOMAIN data, tag \in DOMAIN M PROVE Valid(M[tag], data[tag])
  <2>1. CASE tag \in snap.locked
    <3>1. data[tag] = snap.values[tag] /\ tag \in DOMAIN snap.values
      BY <1>1, <2>1 DEF SnapGood
    <3> QED BY <3>1 DEF SnapGood
  <2>2. CASE tag \notin snap.locked /\ tag \in DOMAIN supplied
    <3>1. data[tag] = supplied[tag]
      BY <1>1, <2>2
    <3>2. supplied[tag] = Null \/ ManifestFieldValueMatches(M[tag], supplied[tag])
      BY <1>2, <3>1
    <3> QED BY <1>3, <2>2, <3>1, <3>2
  <2>3. CASE tag \notin snap.locked /\ tag \notin DOMAIN supplied
    <3>1. data[tag] = previous[tag] /\ tag \in DOMAIN previous
      BY <1>1, <2>3
    <3>2. Valid(M[tag], previous[tag])
      BY <1>3, <3>1, Zenon DEF ValidData
    <3> QED BY <3>1, <3>2
  <2> QED BY <2>1, <2>2, <2>3
<1> QED BY <1>3, Zenon DEF ValidData, data

---------------------------------------------------------------------------
(* What a save of the document that is open takes out of it *)

\* The values that a save is given, and those that it completes.
Given(read, old, correction) == IF correction THEN Override(read, old) ELSE read
Before(old, correction) == IF correction THEN NoData ELSE old

\* What was read comes first.
LEMMA GivenValues ==
  ASSUME NEW read, NEW old, NEW correction \in BOOLEAN, NEW tag
  PROVE  /\ tag \in DOMAIN read => tag \in DOMAIN Given(read, old, correction) /\ Given(read, old, correction)[tag] = read[tag]
         /\ tag \in DOMAIN Given(read, old, correction) =>
              tag \in DOMAIN read \/ (tag \in DOMAIN old /\ Given(read, old, correction)[tag] = old[tag])
<1>1. CASE correction
  <2>1. Given(read, old, correction) = Override(read, old)
    BY <1>1 DEF Given
  <2> QED BY <2>1, Overridden
<1>2. CASE ~correction
  <2>1. Given(read, old, correction) = read
    BY <1>2 DEF Given
  <2> QED BY <2>1
<1> QED BY <1>1, <1>2

\* At most one control is missed, which shows something, or at most one is not listed.
LEMMA ReadingOf ==
  ASSUME NEW pub, NEW doc, GoodDocument(pub, doc), NEW reading \in Readings(doc)
  PROVE  /\ \A i \in DOMAIN doc.controls : reading.missed = i =>
              /\ Type(doc.controls[i]) \notin {"checkbox", "date", "picture"} /\ Trim(Shown(doc.controls[i])) # <<>>
              /\ reading.unlisted = 0
         /\ 0 \notin DOMAIN doc.controls
<1> DEFINE texts == {i \in Scalars(doc) : Type(doc.controls[i]) \notin {"checkbox", "date"} /\ Trim(Shown(doc.controls[i])) # <<>>}
<1>1. 0 \notin DOMAIN doc.controls
  BY GoodControls
<1>2. /\ reading.missed \in texts \cup {0}
      /\ reading.missed # 0 => reading.unlisted = 0
  BY DEF Readings
<1> QED BY <1>1, <1>2 DEF Scalars

\* What was read of a field is a value that one of its controls tells, unless its text was missed.
LEMMA ReadSupplied ==
  ASSUME NEW pub, Sound(pub), ParseTemplateFields(pub), NEW doc, GoodDocument(pub, doc), NEW reading \in Readings(doc),
         NEW read, read = ExtractedData(pub, doc, reading),
         NEW tag \in DOMAIN Manifest(pub), tag \in DOMAIN read, NEW field, field = Manifest(pub)[tag],
         NEW v, Taken(FieldControl(pub, tag), field, read[tag], v)
  PROVE  /\ Valid(field, v)
         /\ \E i \in Tagged(doc, tag) : LET c == doc.controls[i] IN
              \/ /\ reading.missed = i /\ FieldTag(pub, c) = tag
                 /\ read[tag] = <<>> /\ field.type \in Entered /\ Trim(Shown(c)) # <<>>
              \/ Tells(c, field, v) /\ (read[tag] = <<>> => field.type \in Entered)
<1> DEFINE own == FieldControl(pub, tag)
<1>1. PICK i \in Listed(doc, reading) :
        /\ FieldTag(pub, doc.controls[i]) = tag
        /\ read[tag] = ReadControl(doc.controls[i], reading.missed = i, reading.dates)
  BY ReadOf
<1>2. PICK c : c = doc.controls[i]
  OBVIOUS
<1>3. GoodControl(pub, c) /\ i \in Read(doc) /\ i \in DOMAIN doc.controls /\ Type(c) # "picture"
  BY <1>2, ListedGood
<1>4. c.tag = tag /\ Settings(c)
  BY <1>1, <1>2, <1>3, OwnTag, GoodSettings
<1>5. i \in Tagged(doc, tag)
  BY <1>2, <1>3, <1>4 DEF Tagged
<1>6. field.type = Type(c) /\ field.options = c.options /\ GoodField(field)
  BY <1>3, <1>4, FieldOfControl, FieldGood
<1>7. own.format = c.format /\ own.calendar = c.calendar
  <2>1. GoodControl(pub, own) /\ own.tag = tag
    BY FieldOf
  <2> HIDE DEF own
  <2>2. SameField(own, c)
    BY <1>3, <1>4, <2>1, SameTag
  <2> QED BY <2>2 DEF SameField
<1> HIDE DEF own
<1>8. CASE reading.missed = i
  <2>1. Type(c) \notin {"checkbox", "date", "picture"} /\ Trim(Shown(c)) # <<>>
    BY <1>2, <1>3, <1>8, ReadingOf
  <2>2. field.type \in Entered
    BY <1>6, <2>1 DEF Entered, GoodField, FieldTypes
  <2>3. read[tag] = <<>>
    BY <1>1, <1>2, <1>8, <2>1 DEF ReadControl
  <2>4. v = NormalizeDisplayValue(own, field, <<>>)
    BY <1>6, <2>1, <2>3 DEF own, Taken
  <2>5. v \in Texts /\ Fits(field, v)
    BY <2>2, <2>4, EmptyReads DEF Entered
  <2> QED BY <1>1, <1>2, <1>5, <1>8, <2>1, <2>2, <2>3, <2>5 DEF Valid, Taken
<1>9. CASE reading.missed # i
  <2>1. PICK value : value = read[tag]
    OBVIOUS
  <2>2. value = ReadControl(c, FALSE, reading.dates)
    BY <1>1, <1>2, <1>9, <2>1
  <2>3. Taken(own, field, value, v)
    BY <2>1 DEF own
  <2>4. TakenTold(c, field, value, v)
    BY <1>3, <1>4, <1>6, <1>7, <2>2, <2>3, ReadTells
  <2> QED BY <1>2, <1>5, <2>1, <2>4 DEF TakenTold
<1> QED BY <1>8, <1>9

\* Each given value is kept, or read as the display of one.
LEMMA SuppliedValues ==
  ASSUME NEW pub, NEW given, NEW dates
  PROVE  LET supplied == Normalized(pub, given, dates) IN
         /\ DOMAIN supplied = DOMAIN given
         /\ \A tag \in DOMAIN given :
              \/ tag \in ToSet(dates) /\ supplied[tag] = given[tag]
              \/ supplied[tag] = NormalizeDisplayValue(FieldControl(pub, tag), Manifest(pub)[tag], given[tag])
  BY DEF Normalized

\* The data are valid.
LEMMA EditorSaveValid ==
  ASSUME NEW pub, Sound(pub), ParseTemplateFields(pub), NEW doc, GoodDocument(pub, doc), NEW reading \in Readings(doc),
         NEW old, ValidData(pub, old), NEW correction \in BOOLEAN, NEW snap, SnapGood(pub, snap), NEW dates, NEW required,
         NEW given, given = Given(ExtractedData(pub, doc, reading), old, correction),
         CanonicalDateFields(Manifest(pub), given, dates), NEW supplied, supplied = Normalized(pub, given, dates),
         AcceptedData(pub, MergedData(pub, Before(old, correction), snap, supplied), supplied, snap, required)
  PROVE  ValidData(pub, MergedData(pub, Before(old, correction), snap, supplied))
<1> DEFINE M == Manifest(pub)
           read == ExtractedData(pub, doc, reading)
<1>1. /\ DOMAIN supplied = DOMAIN given
      /\ \A tag \in DOMAIN given :
           \/ tag \in ToSet(dates) /\ supplied[tag] = given[tag]
           \/ supplied[tag] = NormalizeDisplayValue(FieldControl(pub, tag), M[tag], given[tag])
  BY SuppliedValues
<1>2. \A tag \in ToSet(dates) : M[tag].type = "date"
  BY DEF CanonicalDateFields
<1>3. ASSUME NEW tag \in DOMAIN supplied \cap DOMAIN M,
             supplied[tag] = Null \/ ManifestFieldValueMatches(M[tag], supplied[tag])
      PROVE  Valid(M[tag], supplied[tag])
  <2>1. GoodField(M[tag]) /\ tag \in DOMAIN given
    BY <1>1, FieldGood
  <2>2. CASE M[tag].type \notin {"text", "combo"}
    <3> HIDE DEF M
    <3> QED BY <1>3, <2>1, <2>2, KindValid
  <2>3. CASE M[tag].type \in {"text", "combo"}
    <3>1. supplied[tag] = NormalizeDisplayValue(FieldControl(pub, tag), M[tag], given[tag])
      BY <1>1, <1>2, <2>1, <2>3
    <3>2. \/ tag \in DOMAIN read /\ given[tag] = read[tag]
          \/ tag \in DOMAIN old /\ given[tag] = old[tag]
      <4> HIDE DEF read
      <4>1. /\ tag \in DOMAIN read => tag \in DOMAIN Given(read, old, correction) /\ Given(read, old, correction)[tag] = read[tag]
            /\ tag \in DOMAIN Given(read, old, correction) =>
                 tag \in DOMAIN read \/ (tag \in DOMAIN old /\ Given(read, old, correction)[tag] = old[tag])
        BY GivenValues
      <4> QED BY <2>1, <4>1 DEF read
    <3>3. CASE tag \in DOMAIN read /\ given[tag] = read[tag]
      <4>1. PICK v : v = supplied[tag]
        OBVIOUS
      <4>2. v = NormalizeDisplayValue(FieldControl(pub, tag), M[tag], read[tag])
        BY <3>1, <3>3, <4>1
      <4>3. Taken(FieldControl(pub, tag), M[tag], read[tag], v)
        BY <1>3, <4>1, <4>2 DEF Taken
      <4> HIDE DEF read
      <4>4. Valid(M[tag], v)
        BY <3>3, <4>3, ReadSupplied DEF read
      <4> QED BY <4>1, <4>4
    <3>4. CASE tag \in DOMAIN old /\ given[tag] = old[tag]
      <4>1. Valid(M[tag], old[tag])
        BY <3>4 DEF ValidData
      <4> HIDE DEF M
      <4>2. supplied[tag] \in Texts /\ Fits(M[tag], supplied[tag])
        BY <2>1, <2>3, <3>1, <3>4, <4>1, StoredReads
      <4> QED BY <1>3, <4>2 DEF Valid
    <3> QED BY <3>2, <3>3, <3>4
  <2> QED BY <2>2, <2>3
<1>4. ValidData(pub, Before(old, correction))
  <2>1. CASE correction
    BY <2>1 DEF Before, NoData, ValidData
  <2>2. CASE ~correction
    BY <2>2 DEF Before
  <2> QED BY <2>1, <2>2
<1> QED BY <1>3, <1>4, AcceptedValid

\* Where data for a submission are accepted, each required field has an answer that a control of the
\* document shows, or it was not listed.
LEMMA EditorSaveAnswers ==
  ASSUME NEW pub, Sound(pub), ParseTemplateFields(pub), NEW doc, GoodDocument(pub, doc), NEW reading,
         NEW old, NEW correction \in BOOLEAN, NEW snap, SnapGood(pub, snap), NEW dates,
         CanonicalDateFields(Manifest(pub), Given(ExtractedData(pub, doc, reading), old, correction), dates),
         NEW supplied, supplied = Normalized(pub, Given(ExtractedData(pub, doc, reading), old, correction), dates),
         NEW data, data = MergedData(pub, Before(old, correction), snap, supplied),
         AcceptedData(pub, data, supplied, snap, TRUE),
         NEW tag \in ScalarTags(Manifest(pub)), Manifest(pub)[tag].required
  PROVE  /\ RequiredMet(Manifest(pub)[tag], data, tag)
         /\ \/ /\ tag \notin DOMAIN ExtractedData(pub, doc, reading)
               /\ \A i \in Tagged(doc, tag) : i = reading.unlisted
            \/ \E i \in Tagged(doc, tag) : Answers(doc.controls[i])
<1> DEFINE M == Manifest(pub)
           read == ExtractedData(pub, doc, reading)
           given == Given(read, old, correction)
           field == M[tag]
           own == FieldControl(pub, tag)
<1>0. tag \in DOMAIN M /\ tag \notin PictureTags(M) /\ field.type # "picture"
  BY DEF ScalarTags, PictureTags
<1>1. RequiredMet(field, data, tag)
  BY DEF AcceptedData
<1>2. GoodControl(pub, own) /\ own.required
  BY <1>0, FieldOf
<1>3. ASSUME NEW c, GoodControl(pub, c) PROVE FieldTag(pub, c) = c.tag
  BY <1>2, <1>3, OwnTags
<1>4. CASE tag \notin DOMAIN read
  <2> SUFFICES ASSUME NEW i \in Tagged(doc, tag), i # reading.unlisted PROVE FALSE
    BY <1>1, <1>4
  <2> DEFINE c == doc.controls[i]
  <2>1. i \in Read(doc) /\ i \in DOMAIN doc.controls /\ c.tag = tag
    BY DEF Tagged, Read
  <2>2. GoodControl(pub, c)
    BY <2>1, GoodControls
  <2>3. Type(c) = field.type
    BY <1>0, <2>1, <2>2, FieldOfControl
  <2>4. i \in Listed(doc, reading)
    BY <1>0, <2>1, <2>3 DEF Listed, Scalars
  <2>5. tag \in DOMAIN read
    BY <1>3, <2>1, <2>2, <2>4 DEF ExtractedData
  <2> QED BY <1>4, <2>5
<1>5. CASE tag \in DOMAIN read
  <2>1. PICK i \in Listed(doc, reading) :
          /\ FieldTag(pub, doc.controls[i]) = tag
          /\ read[tag] = ReadControl(doc.controls[i], reading.missed = i, reading.dates)
    BY <1>5, ReadOf
  <2> DEFINE c == doc.controls[i]
             value == read[tag]
  <2>2. GoodControl(pub, c) /\ i \in Read(doc) /\ Type(c) # "picture"
    BY ListedGood
  <2>3. c.tag = tag
    BY <1>3, <2>1, <2>2
  <2>4. i \in Tagged(doc, tag)
    BY <2>2, <2>3 DEF Tagged
  <2>5. field.type = Type(c)
    BY <1>0, <2>2, <2>3, FieldOfControl
  <2>6. tag \in DOMAIN given /\ given[tag] = value
    BY <1>5, GivenValues
  <2>7. /\ tag \in DOMAIN supplied
        /\ \/ tag \in ToSet(dates) /\ supplied[tag] = value
           \/ supplied[tag] = NormalizeDisplayValue(own, field, value)
    BY <2>6, SuppliedValues
  <2>8. data[tag] = supplied[tag]
    <3>1. tag \in DOMAIN data
      BY <1>1 DEF RequiredMet
    <3>2. data[tag] = IF tag \in snap.locked THEN snap.values[tag]
                      ELSE IF tag \in DOMAIN supplied THEN supplied[tag] ELSE Before(old, correction)[tag]
      BY <3>1, MergedValues
    <3>3. tag \in snap.locked => supplied[tag] = snap.values[tag]
      BY <2>7 DEF AcceptedData
    <3> QED BY <2>7, <3>2, <3>3
  <2>9. tag \in ToSet(dates) => field.type = "date" /\ value \in IsoDates
    BY <2>6 DEF CanonicalDateFields
  <2> HIDE DEF read, given, own, field, M
  <2>10. /\ data[tag] # Null
         /\ IsText(data[tag]) /\ Trim(data[tag]) = <<>> => field.type \in {"dropdown", "combo"}
         /\ field.type = "checkbox" => data[tag] = True
    BY <1>1 DEF RequiredMet
  <2>11. Answers(c)
    <3>1. CASE Type(c) = "checkbox"
      <4>1. value = IF c.state = True THEN True ELSE False
        BY <2>1, <3>1 DEF ReadControl
      <4>2. ~IsText(value)
        BY <4>1, ConstantTexts
      <4>3. NormalizeDisplayValue(own, field, value) = value
        BY <4>2 DEF NormalizeDisplayValue
      <4>4. value = True
        BY <2>5, <2>7, <2>8, <2>9, <2>10, <3>1, <4>3
      <4>5. c.state = True
        BY <4>1, <4>4, ConstantTexts
      <4> QED BY <2>2, <3>1, <4>5 DEF Answers, GoodControl
    <3>2. CASE Type(c) = "date"
      <4>1. c.state # Null
        <5> SUFFICES ASSUME c.state = Null PROVE FALSE
          OBVIOUS
        <5>1. value = Null
          BY <2>1, <3>2 DEF ReadControl
        <5>2. ~IsText(value) /\ value \notin IsoDates
          BY <5>1, ConstantTexts, IsoTexts
        <5>3. NormalizeDisplayValue(own, field, value) = value
          BY <5>2 DEF NormalizeDisplayValue
        <5> QED BY <2>7, <2>8, <2>9, <2>10, <5>1, <5>2, <5>3
      <4> QED BY <2>2, <3>2, <4>1 DEF Answers, GoodControl
    <3>3. CASE Type(c) \notin {"checkbox", "date"}
      <4>1. value \in {<<>>, Trim(Shown(c))}
        BY <2>1, <3>3 DEF ReadControl
      <4>2. value # <<>>
        <5> SUFFICES ASSUME value = <<>> PROVE FALSE
          OBVIOUS
        <5>1. data[tag] = NormalizeDisplayValue(own, field, <<>>)
          BY <2>5, <2>7, <2>8, <2>9, <3>3
        <5>2. CASE field.type \in {"dropdown", "combo"}
          <6>1. data[tag] = Null
            BY <5>1, <5>2, ConstantTexts DEF NormalizeDisplayValue
          <6> QED BY <2>10, <6>1
        <5>3. CASE field.type \notin {"dropdown", "combo"}
          <6>1. data[tag] = <<>>
            BY <2>5, <3>3, <5>1, <5>3, ConstantTexts DEF NormalizeDisplayValue
          <6>2. Trim(<<>>) = <<>>
            <7>1. <<>> \in Texts /\ ~Ink(<<>>)
              BY Basics DEF Ink, ToSet
            <7> QED BY <7>1, TrimInk DEF Texts
          <6> QED BY <2>10, <5>3, <6>1, <6>2, ConstantTexts
        <5> QED BY <5>2, <5>3
      <4>3. Trim(Shown(c)) # <<>>
        BY <4>1, <4>2
      <4>4. Shows(c)
        BY <2>2, <4>3, SeenInk DEF GoodControl
      <4> QED BY <3>3, <4>4 DEF Answers
    <3> QED BY <3>1, <3>2, <3>3
  <2> QED BY <1>1, <2>4, <2>11 DEF field, M
<1> QED BY <1>4, <1>5

---------------------------------------------------------------------------
(* What the callback does *)

\* Text that is read again is shown by a control of the field.
LEMMA TextAgain ==
  ASSUME NEW pub, NEW doc, GoodDocument(pub, doc), NEW tag
  PROVE  LET texts == ResponseTextControlValues(doc) IN
         /\ tag \in DOMAIN texts => \E m \in Tagged(doc, tag) : texts[tag] = Shown(doc.controls[m])
         /\ (\E i \in Tagged(doc, tag) : ~doc.controls[i].showing /\ ~doc.controls[i].padded) => tag \in DOMAIN texts
<1> DEFINE texts == ResponseTextControlValues(doc)
           found == {i \in Read(doc) : ~doc.controls[i].showing /\ ~doc.controls[i].padded}
           all == {i \in found : doc.controls[i].tag = tag}
<1>1. /\ tag \in DOMAIN texts <=> tag \in {doc.controls[i].tag : i \in found}
      /\ tag \in DOMAIN texts => texts[tag] = VisibleText(doc.controls[Max(all)].content)
  BY DEF ResponseTextControlValues
<1>2. Len(doc.controls) \in Nat /\ DOMAIN doc.controls = 1..Len(doc.controls)
  BY GoodControls
<1>3. ASSUME tag \in DOMAIN texts PROVE \E m \in Tagged(doc, tag) : texts[tag] = Shown(doc.controls[m])
  <2>1. all # {}
    BY <1>1, <1>3
  <2>2. all \in SUBSET (0..Len(doc.controls))
    BY <1>2 DEF Read
  <2>3. PICK m : m = Max(all)
    OBVIOUS
  <2>4. m \in all
    <3> HIDE DEF all
    <3> QED BY <1>2, <2>1, <2>2, <2>3, MaxIn
  <2>5. m \in Tagged(doc, tag) /\ ~doc.controls[m].showing
    BY <2>4 DEF Tagged
  <2>6. texts[tag] = Shown(doc.controls[m])
    BY <1>1, <1>3, <2>3, <2>5 DEF Shown
  <2> QED BY <2>5, <2>6
<1>4. ASSUME NEW i \in Tagged(doc, tag), ~doc.controls[i].showing /\ ~doc.controls[i].padded PROVE tag \in DOMAIN texts
  BY <1>1, <1>4 DEF Tagged
<1> QED BY <1>3, <1>4

\* Text that was missed is read again, and what it finds is a value of the field.
LEMMA ReadAgain ==
  ASSUME NEW pub, Sound(pub), ParseTemplateFields(pub), NEW doc, GoodDocument(pub, doc),
         NEW data, ValidData(pub, data), NEW empties, NEW held
  PROVE  LET new == DataReadAgain(doc, Manifest(pub), data, empties, held) IN
         /\ ValidData(pub, new) /\ \A tag : tag \in DOMAIN new <=> tag \in DOMAIN data
         /\ \A tag \in DOMAIN data : tag \notin empties \ held => new[tag] = data[tag]
<1> DEFINE M == Manifest(pub)
           texts == ResponseTextControlValues(doc)
           again == (empties \ held) \cap DOMAIN texts
           value(tag) == NormalizeDisplayValue(FieldControl(doc, tag), M[tag], texts[tag])
           new == DataReadAgain(doc, M, data, empties, held)
<1>1. new = [tag \in DOMAIN data |->
               IF tag \in again THEN IF ManifestFieldValueMatches(M[tag], value(tag)) THEN value(tag) ELSE data[tag]
               ELSE data[tag]]
  BY Zenon DEF DataReadAgain
<1>2. ASSUME NEW tag \in DOMAIN texts PROVE \E m \in Tagged(doc, tag) : texts[tag] = Shown(doc.controls[m])
  BY TextAgain
<1> HIDE DEF texts, again, new
<1>3. ASSUME NEW tag \in DOMAIN data, tag \in DOMAIN M PROVE Valid(M[tag], new[tag])
  <2>1. Valid(M[tag], data[tag])
    BY <1>3 DEF ValidData
  <2>2. CASE tag \in again /\ ManifestFieldValueMatches(M[tag], value(tag))
    <3>1. new[tag] = value(tag)
      BY <1>1, <2>2
    <3>2. PICK field, v : field = M[tag] /\ v = value(tag)
      OBVIOUS
    <3>3. GoodField(field) /\ (v = Null \/ ManifestFieldValueMatches(field, v))
      BY <1>3, <2>2, <3>2, FieldGood
    <3>4. CASE field.type \notin {"text", "combo"}
      <4>1. Valid(field, v)
        BY <3>3, <3>4, KindValid
      <4> QED BY <3>1, <3>2, <4>1
    <3>5. CASE field.type \in {"text", "combo"}
      <4>1. PICK m \in Tagged(doc, tag) : texts[tag] = Shown(doc.controls[m])
        BY <1>2, <2>2 DEF again
      <4>2. PICK c : c = doc.controls[m]
        OBVIOUS
      <4>3. GoodControl(pub, c) /\ c.tag = tag
        BY <4>2, GoodControls DEF Tagged, Read
      <4>4. field.type = Type(c) /\ field.options = c.options
        BY <1>3, <3>2, <4>3, FieldOfControl
      <4>5. PICK own, text : own = FieldControl(doc, tag) /\ text = Shown(c)
        OBVIOUS
      <4>6. v = NormalizeDisplayValue(own, field, text)
        BY <3>2, <4>1, <4>2, <4>5
      <4>7. v \in Texts /\ Fits(field, v)
        BY <3>3, <3>5, <4>3, <4>4, <4>5, <4>6, DisplayReads
      <4> QED BY <3>1, <3>2, <3>3, <4>7 DEF Valid
    <3> QED BY <3>4, <3>5
  <2>3. CASE ~(tag \in again /\ ManifestFieldValueMatches(M[tag], value(tag)))
    <3>1. new[tag] = data[tag]
      BY <1>1, <2>3
    <3> QED BY <2>1, <3>1
  <2> QED BY <2>2, <2>3
<1>4. DOMAIN new = DOMAIN data
  BY <1>1
<1>5. ASSUME NEW tag \in DOMAIN data, tag \notin empties \ held PROVE new[tag] = data[tag]
  BY <1>1, <1>5 DEF again
<1>6. ValidData(pub, new)
  BY <1>3, <1>4, Zenon DEF ValidData
<1> QED BY <1>4, <1>5, <1>6 DEF new

\* The controls of a field agree, as they do where tags are unique.
Together(doc, tag) == \A i, j \in Tagged(doc, tag) : Like(doc.controls[i], doc.controls[j])

\* The controls of a field tell its value.
AllTell(doc, field, tag, value) == \A i \in Tagged(doc, tag) : Tells(doc.controls[i], field, value)

\* The text of a field was missed where it can be found again.
Missed(doc, field, tag, empties) ==
  /\ tag \in empties /\ field.type \in Entered
  /\ \E i \in Tagged(doc, tag) : /\ ~doc.controls[i].showing /\ ~doc.controls[i].padded
                                 /\ Trim(Shown(doc.controls[i])) # <<>>

\* What the document of a save tells of a field before the callback.
HalfTold(doc, field, tag, value, empties) ==
  \/ AllTell(doc, field, tag, value) /\ (tag \in empties => field.type \in Entered)
  \/ Missed(doc, field, tag, empties)

\* When the texts that were missed have been read again, the controls tell the values.
LEMMA AgainTells ==
  ASSUME NEW pub, Sound(pub), ParseTemplateFields(pub), NEW doc, GoodDocument(pub, doc),
         NEW data, NEW empties, NEW held, NEW tag \in DOMAIN data, tag \in DOMAIN Manifest(pub), tag \notin held,
         NEW field, field = Manifest(pub)[tag], Together(doc, tag), HalfTold(doc, field, tag, data[tag], empties)
  PROVE  AllTell(doc, field, tag, DataReadAgain(doc, Manifest(pub), data, empties, held)[tag])
<1> DEFINE texts == ResponseTextControlValues(doc)
           again == (empties \ held) \cap DOMAIN texts
           new == DataReadAgain(doc, Manifest(pub), data, empties, held)
<1>1. PICK own, value : own = FieldControl(doc, tag) /\ value = NormalizeDisplayValue(own, field, texts[tag])
  OBVIOUS
<1>2. new[tag] = IF tag \in again THEN IF ManifestFieldValueMatches(field, value) THEN value ELSE data[tag]
                 ELSE data[tag]
  BY <1>1, Zenon DEF DataReadAgain
<1>3. CASE tag \in again
  <2>1. PICK m \in Tagged(doc, tag) : texts[tag] = Shown(doc.controls[m])
    BY <1>3, TextAgain
  <2>2. PICK c : c = doc.controls[m]
    OBVIOUS
  <2>3. GoodControl(pub, c) /\ c.tag = tag
    BY <2>1, <2>2, GoodControls DEF Tagged, Read
  <2>4. field.type = Type(c) /\ field.options = c.options /\ GoodField(field)
    BY <2>3, FieldOfControl, FieldGood
  <2>5. field.type \in Entered
    BY <1>3 DEF HalfTold, Missed
  <2>6. PICK text : text = Shown(c)
    OBVIOUS
  <2>7. value = NormalizeDisplayValue(own, field, text)
    BY <1>1, <2>1, <2>2, <2>6
  <2>8. Tells(c, field, value) /\ (Trim(Shown(c)) # <<>> => ManifestFieldValueMatches(field, value))
    BY <2>3, <2>4, <2>5, <2>6, <2>7, DisplayReads DEF Entered
  <2>9. CASE ManifestFieldValueMatches(field, value)
    <3>1. new[tag] = value
      BY <1>2, <1>3, <2>9
    <3>2. ASSUME NEW i \in Tagged(doc, tag) PROVE Tells(doc.controls[i], field, value)
      <4>1. Like(doc.controls[i], c)
        BY <2>2 DEF Together
      <4> QED BY <2>8, <4>1, LikeTells
    <3> QED BY <3>1, <3>2 DEF AllTell
  <2>10. CASE ~ManifestFieldValueMatches(field, value)
    <3>1. new[tag] = data[tag] /\ Trim(Shown(c)) = <<>>
      BY <1>2, <1>3, <2>8, <2>10
    <3>2. ~Missed(doc, field, tag, empties)
      <4> SUFFICES ASSUME NEW i \in Tagged(doc, tag), Trim(Shown(doc.controls[i])) # <<>> PROVE FALSE
        BY DEF Missed
      <4>1. Like(doc.controls[i], c)
        BY <2>2 DEF Together
      <4>2. Shown(doc.controls[i]) = Shown(c)
        BY <4>1 DEF Like, Shown
      <4> QED BY <3>1, <4>2
    <3> QED BY <3>1, <3>2 DEF HalfTold
  <2> QED BY <2>9, <2>10
<1>4. CASE tag \notin again
  <2>1. new[tag] = data[tag]
    BY <1>2, <1>4
  <2>2. tag \in empties => tag \notin DOMAIN texts
    BY <1>4
  <2>3. ~Missed(doc, field, tag, empties)
    BY <2>2, TextAgain DEF Missed
  <2> QED BY <2>1, <2>3 DEF HalfTold
<1> QED BY <1>3, <1>4

\* A required field has an answer that the server would write.
LEMMA RequiredValue ==
  ASSUME NEW field, NEW data, NEW tag, RequiredMet(field, data, tag)
  PROVE  Met(field, ValueOf(data, tag))
<1>1. tag \in DOMAIN data /\ ValueOf(data, tag) = data[tag]
  BY DEF RequiredMet, ValueOf
<1> QED BY <1>1 DEF RequiredMet, Met

\* A document into which the values are written that the editor does not hold shows their answers,
\* and those that were in it.
LEMMA HeldWritten ==
  ASSUME NEW pub, Sound(pub), ParseTemplateFields(pub), ~UnsupportedDates(pub), NEW doc, GoodDocument(pub, doc),
         NEW data, ValidData(pub, data), FlattenSupported(doc, DOMAIN Manifest(pub)), NEW held,
         NEW tag \in ScalarTags(Manifest(pub)),
         Tagged(OverlayNativeResponseDocument(doc, Manifest(pub), data, held), tag) # {},
         \/ tag \in held /\ RequiredMet(Manifest(pub)[tag], data, tag)
         \/ tag \notin held /\ (Tagged(doc, tag) = {} \/ \E i \in Tagged(doc, tag) : Answers(doc.controls[i]))
  PROVE  LET new == OverlayNativeResponseDocument(doc, Manifest(pub), data, held) IN
         \E j \in Tagged(new, tag) : Answers(new.controls[j])
<1> DEFINE M == Manifest(pub)
           new == OverlayNativeResponseDocument(doc, M, data, held)
           written == held \cap ScalarTags(M)
<1>1. /\ \A j \in Read(new) : LET own == new.controls[j].tag IN
           /\ Tagged(doc, own) # {}
           /\ own \in written =>
                /\ Met(M[own], ValueOf(data, own)) => Answers(new.controls[j])
                /\ Tells(new.controls[j], M[own], ValueOf(data, own))
           /\ own \notin written => \E i \in Tagged(doc, own) : Like(new.controls[j], doc.controls[i])
      /\ \A i \in Read(doc) :
           doc.controls[i].tag \in DOMAIN M \ written =>
             \E j \in Tagged(new, doc.controls[i].tag) : Like(new.controls[j], doc.controls[i])
  BY OverlayWritten
<1>2. PICK j \in Tagged(new, tag) : TRUE
  OBVIOUS
<1> HIDE DEF new
<1>3. j \in Read(new) /\ new.controls[j].tag = tag
  BY DEF Tagged
<1>4. CASE tag \in held /\ RequiredMet(M[tag], data, tag)
  <2>1. Met(M[tag], ValueOf(data, tag))
    BY <1>4, RequiredValue
  <2>2. Answers(new.controls[j])
    BY <1>1, <1>3, <1>4, <2>1
  <2> QED BY <2>2 DEF new
<1>5. CASE tag \notin held
  <2>1. PICK i \in Tagged(doc, tag) : Answers(doc.controls[i])
    BY <1>1, <1>3, <1>5
  <2>2. i \in Read(doc) /\ doc.controls[i].tag = tag /\ tag \in DOMAIN M \ written
    BY <1>5 DEF Tagged, ScalarTags
  <2>3. PICK k \in Tagged(new, tag) : Like(new.controls[k], doc.controls[i])
    BY <1>1, <2>2
  <2>4. Answers(new.controls[k])
    BY <2>1, <2>3 DEF Answers, Shows, Like
  <2> QED BY <2>4 DEF new
<1> QED BY <1>4, <1>5

---------------------------------------------------------------------------
(* A document that is complete *)

\* What SubmittedComplete asks of a document.
Complete(doc, fields, unread) ==
  /\ \A tag \in ScalarTags(fields) \ unread : fields[tag].required =>
       LET c == FieldControl(doc, tag) IN
       /\ Trim(Shown(c)) # <<>>
       /\ fields[tag].type = "checkbox" => c.state = True
  /\ \A tag \in PictureTags(fields) : fields[tag].required => Pictured(doc, FieldControl(doc, tag)) # None
  /\ DOMAIN Manifest(doc) = DOMAIN fields

\* Where tags are unique, each of them finds its control.
LEMMA OneTagged ==
  ASSUME NEW doc, UniqueTags(doc), NEW tag, NEW j \in Tagged(doc, tag)
  PROVE  FieldControl(doc, tag) = doc.controls[j]
<1> DEFINE i == CHOOSE k \in Tagged(doc, tag) : TRUE
<1>1. i \in Tagged(doc, tag)
  OBVIOUS
<1>2. FieldControl(doc, tag) = doc.controls[i]
  BY DEF FieldControl
<1> HIDE DEF i
<1>3. i = j
  BY <1>1 DEF Tagged, UniqueTags
<1> QED BY <1>2, <1>3

\* A document that was checked for a submission has pictures and all the fields.
LEMMA ValidTagged ==
  ASSUME NEW doc, NEW fields, NEW required, ValidResponseDocument(doc, fields, required), NEW tag \in DOMAIN fields
  PROVE  UniqueTags(doc) /\ Tagged(doc, tag) # {}
<1>1. UniqueTags(doc)
  BY DEF ValidResponseDocument, ParseTemplateFields
<1>2. tag \in DOMAIN Manifest(doc)
  BY DEF ValidResponseDocument
<1>3. DOMAIN Manifest(doc) = {doc.controls[i].tag : i \in Read(doc)}
  BY DEF Manifest
<1>4. \E i \in Read(doc) : doc.controls[i].tag = tag
  BY <1>2, <1>3
<1> QED BY <1>1, <1>4 DEF Tagged

\* Its required picture fields show a picture.
LEMMA PicturedTags ==
  ASSUME NEW doc, NEW fields, ValidResponseDocument(doc, fields, TRUE), NEW tag \in PictureTags(fields),
         fields[tag].required
  PROVE  Pictured(doc, FieldControl(doc, tag)) # None
<1>1. PICK i \in PictureControls(doc) :
        /\ {j \in PictureControls(doc) : doc.controls[j].tag = tag} = {i}
        /\ ValidPictureControl(doc, doc.controls[i], fields[tag], TRUE)
  BY DEF ValidResponseDocument, ValidPictureControls
<1> DEFINE c == doc.controls[i]
<1>2. i \in Tagged(doc, tag)
  <2>1. i \in {j \in PictureControls(doc) : doc.controls[j].tag = tag}
    BY <1>1
  <2> QED BY <2>1 DEF PictureControls, Tagged
<1>3. FieldControl(doc, tag) = c
  BY <1>2, OneTagged DEF ValidResponseDocument, ParseTemplateFields
<1>4. /\ ~c.showing
      /\ Media(doc, c) \in DOMAIN doc.media
      /\ ValidMedia(doc.media[Media(doc, c)].image, fields[tag].limits)
  BY <1>1 DEF ValidPictureControl
<1>5. doc.media[Media(doc, c)].image \in DOMAIN Images
  BY <1>4 DEF ValidMedia
<1>6. None \notin DOMAIN Images
  BY DEF None, Images
<1>7. Pictured(doc, c) = doc.media[Media(doc, c)].image
  BY <1>4 DEF Pictured
<1> QED BY <1>3, <1>5, <1>6, <1>7

\* With its answers such a document is complete.
LEMMA AnswersComplete ==
  ASSUME NEW pub, Sound(pub), ParseTemplateFields(pub), NEW doc, GoodDocument(pub, doc), NEW unread,
         ValidResponseDocument(doc, Manifest(pub), TRUE),
         \A tag \in ScalarTags(Manifest(pub)) \ unread : Manifest(pub)[tag].required =>
           \E j \in Tagged(doc, tag) : Answers(doc.controls[j])
  PROVE  Complete(doc, Manifest(pub), unread)
<1> DEFINE M == Manifest(pub)
<1>1. ASSUME NEW tag \in ScalarTags(M) \ unread, M[tag].required
      PROVE  LET c == FieldControl(doc, tag) IN
             /\ Trim(Shown(c)) # <<>>
             /\ M[tag].type = "checkbox" => c.state = True
  <2>1. PICK j \in Tagged(doc, tag) : Answers(doc.controls[j])
    BY <1>1
  <2> DEFINE c == doc.controls[j]
  <2>2. FieldControl(doc, tag) = c
    BY OneTagged DEF ValidResponseDocument, ParseTemplateFields
  <2>3. j \in DOMAIN doc.controls /\ c.tag = tag /\ tag \in DOMAIN M
    BY DEF Tagged, Read, ScalarTags
  <2>4. GoodControl(pub, c)
    BY <2>3, GoodControls
  <2>5. M[tag].type = Type(c)
    BY <2>3, <2>4, FieldOfControl
  <2>6. Trim(Shown(c)) # <<>>
    BY <2>1, <2>4, SeenInk DEF Answers, GoodControl
  <2> QED BY <2>1, <2>2, <2>5, <2>6 DEF Answers
<1>2. \A tag \in PictureTags(M) : M[tag].required => Pictured(doc, FieldControl(doc, tag)) # None
  BY PicturedTags
<1>3. DOMAIN Manifest(doc) = DOMAIN M
  BY DEF ValidResponseDocument
<1> QED BY <1>1, <1>2, <1>3 DEF Complete

---------------------------------------------------------------------------
(* The editor *)

\* A document into which values were put: it comes of the template, and its pictures are the same.
Prefilled(pub, new, doc) ==
  /\ GoodDocument(pub, new) /\ new.links = doc.links /\ new.rels = doc.rels /\ new.media = doc.media
  /\ DOMAIN new.controls = DOMAIN doc.controls
  /\ \A i \in DOMAIN doc.controls :
       /\ Follows(pub, new.controls[i], doc.controls[i]) /\ new.controls[i].images = doc.controls[i].images
       /\ Type(doc.controls[i]) = "picture" => new.controls[i] = doc.controls[i]

\* A Prefill, or its locked values, in the controls.
LEMMA PrefillControls ==
  ASSUME NEW pub, Sound(pub), ParseTemplateFields(pub), NEW doc, GoodDocument(pub, doc), NEW values, NEW locked,
         \A tag \in DOMAIN values :
           /\ tag \in DOMAIN Manifest(pub) /\ Valid(Manifest(pub)[tag], values[tag])
           /\ ManifestFieldValueMatches(Manifest(pub)[tag], values[tag])
  PROVE  Prefilled(pub, ApplyPrefill(pub, doc, values, locked), doc)
<1> DEFINE own(i) == LET c == doc.controls[i]
                         tag == FieldTag(pub, c)
                     IN  IF i \in Scalars(doc) /\ tag \in DOMAIN values
                         THEN [SetControlValue(c, values[tag]) EXCEPT !.locked = tag \in locked] ELSE c
           new == ApplyPrefill(pub, doc, values, locked)
           n == Len(doc.controls)
<1>1. new = [doc EXCEPT !.controls = [i \in DOMAIN doc.controls |-> own(i)]]
  BY Zenon DEF ApplyPrefill
<1> HIDE DEF new, own
<1>2. DOMAIN doc = DocumentNames
  BY DEF GoodDocument
<1>3. n \in Nat /\ DOMAIN doc.controls = 1..n
  BY GoodControls
<1> HIDE DEF n
<1>4. /\ DOMAIN new = DocumentNames /\ new.links = doc.links /\ new.requires = doc.requires
      /\ new.rels = doc.rels /\ new.media = doc.media
      /\ new.controls = [i \in 1..n |-> own(i)]
  BY <1>1, <1>2, <1>3 DEF DocumentNames
<1>5. ASSUME NEW i \in 1..n
      PROVE  /\ Follows(pub, own(i), doc.controls[i]) /\ own(i).images = doc.controls[i].images
             /\ Type(doc.controls[i]) = "picture" => own(i) = doc.controls[i]
  <2> DEFINE c == doc.controls[i]
             tag == FieldTag(pub, c)
             set == SetControlValue(c, values[tag])
             d == [set EXCEPT !.locked = tag \in locked]
  <2>1. GoodControl(pub, c)
    BY <1>3, GoodControls
  <2>2. CASE i \in Scalars(doc) /\ tag \in DOMAIN values
    <3>1. own(i) = d
      BY <2>2, Zenon DEF own
    <3>2. tag \in DOMAIN Manifest(pub) /\ tag = c.tag
      BY <2>1, <2>2, OwnTag
    <3>3. Follows(pub, set, c)
      <4>1. PICK value, field : value = values[tag] /\ field = Manifest(pub)[tag]
        OBVIOUS
      <4>2. Valid(field, value) /\ ManifestFieldValueMatches(field, value)
        BY <2>2, <4>1
      <4>3. field.type = Type(c) /\ field.options = c.options
        BY <2>1, <3>2, <4>1, FieldOfControl
      <4> HIDE DEF tag, c
      <4>4. value \in Texts /\ (Type(c) = "date" => value \in IsoDates)
        BY <4>2, <4>3 DEF Valid, ManifestFieldValueMatches
      <4>5. Type(c) \in {"text", "combo"} => value # Null
        BY <4>2, <4>3, ConstantTexts DEF ManifestFieldValueMatches
      <4>6. Type(c) = "text" => value \in Words
        BY <4>2, <4>3, <4>5 DEF Valid, Fits
      <4>7. Type(c) = "combo" /\ Valued(c, value) = {} => value \in Entries
        BY <4>2, <4>3, <4>5 DEF Valid, Fits, Values, Valued
      <4>8. Follows(pub, SetControlValue(c, value), c)
        BY <2>1, <4>4, <4>6, <4>7, SetValueGood
      <4> QED BY <4>1, <4>8
    <3> HIDE DEF set
    <3>4. GoodControl(pub, set)
      BY <3>3 DEF Follows
    <3>5. DOMAIN set = ControlNames /\ set.content \in Seq(Nodes) /\ set.state \in Texts
      BY <3>4 DEF GoodControl
    <3>6. DOMAIN d = ControlNames /\ \A name \in ControlNames \ {"locked"} : d[name] = set[name]
      BY <3>5 DEF ControlNames
    <3> HIDE DEF d
    <3>7. d.content = set.content /\ d.state = set.state /\ d.showing = set.showing /\ d.images = set.images
      BY <3>6 DEF ControlNames
    <3>8. Shows(d) <=> Shows(set)
      BY <3>7 DEF Shows
    <3>9. (Type(set) = "checkbox" /\ d.state = True) \/ (Type(set) = "date" /\ d.state # Null) => Shows(d)
      BY <3>4, <3>7, <3>8 DEF GoodControl
    <3>10. Exact(d)
      <4>1. SameField(d, set) /\ Type(d) = Type(set)
        BY <3>6 DEF SameField, Type, ControlNames
      <4>2. Like(d, set)
        BY <3>7, <4>1 DEF Like
      <4> QED BY <3>4, <4>2, LikeExact DEF GoodControl
    <3>11. GoodControl(pub, d) /\ SameField(d, set) /\ d.alternate = set.alternate /\ d.choice = set.choice /\ Type(d) = Type(set)
      BY <3>4, <3>5, <3>6, <3>7, <3>9, <3>10, EditedGood
    <3>12. set.images = c.images
      BY <2>1, ChangedImages DEF GoodControl, set
    <3>13. Follows(pub, d, c)
      BY <3>3, <3>11 DEF Follows, SameField
    <3>14. Type(c) # "picture"
      BY <2>2 DEF Scalars
    <3> QED BY <3>1, <3>7, <3>12, <3>13, <3>14
  <2>3. CASE ~(i \in Scalars(doc) /\ tag \in DOMAIN values)
    <3>1. own(i) = c
      BY <2>3, Zenon DEF own
    <3> QED BY <2>1, <3>1 DEF Follows, SameField
  <2> QED BY <2>2, <2>3
<1> DEFINE f == [i \in 1..n |-> own(i)]
<1>6. new.controls = [i \in 1..n |-> f[i]] /\ \A i \in 1..n : GoodControl(pub, f[i])
  BY <1>4, <1>5 DEF Follows
<1>8. \A i \in 1..n : new.controls[i] = own(i) /\ DOMAIN new.controls = 1..n
  BY <1>4
<1> HIDE DEF f
<1>7. GoodDocument(pub, new)
  BY <1>3, <1>4, <1>6, DocumentGood
<1>9. Prefilled(pub, new, doc)
  BY <1>3, <1>4, <1>5, <1>7, <1>8 DEF Prefilled
<1> QED BY <1>9 DEF new

\* The document stays one that comes of the template.
LEMMA PrefillGood ==
  ASSUME NEW pub, Sound(pub), ParseTemplateFields(pub), NEW doc, GoodDocument(pub, doc), NEW values, NEW locked,
         \A tag \in DOMAIN values :
           /\ tag \in DOMAIN Manifest(pub) /\ Valid(Manifest(pub)[tag], values[tag])
           /\ ManifestFieldValueMatches(Manifest(pub)[tag], values[tag])
  PROVE  GoodDocument(pub, ApplyPrefill(pub, doc, values, locked))
BY PrefillControls DEF Prefilled

\* Media and relationships are not part of what is asked of documents here.
LEMMA SidesGood ==
  ASSUME NEW pub, NEW doc, GoodDocument(pub, doc), NEW new, DOMAIN new = DocumentNames,
         new.controls = doc.controls, new.links = doc.links, new.requires = doc.requires
  PROVE  GoodDocument(pub, new)
  BY DEF GoodDocument

---------------------------------------------------------------------------
(* The template *)

\* A published template is sound, and the fields of the Form are those in it.
LEMMA TemplateSound ==
  ASSUME template \in DOMAIN Manifests
  PROVE  Sound(Published) /\ ParseTemplateFields(Published) /\ Fields = Manifest(Published)
<1> DEFINE all == {other \in DOMAIN TemplateDocuments : ParseTemplateFields(TemplateDocuments[other])}
<1>1. Manifests = [name \in all |-> Manifest(TemplateDocuments[name])]
  BY Zenon DEF Manifests
<1>2. template \in all
  BY <1>1
<1>3. Manifests[template] = Manifest(TemplateDocuments[template])
  BY <1>1, <1>2
<1>4. template \in DOMAIN TemplateDocuments /\ ParseTemplateFields(TemplateDocuments[template])
  BY <1>2
<1>5. Sound(TemplateDocuments[template])
  BY <1>4, TemplatesSound
<1> QED BY <1>3, <1>4, <1>5, Zenon DEF Published, Fields

\* Templates that can be filled in natively are among those that can be published.
LEMMA NativeSound ==
  ASSUME template \in NativeTemplates
  PROVE  template \in DOMAIN Manifests /\ ~UnsupportedDates(Published)
<1>1. template \in DOMAIN Manifests /\ SupportsNativeTemplate(TemplateDocuments[template])
  BY DEF NativeTemplates
<1>2. ~UnsupportedDates(TemplateDocuments[template])
  BY <1>1 DEF SupportsNativeTemplate
<1> QED BY <1>1, <1>2 DEF Published

---------------------------------------------------------------------------
(* The inductive invariant *)

\* The parts of the state.
ResponseNames == {"status", "doc", "data", "saved", "placed", "unread"}
EditorNames == {"mode", "doc", "placed"}
OperationNames == {"action", "native", "data", "doc", "placed", "empties", "held", "unread"}

\* Nothing is open or saved before a Response is started, and none is started before the Form is published.
Staged ==
  /\ response.status # None => template # None /\ template \in DOMAIN Manifests
  /\ editor.mode # None => response.status # None
  /\ operation.action # None => response.status # None
  /\ operation.native \in BOOLEAN /\ (operation.native => operation.action # None)
  /\ template = None \/ template \in DOMAIN Manifests
  /\ method = "native" => template # None /\ template \in NativeTemplates
  /\ operation.native => template \in NativeTemplates
  /\ DOMAIN response = ResponseNames /\ DOMAIN editor = EditorNames /\ DOMAIN operation = OperationNames

\* The documents that are stored and open come of the template, and data and Prefill fit its fields.
Stored ==
  response.status # None =>
    /\ GoodDocument(Published, response.doc) /\ ValidData(Published, response.data)
    /\ SnapGood(Published, snapshot)
Opened == editor.mode # None => GoodDocument(Published, editor.doc)

\* The save that is in progress will store the locked values of the Prefill.
Locked ==
  operation.action # None =>
    /\ ValidData(Published, operation.data)
    /\ \A tag \in snapshot.locked :
         /\ tag \in DOMAIN operation.data /\ operation.data[tag] = snapshot.values[tag]
         /\ tag \notin operation.empties \ operation.held

\* Where it is a submission or a correction, its document or its data answer each required field.
Answering ==
  operation.action # None =>
    /\ ~operation.native \/ operation.doc # NoDocument => GoodDocument(Published, operation.doc)
    /\ operation.action # "save-draft" => \A tag \in ScalarTags(Fields) : Fields[tag].required =>
         /\ RequiredMet(Fields[tag], operation.data, tag)
         /\ ~operation.native /\ tag \notin operation.unread =>
              \/ template \in NativeTemplates /\ tag \in operation.held
              \/ Tagged(operation.doc, tag) = {}
              \/ \E i \in Tagged(operation.doc, tag) : Answers(operation.doc.controls[i])
         /\ operation.native /\ operation.doc # NoDocument =>
              \A i \in Tagged(operation.doc, tag) : Answers(operation.doc.controls[i])

CompletenessInv == Staged /\ Stored /\ Opened /\ Locked /\ Answering /\ SubmittedComplete

\* Whatever is done in the editor, the document still comes of the template.
LEMMA PictureShown ==
  ASSUME NEW pub, NEW doc, GoodDocument(pub, doc), NEW i \in PictureControls(doc), NEW images,
         NEW new, DOMAIN new = DocumentNames, new.links = doc.links, new.requires = doc.requires,
         new.controls = [doc EXCEPT !.controls[i].images = images, !.controls[i].showing = FALSE].controls
  PROVE  GoodDocument(pub, new)
<1> DEFINE shown == [doc EXCEPT !.controls[i].images = images, !.controls[i].showing = FALSE]
<1>1. i \in DOMAIN doc.controls /\ Type(doc.controls[i]) = "picture"
  BY DEF PictureControls, Read
<1>2. GoodDocument(pub, shown)
  BY <1>1, PictureGood
<1>3. DOMAIN doc = DocumentNames
  BY DEF GoodDocument
<1>4. shown.links = doc.links /\ shown.requires = doc.requires
  BY <1>3 DEF DocumentNames
<1> HIDE DEF shown
<1>5. new.controls = shown.controls /\ new.links = shown.links /\ new.requires = shown.requires
  BY <1>4 DEF shown
<1> QED BY <1>2, <1>5, SidesGood

\* The user changes a control.
LEMMA ChangeStep ==
  ASSUME Staged, Stored, Opened, NEW i, ChangeControl(i)
  PROVE  editor'.mode = editor.mode /\ DOMAIN editor' = EditorNames /\ GoodDocument(Published, editor'.doc)
<1> DEFINE doc == editor.doc
<1>1. editor.mode # None /\ i \in Read(doc)
  BY DEF ChangeControl, Editing
<1>2. GoodDocument(Published, doc) /\ i \in DOMAIN doc.controls /\ Sound(Published)
  BY <1>1, TemplateSound DEF Opened, Read, Staged
<1>3. PICK c \in Changed(doc.controls[i]) : editor' = [editor EXCEPT !.doc.controls[i] = c]
  BY DEF ChangeControl
<1>4. GoodControl(Published, c)
  BY <1>2, <1>3, GoodControls, ChangedGood DEF Follows
<1>5. DOMAIN editor = EditorNames
  BY DEF Staged
<1> DEFINE new == [doc EXCEPT !.controls[i] = c]
<1>6. editor' = [editor EXCEPT !.doc = new]
  BY <1>3
<1>7. GoodDocument(Published, new)
  BY <1>2, <1>4, ReplacedGood
<1> HIDE DEF new
<1> QED BY <1>5, <1>6, <1>7 DEF EditorNames

\* Deletes one.
LEMMA DeleteStep ==
  ASSUME Staged, Stored, Opened, NEW i, DeleteControl(i)
  PROVE  editor'.mode = editor.mode /\ DOMAIN editor' = EditorNames /\ GoodDocument(Published, editor'.doc)
<1> DEFINE doc == editor.doc
           new == [doc EXCEPT !.controls = RemoveAt(@, i)]
<1>1. /\ editor.mode # None /\ i \in Read(doc)
      /\ editor' = [editor EXCEPT !.doc.controls = RemoveAt(@, i), !.placed = RemoveAt(@, i)]
  BY DEF DeleteControl, Editing
<1>2. GoodDocument(Published, doc) /\ i \in DOMAIN doc.controls /\ DOMAIN editor = EditorNames
  BY <1>1 DEF Opened, Read, Staged
<1>3. editor'.mode = editor.mode /\ editor'.doc = new /\ DOMAIN editor' = EditorNames
  BY <1>1, <1>2 DEF EditorNames
<1>4. GoodDocument(Published, new)
  BY <1>2, RemovedGood
<1> HIDE DEF new
<1> QED BY <1>2, <1>3, <1>4 DEF EditorNames

\* Duplicates one.
LEMMA DuplicateStep ==
  ASSUME Staged, Stored, Opened, NEW i, DuplicateControl(i)
  PROVE  editor'.mode = editor.mode /\ DOMAIN editor' = EditorNames /\ GoodDocument(Published, editor'.doc)
<1> DEFINE doc == editor.doc
           new == [doc EXCEPT !.controls = Append(@, doc.controls[i])]
<1>1. /\ editor.mode # None /\ i \in Read(doc)
      /\ editor' = [editor EXCEPT !.doc.controls = Append(@, editor.doc.controls[i]),
                                  !.placed = Append(@, editor.placed[i])]
  BY DEF DuplicateControl, Editing
<1>2. GoodDocument(Published, doc) /\ i \in DOMAIN doc.controls /\ DOMAIN editor = EditorNames
  BY <1>1 DEF Opened, Read, Staged
<1>3. editor'.mode = editor.mode /\ editor'.doc = new /\ DOMAIN editor' = EditorNames
  BY <1>1, <1>2 DEF EditorNames
<1>4. GoodDocument(Published, new)
  BY <1>2, RepeatedGood
<1> HIDE DEF new
<1> QED BY <1>2, <1>3, <1>4 DEF EditorNames

\* Removes a picture.
LEMMA RemovePictureStep ==
  ASSUME Staged, Stored, Opened, NEW i, RemovePicture(i)
  PROVE  editor'.mode = editor.mode /\ DOMAIN editor' = EditorNames /\ GoodDocument(Published, editor'.doc)
<1> DEFINE doc == editor.doc
           new == [doc EXCEPT !.controls[i].images = <<>>, !.controls[i].showing = TRUE]
<1>1. /\ editor.mode # None /\ i \in PictureControls(doc)
      /\ editor' = [editor EXCEPT !.doc.controls[i].images = <<>>, !.doc.controls[i].showing = TRUE,
                                  !.placed[i] = None]
  BY DEF RemovePicture, Editing
<1>2. GoodDocument(Published, doc) /\ DOMAIN editor = EditorNames
  BY <1>1 DEF Opened, Staged
<1>3. editor'.mode = editor.mode /\ editor'.doc = new /\ DOMAIN editor' = EditorNames
  BY <1>1, <1>2 DEF EditorNames
<1>4. i \in DOMAIN doc.controls /\ Type(doc.controls[i]) = "picture"
  BY <1>1 DEF PictureControls, Read
<1>5. GoodDocument(Published, new)
  BY <1>2, <1>4, PictureGood
<1> HIDE DEF new
<1> QED BY <1>3, <1>5

\* Inserts one.
LEMMA InsertPictureStep ==
  ASSUME Staged, Stored, Opened, NEW i, NEW image, InsertPicture(i, image)
  PROVE  editor'.mode = editor.mode /\ DOMAIN editor' = EditorNames /\ GoodDocument(Published, editor'.doc)
<1> DEFINE doc == editor.doc
           part == doc.controls[i].part
           rel == Len(doc.rels[part]) + 1
           shown == [doc EXCEPT !.controls[i].images = <<rel>>, !.controls[i].showing = FALSE]
           new == [shown EXCEPT !.media = Append(@, [image |-> image, own |-> FALSE]),
                                !.rels[part] = Append(@, Len(shown.media) + 1)]
<1>1. /\ editor.mode # None /\ i \in PictureControls(doc)
      /\ editor' = [editor EXCEPT !.doc = new, !.placed[i] = image]
  BY DEF InsertPicture, Editing, InPicture
<1>2. GoodDocument(Published, doc) /\ DOMAIN editor = EditorNames
  BY <1>1 DEF Opened, Staged
<1> HIDE DEF new
<1>3. editor'.mode = editor.mode /\ editor'.doc = new /\ DOMAIN editor' = EditorNames
  BY <1>1, <1>2 DEF EditorNames
<1>4. DOMAIN doc = DocumentNames
  BY <1>2 DEF GoodDocument
<1> HIDE DEF rel
<1>5. DOMAIN new = DocumentNames /\ new.links = doc.links /\ new.requires = doc.requires /\ new.controls = shown.controls
  BY <1>4 DEF DocumentNames, new
<1>6. GoodDocument(Published, new)
  BY <1>1, <1>2, <1>5, PictureShown
<1> QED BY <1>3, <1>6

\* Copies one.
LEMMA CopyPictureStep ==
  ASSUME Staged, Stored, Opened, NEW i, NEW j, CopyPicture(i, j)
  PROVE  editor'.mode = editor.mode /\ DOMAIN editor' = EditorNames /\ GoodDocument(Published, editor'.doc)
<1> DEFINE doc == editor.doc
           c == doc.controls[j]
           part == c.part
           shown(rel) == [doc EXCEPT !.controls[i].images = <<rel>>, !.controls[i].showing = FALSE]
           own == Len(doc.rels[part]) + 1
           more == [shown(own) EXCEPT !.rels[part] = Append(@, doc.rels[part][c.images[1]])]
<1>1. /\ editor.mode # None /\ i \in PictureControls(doc)
      /\ \E new \in {shown(c.images[1]), more} :
           editor' = [editor EXCEPT !.doc = new, !.placed[i] = editor.placed[j]]
  BY DEF CopyPicture, Editing, InPicture
<1>2. GoodDocument(Published, doc) /\ DOMAIN editor = EditorNames
  BY <1>1 DEF Opened, Staged
<1>4. DOMAIN doc = DocumentNames
  BY <1>2 DEF GoodDocument
<1> HIDE DEF own
<1>5. /\ DOMAIN shown(c.images[1]) = DocumentNames /\ shown(c.images[1]).links = doc.links
      /\ shown(c.images[1]).requires = doc.requires
  BY <1>4 DEF DocumentNames
<1>6. DOMAIN more = DocumentNames /\ more.links = doc.links /\ more.requires = doc.requires /\ more.controls = shown(own).controls
  BY <1>4 DEF DocumentNames
<1>7. GoodDocument(Published, shown(c.images[1]))
  BY <1>1, <1>2, <1>5, PictureShown
<1>8. GoodDocument(Published, more)
  <2> HIDE DEF more
  <2> QED BY <1>1, <1>2, <1>6, PictureShown
<1> HIDE DEF shown, more
<1>9. PICK new \in {shown(c.images[1]), more} :
        editor' = [editor EXCEPT !.doc = new, !.placed[i] = editor.placed[j]]
  BY <1>1
<1>10. editor'.mode = editor.mode /\ editor'.doc = new /\ DOMAIN editor' = EditorNames
  BY <1>2, <1>9 DEF EditorNames
<1> QED BY <1>7, <1>8, <1>9, <1>10

\* Each of these.
LEMMA EditStep ==
  ASSUME Staged, Stored, Opened, Edit
  PROVE  /\ editor'.mode = editor.mode /\ DOMAIN editor' = EditorNames /\ GoodDocument(Published, editor'.doc)
         /\ UNCHANGED <<template, method, snapshot, response, operation>>
<1>1. ASSUME NEW i, ChangeControl(i) \/ DeleteControl(i) \/ DuplicateControl(i) \/ RemovePicture(i)
      PROVE  /\ editor'.mode = editor.mode /\ DOMAIN editor' = EditorNames /\ GoodDocument(Published, editor'.doc)
             /\ UNCHANGED <<template, method, snapshot, response, operation>>
  <2>1. UNCHANGED <<template, method, snapshot, response, operation>>
    BY <1>1 DEF ChangeControl, DeleteControl, DuplicateControl, RemovePicture, Editing
  <2> QED BY <1>1, <2>1, ChangeStep, DeleteStep, DuplicateStep, RemovePictureStep
<1>2. ASSUME NEW i, NEW image, InsertPicture(i, image)
      PROVE  /\ editor'.mode = editor.mode /\ DOMAIN editor' = EditorNames /\ GoodDocument(Published, editor'.doc)
             /\ UNCHANGED <<template, method, snapshot, response, operation>>
  <2>1. UNCHANGED <<template, method, snapshot, response, operation>>
    BY <1>2 DEF InsertPicture, Editing
  <2> QED BY <1>2, <2>1, InsertPictureStep
<1>3. ASSUME NEW i, NEW j, CopyPicture(i, j)
      PROVE  /\ editor'.mode = editor.mode /\ DOMAIN editor' = EditorNames /\ GoodDocument(Published, editor'.doc)
             /\ UNCHANGED <<template, method, snapshot, response, operation>>
  <2>1. UNCHANGED <<template, method, snapshot, response, operation>>
    BY <1>3 DEF CopyPicture, Editing
  <2> QED BY <1>3, <2>1, CopyPictureStep
<1> QED BY <1>1, <1>2, <1>3 DEF Edit

---------------------------------------------------------------------------
(* What a step leaves alone *)

\* The template stays the template.
LEMMA SameTemplate ==
  ASSUME template' = template
  PROVE  Published' = Published /\ Fields' = Fields /\ NativeTemplates' = NativeTemplates /\ Manifests' = Manifests
  BY DEF Published, Fields

\* What is stored, where neither the Response nor its Prefill changes.
LEMMA StoredKept ==
  ASSUME Stored, SubmittedComplete, UNCHANGED <<template, snapshot, response>>
  PROVE  Stored' /\ SubmittedComplete'
<1>1. Published' = Published /\ Fields' = Fields
  BY SameTemplate
<1> QED BY <1>1 DEF Stored, SubmittedComplete

\* The document that is open.
LEMMA OpenedKept ==
  ASSUME Opened, UNCHANGED <<template, editor>>
  PROVE  Opened'
<1>1. Published' = Published
  BY SameTemplate
<1> QED BY <1>1 DEF Opened

\* The save that is in progress.
LEMMA OperationKept ==
  ASSUME Locked, Answering, UNCHANGED <<template, snapshot, operation>>
  PROVE  Locked' /\ Answering'
<1>1. Published' = Published /\ Fields' = Fields /\ NativeTemplates' = NativeTemplates
  BY SameTemplate
<1> QED BY <1>1 DEF Locked, Answering

\* No save is in progress.
LEMMA OperationNone ==
  ASSUME operation' = NoOperation
  PROVE  Locked' /\ Answering'
<1>1. operation'.action = None
  BY DEF NoOperation
<1> QED BY <1>1 DEF Locked, Answering

\* The states of a Response are told apart.
LEMMA StatusNames == None \notin {"draft", "submitting", "submitted"} /\ "draft" # "submitted" /\ "submitting" # "submitted"
  BY DEF None

\* A Response that is not submitted, or that stays submitted as it was.
LEMMA StatusChanged ==
  ASSUME Stored, SubmittedComplete, DOMAIN response = ResponseNames, response.status # None,
         UNCHANGED <<template, snapshot>>, NEW status, response' = [response EXCEPT !.status = status],
         status = "submitted" => response.status = "submitted"
  PROVE  Stored' /\ SubmittedComplete' /\ DOMAIN response' = ResponseNames /\ response'.status = status
<1>1. Published' = Published /\ Fields' = Fields
  BY SameTemplate
<1>2. /\ response'.status = status /\ response'.doc = response.doc /\ response'.data = response.data
      /\ response'.unread = response.unread /\ DOMAIN response' = ResponseNames
  BY DEF ResponseNames
<1> QED BY <1>1, <1>2 DEF Stored, SubmittedComplete

\* The names of the parts of the state.
LEMMA Shapes ==
  /\ DOMAIN NoResponse = ResponseNames /\ NoResponse.status = None /\ NoResponse.data = NoData
  /\ DOMAIN NoEditor = EditorNames /\ NoEditor.mode = None
  /\ DOMAIN NoOperation = OperationNames /\ NoOperation.action = None /\ NoOperation.native = FALSE
  BY DEF NoResponse, NoEditor, NoOperation, ResponseNames, EditorNames, OperationNames

\* The invariant holds when nothing is published.
LEMMA CompletenessStart == Init => CompletenessInv
<1> SUFFICES ASSUME Init PROVE CompletenessInv
  OBVIOUS
<1>1. /\ template = None /\ response = NoResponse /\ editor = NoEditor /\ operation = NoOperation
      /\ method # "native"
  BY DEF Init
<1>2. response.status = None /\ editor.mode = None /\ operation.action = None /\ operation.native = FALSE
  BY <1>1, Shapes
<1>3. Staged
  BY <1>1, <1>2, Shapes DEF Staged
<1>4. Stored /\ Opened /\ Locked /\ Answering /\ SubmittedComplete
  BY <1>2, StatusNames DEF Stored, Opened, Locked, Answering, SubmittedComplete
<1> QED BY <1>3, <1>4 DEF CompletenessInv

---------------------------------------------------------------------------
(* Steps that save nothing *)

\* A Form is published: there is no Response yet.
LEMMA PublishStep ==
  ASSUME CompletenessInv, NEW name \in Templates, Publish(name)
  PROVE  CompletenessInv'
<1>1. /\ template = None /\ name \in DOMAIN Manifests /\ template' = name
      /\ UNCHANGED <<method, snapshot, response, editor, operation, count>>
  BY DEF Publish
<1>2. response.status = None /\ editor.mode = None /\ operation.action = None
  BY <1>1 DEF CompletenessInv, Staged
<1>3. template' \in DOMAIN Manifests
  BY <1>1
<1>4. Staged'
  BY <1>1, <1>2, <1>3 DEF CompletenessInv, Staged
<1>5. Stored' /\ Opened' /\ Locked' /\ Answering' /\ SubmittedComplete'
  BY <1>1, <1>2, StatusNames DEF Stored, Opened, Locked, Answering, SubmittedComplete
<1> QED BY <1>4, <1>5 DEF CompletenessInv

\* Values tried for a field are checks, or texts that no label of an option is.
LEMMA SampleEntries ==
  ASSUME NEW field, GoodField(field), NEW value \in Samples(field)
  PROVE  value \in Entries \cup {<<>>, True, False}
<1>1. ASSUME NEW option \in Values(field) PROVE option \in Entries \cup {<<>>}
  <2>1. PICK k \in DOMAIN field.options : option = field.options[k].value
    BY DEF Values
  <2> QED BY <2>1 DEF GoodField, OptionsReadable
<1>2. CASE field.type = "text"
  BY <1>2 DEF Samples, Entries
<1>3. CASE field.type = "combo"
  BY <1>1, <1>3 DEF Samples, Entries
<1>4. CASE field.type = "dropdown"
  BY <1>1, <1>4 DEF Samples
<1>5. CASE field.type = "checkbox"
  BY <1>5 DEF Samples
<1>6. CASE field.type = "date"
  <2> DEFINE date == [year |-> 2025, month |-> 3, day |-> 4]
  <2>1. date \in Dates
    BY DEF Dates
  <2>2. value = Iso(date)
    BY <1>6 DEF Samples
  <2>3. value \in IsoDates
    BY <2>1, <2>2 DEF IsoDates
  <2> QED BY <2>3 DEF Entries
<1>7. CASE field.type = "picture"
  BY <1>7 DEF Samples
<1> QED BY <1>2, <1>3, <1>4, <1>5, <1>6, <1>7 DEF GoodField, FieldTypes

\* Those that are accepted for a field are valid.  No text is no value of a combo box, unless one of its
\* options has it.
LEMMA EntryValid ==
  ASSUME NEW field, GoodField(field), NEW value \in Entries \cup {<<>>, True, False},
         value = Null \/ ManifestFieldValueMatches(field, value),
         field.type = "combo" /\ value = <<>> => value \in Values(field)
  PROVE  Valid(field, value)
<1>1. CASE field.type \notin {"text", "combo"}
  BY <1>1, KindValid
<1>2. CASE field.type \in {"text", "combo"}
  <2>1. value = Null \/ value \in Entries \cup {<<>>}
    BY <1>2, ConstantTexts DEF ManifestFieldValueMatches, IsText
  <2>2. CASE value = Null
    BY <2>2, NullValid
  <2>3. CASE value \in Entries
    <3>1. value \in Words /\ value \in Texts
      BY <2>3, EntriesMade
    <3> QED BY <2>3, <3>1 DEF Valid, Fits
  <2>4. CASE value = <<>>
    <3>1. value \in Words /\ value \in Texts
      BY <2>4, EmptyTrim
    <3>2. field.type = "combo" => value \in Values(field)
      BY <2>4
    <3> QED BY <3>1, <3>2 DEF Valid, Fits
  <2> QED BY <2>1, <2>2, <2>3, <2>4
<1> QED BY <1>1, <1>2

\* A Prefill that is accepted.
LEMMA PrefillsGood ==
  ASSUME template \in DOMAIN Manifests, NEW prefill \in Prefills,
         \A tag \in DOMAIN prefill.values : /\ tag \in DOMAIN Fields
                                            /\ ManifestFieldValueMatches(Fields[tag], prefill.values[tag])
  PROVE  SnapGood(Published, prefill)
<1>1. Sound(Published) /\ ParseTemplateFields(Published) /\ Fields = Manifest(Published)
  BY TemplateSound
<1>2. CASE prefill = NoSnapshot
  <2>1. DOMAIN prefill.values = {} /\ prefill.locked = {}
    BY <1>2 DEF NoSnapshot, NoData
  <2> QED BY <2>1 DEF SnapGood
<1>3. CASE prefill # NoSnapshot
  <2> DEFINE values == (UNION {Samples(Fields[other]) : other \in DOMAIN Fields}) \ {<<>>}
             from(tag) == {[values |-> Only(tag, value), locked |-> locked] : locked \in {{}, {tag}}, value \in values}
  <2>1. prefill \in UNION {from(tag) : tag \in DOMAIN Fields}
    BY <1>3 DEF Prefills
  <2>2. PICK tag \in DOMAIN Fields : prefill \in from(tag)
    BY <2>1
  <2>3. PICK locked \in {{}, {tag}}, value \in values : prefill = [values |-> Only(tag, value), locked |-> locked]
    BY <2>2
  <2>4. PICK other \in DOMAIN Fields : value \in Samples(Fields[other])
    BY <2>3
  <2>5. value \in Entries \cup {True, False}
    <3>1. PICK field : field = Fields[other]
      OBVIOUS
    <3>3. field = Manifest(Published)[other] /\ other \in DOMAIN Manifest(Published)
      BY <1>1, <3>1
    <3>4. GoodField(field)
      BY <1>1, <3>3, FieldGood
    <3>2. GoodField(field) /\ value \in Samples(field) /\ value # <<>>
      <4>1. value # <<>>
        BY <2>3
      <4>2. value \in Samples(field)
        BY <2>4, <3>1
      <4> QED BY <3>4, <4>1, <4>2
    <3> HIDE DEF values
    <3> QED BY <3>2, SampleEntries
  <2> HIDE DEF values, from
  <2>6. prefill.values = Only(tag, value) /\ prefill.locked = locked
    BY <2>3
  <2>7. DOMAIN prefill.values = {tag} /\ prefill.values[tag] = value
    BY <2>6 DEF Only
  <2>8. prefill.locked \subseteq {tag}
    BY <2>3, <2>6
  <2>9. PICK field : field = Manifest(Published)[tag]
    OBVIOUS
  <2>10. ManifestFieldValueMatches(field, value) /\ GoodField(field)
    BY <1>1, <2>7, <2>9, FieldGood
  <2>11. value # <<>>
    BY <2>5, EntriesMade, ConstantTexts
  <2>12. Valid(field, value)
    BY <2>5, <2>10, <2>11, EntryValid
  <2> QED BY <1>1, <2>7, <2>8, <2>9, <2>10, <2>12 DEF SnapGood
<1> QED BY <1>2, <1>3

\* A Response is started on the template, with its Prefill.
LEMMA StartStep ==
  ASSUME CompletenessInv, NEW prefill \in Prefills, Start(prefill)
  PROVE  CompletenessInv'
<1> DEFINE placed == [tag \in PictureTags(Fields) |-> Pictured(Published, FieldControl(Published, tag))]
<1>1. /\ template # None /\ response.status = None
      /\ \A tag \in DOMAIN prefill.values : /\ tag \in DOMAIN Fields
                                            /\ ManifestFieldValueMatches(Fields[tag], prefill.values[tag])
      /\ snapshot' = prefill
      /\ response' = [NoResponse EXCEPT !.status = "draft", !.doc = Published, !.placed = placed]
      /\ UNCHANGED <<template, method, editor, operation, count>>
  BY DEF Start
<1> HIDE DEF placed
<1>2. template \in DOMAIN Manifests /\ editor.mode = None /\ operation.action = None
  BY <1>1 DEF CompletenessInv, Staged
<1>3. /\ DOMAIN response' = ResponseNames /\ response'.status = "draft" /\ response'.doc = Published
      /\ response'.data = NoData
  BY <1>1, Shapes DEF ResponseNames
<1>4. Staged'
  BY <1>1, <1>2, <1>3 DEF CompletenessInv, Staged
<1>5. Sound(Published) /\ Published' = Published
  BY <1>1, <1>2, TemplateSound, SameTemplate
<1>6. Stored'
  <2>1. GoodDocument(Published, Published)
    BY <1>5, PublishedGood
  <2>2. ValidData(Published, NoData)
    BY DEF ValidData, NoData
  <2>3. SnapGood(Published, prefill)
    BY <1>1, <1>2, PrefillsGood
  <2> QED BY <1>1, <1>3, <1>5, <2>1, <2>2, <2>3 DEF Stored
<1>7. Opened' /\ Locked' /\ Answering' /\ SubmittedComplete'
  BY <1>1, <1>2, <1>3, StatusNames DEF Opened, Locked, Answering, SubmittedComplete
<1> QED BY <1>4, <1>6, <1>7 DEF CompletenessInv

\* An editor is opened on the stored document, prefilled or not.
LEMMA OpenStep ==
  ASSUME CompletenessInv, NEW mode \in {"fill", "draft", "correction"}, OpenEditor(mode)
  PROVE  CompletenessInv'
<1> DEFINE filled == ApplyPrefill(Published, response.doc, snapshot.values, snapshot.locked)
           corrected == ApplyPrefill(Published, response.doc, LockedValues, snapshot.locked)
<1>1. /\ operation = NoOperation /\ response.status \in {"submitted", "draft"}
      /\ editor' = [mode |-> mode, placed |-> PlacedIn(response.doc, response.placed),
                    doc |-> CASE mode = "fill" -> filled
                              [] mode = "correction" -> corrected
                              [] mode = "draft" -> response.doc]
      /\ UNCHANGED <<template, method, snapshot, response, operation, count>>
  BY DEF OpenEditor
<1>2. editor'.doc \in {filled, corrected, response.doc} /\ DOMAIN editor' = EditorNames /\ editor'.mode = mode
  BY <1>1 DEF EditorNames
<1>3. response.status # None /\ mode # None
  BY <1>1 DEF None
<1>4. /\ Sound(Published) /\ ParseTemplateFields(Published) /\ Fields = Manifest(Published)
      /\ GoodDocument(Published, response.doc) /\ SnapGood(Published, snapshot)
  BY <1>3, TemplateSound DEF CompletenessInv, Staged, Stored
<1>5. GoodDocument(Published, filled)
  BY <1>4, PrefillGood DEF SnapGood
<1>6. GoodDocument(Published, corrected)
  <2>1. \A tag \in DOMAIN LockedValues :
          /\ tag \in DOMAIN Manifest(Published) /\ Valid(Manifest(Published)[tag], LockedValues[tag])
          /\ ManifestFieldValueMatches(Manifest(Published)[tag], LockedValues[tag])
    BY <1>4 DEF SnapGood, LockedValues
  <2> HIDE DEF LockedValues
  <2> QED BY <1>4, <2>1, PrefillGood
<1> HIDE DEF filled, corrected
<1>7. Opened'
  <2>1. Published' = Published
    BY <1>1, SameTemplate
  <2> QED BY <1>2, <1>4, <1>5, <1>6, <2>1 DEF Opened
<1>8. Staged'
  BY <1>1, <1>2, <1>3 DEF CompletenessInv, Staged
<1> QED BY <1>1, <1>7, <1>8, StoredKept, OperationKept DEF CompletenessInv

\* The way a Form is filled in changes nothing of what is stored.
LEMMA SwitchStep ==
  ASSUME CompletenessInv, SwitchFillMethod
  PROVE  CompletenessInv'
<1>1. /\ UNCHANGED <<template, snapshot, response, editor, operation, count>>
      /\ response.status = "draft" /\ (method' = "native" => template \in NativeTemplates)
  BY DEF SwitchFillMethod
<1>2. response.status # None
  BY <1>1, StatusNames
<1>3. Staged'
  BY <1>1, <1>2 DEF CompletenessInv, Staged
<1> QED BY <1>1, <1>3, StoredKept, OpenedKept, OperationKept DEF CompletenessInv

\* What was not saved is lost.
LEMMA CloseStep ==
  ASSUME CompletenessInv, CloseEditor
  PROVE  CompletenessInv'
<1>1. editor' = NoEditor /\ UNCHANGED <<template, method, snapshot, response, operation, count>>
  BY DEF CloseEditor
<1>2. DOMAIN editor' = EditorNames /\ editor'.mode = None
  BY <1>1, Shapes
<1>3. Staged' /\ Opened'
  BY <1>1, <1>2 DEF CompletenessInv, Staged, Opened
<1> QED BY <1>1, <1>3, StoredKept, OperationKept DEF CompletenessInv

\* The document that is open is edited.
LEMMA EditorStep ==
  ASSUME CompletenessInv, editor.mode # None, Edit
  PROVE  CompletenessInv'
<1>1. /\ editor'.mode = editor.mode /\ DOMAIN editor' = EditorNames /\ GoodDocument(Published, editor'.doc)
      /\ UNCHANGED <<template, method, snapshot, response, operation>>
  BY EditStep DEF CompletenessInv
<1>2. Published' = Published
  BY <1>1, SameTemplate
<1>3. Staged' /\ Opened'
  BY <1>1, <1>2 DEF CompletenessInv, Staged, Opened
<1> QED BY <1>1, <1>3, StoredKept, OperationKept DEF CompletenessInv

\* A save fails, and a Response that was being submitted is a draft again.
LEMMA FailStep ==
  ASSUME CompletenessInv, Fail
  PROVE  CompletenessInv'
<1> DEFINE status == IF response.status = "submitting" THEN "draft" ELSE response.status
<1>1. /\ operation.action # None /\ operation' = NoOperation
      /\ response' = [response EXCEPT !.status = status]
      /\ UNCHANGED <<template, method, snapshot, editor, count>>
  BY DEF Fail
<1>2. response.status # None /\ DOMAIN response = ResponseNames
  BY <1>1 DEF CompletenessInv, Staged
<1>3. status # None /\ (status = "submitted" => response.status = "submitted")
  BY <1>2, StatusNames
<1> HIDE DEF status
<1>4. Stored' /\ SubmittedComplete' /\ DOMAIN response' = ResponseNames /\ response'.status = status
  BY <1>1, <1>2, <1>3, StatusChanged DEF CompletenessInv
<1>5. DOMAIN operation' = OperationNames /\ operation'.action = None /\ operation'.native = FALSE
  BY <1>1, Shapes
<1>6. Staged'
  BY <1>1, <1>2, <1>3, <1>4, <1>5 DEF CompletenessInv, Staged
<1> QED BY <1>1, <1>4, <1>6, OpenedKept, OperationNone DEF CompletenessInv

---------------------------------------------------------------------------
(* Steps that ask for a save *)

\* A save that is asked for changes no more of the Response than its state.
LEMMA AskedStored ==
  ASSUME CompletenessInv, response.status # None, NEW action, UNCHANGED <<template, snapshot>>, Submitting(action)
  PROVE  Stored' /\ SubmittedComplete' /\ DOMAIN response' = ResponseNames /\ response'.status # None
<1> DEFINE status == IF action = "submit" THEN "submitting" ELSE response.status
<1>1. response' = [response EXCEPT !.status = status]
  BY DEF Submitting
<1>2. DOMAIN response = ResponseNames
  BY DEF CompletenessInv, Staged
<1>3. status # None /\ (status = "submitted" => response.status = "submitted")
  BY StatusNames
<1> HIDE DEF status
<1> QED BY <1>1, <1>2, <1>3, StatusChanged DEF CompletenessInv

\* Of a required field that was not listed, either the callback writes the value or its tag is unread.
LEMMA UnreadTag ==
  ASSUME NEW reading, NEW again \in BOOLEAN, reading.unlisted # 0, ~again
  PROVE  FieldTag(Published, editor.doc.controls[reading.unlisted]) \in Unread(reading, again)
  BY DEF Unread

\* A save of the document that is open: the data that are accepted answer each required field, and the
\* document shows the answer unless it was not listed, in which case the callback writes it.
LEMMA EditorSaveStep ==
  ASSUME CompletenessInv, editor.mode # None, NEW action \in {"save-draft", "submit", "save-correction"},
         NEW reading \in Readings(editor.doc), RequestEditorSave(action, reading)
  PROVE  CompletenessInv'
<1> DEFINE correction == action = "save-correction"
           read     == ExtractedData(Published, editor.doc, reading)
           given    == Given(read, response.data, correction)
           dates    == IF correction THEN <<>> ELSE ExtractedDates(Published, editor.doc, reading)
           supplied == Normalized(Published, given, dates)
           data     == MergedData(Published, Before(response.data, correction), snapshot, supplied)
           further  == method = "onlyoffice"
           again    == further /\ template \in NativeTemplates
           empties  == IF further THEN CallbackEmptyFieldTags(data, read) ELSE {}
           held     == IF further THEN ServerHeldFieldTags(data, read, snapshot) ELSE {}
           unread   == Unread(reading, again)
<1>1. /\ DOMAIN given \subseteq DOMAIN Fields
      /\ CanonicalDateFields(Fields, given, dates)
      /\ AcceptedData(Published, data, supplied, snapshot, action # "save-draft")
      /\ operation' = [action |-> action, native |-> FALSE, data |-> data, doc |-> editor.doc,
                       placed |-> PlacedOf(editor.doc, editor.placed),
                       empties |-> empties, held |-> held, unread |-> unread]
      /\ Submitting(action)
      /\ UNCHANGED <<template, method, snapshot, editor>>
  BY Zenon DEF RequestEditorSave, CanSave, Given, Before
<1>2. response.status # None /\ template \in DOMAIN Manifests
  BY DEF CompletenessInv, Staged
<1>3. /\ Sound(Published) /\ ParseTemplateFields(Published) /\ Fields = Manifest(Published)
      /\ ValidData(Published, response.data) /\ SnapGood(Published, snapshot) /\ GoodDocument(Published, editor.doc)
  BY <1>2, TemplateSound DEF CompletenessInv, Stored, Opened
<1>4. correction \in BOOLEAN /\ again \in BOOLEAN
  OBVIOUS
<1>5. supplied = Normalized(Published, Given(read, response.data, correction), dates)
  OBVIOUS
<1> HIDE DEF correction, dates, supplied, again
<1>6. ValidData(Published, data)
  <2>1. CanonicalDateFields(Manifest(Published), given, dates) /\ supplied = Normalized(Published, given, dates)
    BY <1>1, <1>3, <1>5
  <2> HIDE DEF given
  <2>2. given = Given(ExtractedData(Published, editor.doc, reading), response.data, correction)
    BY DEF given
  <2> QED BY <1>1, <1>3, <1>4, <2>1, <2>2, EditorSaveValid
<1>7. \A tag \in snapshot.locked : tag \in DOMAIN data /\ data[tag] = snapshot.values[tag]
  BY <1>3, LockedMerged
<1>8. ASSUME action # "save-draft", NEW tag \in ScalarTags(Fields), Fields[tag].required
      PROVE  /\ RequiredMet(Fields[tag], data, tag)
             /\ \/ tag \notin DOMAIN read /\ \A i \in Tagged(editor.doc, tag) : i = reading.unlisted
                \/ \E i \in Tagged(editor.doc, tag) : Answers(editor.doc.controls[i])
  <2>1. AcceptedData(Published, data, supplied, snapshot, TRUE)
    BY <1>1, <1>8
  <2>2. CanonicalDateFields(Manifest(Published), Given(read, response.data, correction), dates)
    BY <1>1, <1>3
  <2> HIDE DEF given
  <2> QED BY <1>3, <1>4, <1>5, <1>8, <2>1, <2>2, EditorSaveAnswers
<1> HIDE DEF data, read, given
<1>9. /\ DOMAIN operation' = OperationNames /\ operation'.action = action /\ operation'.native = FALSE
      /\ operation'.data = data /\ operation'.doc = editor.doc /\ operation'.empties = empties
      /\ operation'.held = held /\ operation'.unread = unread
  <2> HIDE DEF empties, held, unread
  <2> QED BY <1>1 DEF OperationNames
<1>10. Published' = Published /\ Fields' = Fields /\ NativeTemplates' = NativeTemplates
  BY <1>1, SameTemplate
<1>11. Stored' /\ SubmittedComplete' /\ DOMAIN response' = ResponseNames /\ response'.status # None
  BY <1>1, <1>2, AskedStored
<1>12. Staged'
  <2> HIDE DEF empties, held, unread
  <2> QED BY <1>1, <1>2, <1>9, <1>11, StatusNames DEF CompletenessInv, Staged
<1>13. Locked'
  <2>1. ASSUME NEW tag \in snapshot.locked PROVE tag \notin empties \ held
    BY <1>7, <2>1 DEF ServerHeldFieldTags
  <2> HIDE DEF empties, held, unread
  <2> QED BY <1>1, <1>6, <1>7, <1>9, <1>10, <2>1 DEF Locked
<1>14. Answering'
  <2>1. ASSUME action # "save-draft", NEW tag \in ScalarTags(Fields), Fields[tag].required, tag \notin unread
        PROVE  \/ template \in NativeTemplates /\ tag \in held
               \/ Tagged(editor.doc, tag) = {}
               \/ \E i \in Tagged(editor.doc, tag) : Answers(editor.doc.controls[i])
    <3> SUFFICES ASSUME NEW i \in Tagged(editor.doc, tag), tag \notin DOMAIN read,
                        \A j \in Tagged(editor.doc, tag) : j = reading.unlisted
                 PROVE  template \in NativeTemplates /\ tag \in held
      BY <1>8, <2>1
    <3> DEFINE c == editor.doc.controls[i]
    <3>1. i \in DOMAIN editor.doc.controls /\ c.tag = tag /\ i = reading.unlisted
      BY DEF Tagged, Read
    <3>2. GoodControl(Published, c) /\ i # 0
      BY <1>3, <3>1, GoodControls
    <3>3. tag \in DOMAIN Manifest(Published)
      BY <1>3 DEF ScalarTags
    <3>4. FieldTag(Published, c) = tag
      BY <1>3, <2>1, <3>1, <3>2, <3>3, FieldOf, OwnTags
    <3>5. again
      <4> SUFFICES ASSUME ~again PROVE FALSE
        OBVIOUS
      <4>1. FieldTag(Published, c) \in unread
        BY <1>4, <3>1, <3>2, UnreadTag
      <4> QED BY <2>1, <3>4, <4>1
    <3>6. tag \in DOMAIN data
      BY <1>8, <2>1 DEF RequiredMet
    <3> QED BY <3>5, <3>6 DEF again, ServerHeldFieldTags
  <2> HIDE DEF empties, held, unread
  <2>2. ASSUME NEW tag \in ScalarTags(Fields), action # "save-draft", Fields[tag].required
        PROVE  /\ RequiredMet(Fields[tag], data, tag)
               /\ tag \notin unread =>
                    \/ template \in NativeTemplates /\ tag \in held
                    \/ Tagged(editor.doc, tag) = {}
                    \/ \E i \in Tagged(editor.doc, tag) : Answers(editor.doc.controls[i])
    BY <1>8, <2>1, <2>2
  <2> QED BY <1>1, <1>3, <1>9, <1>10, <2>2 DEF Answering
<1> QED BY <1>1, <1>11, <1>12, <1>13, <1>14, OpenedKept DEF CompletenessInv

\* The values that the native editor starts from are valid where they are accepted.
LEMMA NativeTexts ==
  ASSUME NEW pub, Sound(pub), ParseTemplateFields(pub), NEW data, NEW tag \in ScalarTags(Manifest(pub)),
         NEW field, field = Manifest(pub)[tag], tag \in DOMAIN data => Valid(field, data[tag]),
         NEW new, new = NativeValues(Manifest(pub), data)[tag],
         new = Null \/ ManifestFieldValueMatches(field, new)
  PROVE  Valid(field, new)
<1>1. PICK value : value = ValueOf(data, tag)
  OBVIOUS
<1>2. Valid(field, value)
  BY <1>1, NullValid DEF ValueOf
<1>3. field.type \in {"checkbox", "combo", "date", "dropdown", "text"} /\ GoodField(field)
  <2>1. tag \in DOMAIN Manifest(pub) /\ field.type # "picture"
    BY DEF ScalarTags, PictureTags
  <2>2. GoodField(field)
    BY <2>1, FieldGood
  <2> QED BY <2>1, <2>2 DEF GoodField, FieldTypes
<1>4. new = CASE field.type = "checkbox" -> IF value = True THEN True ELSE False
              [] field.type \in {"dropdown", "combo"} -> IF IsText(value) THEN value ELSE Null
              [] field.type = "date" -> IF IsText(value) /\ value # <<>> THEN value ELSE Null
              [] field.type = "text" -> IF IsText(value) THEN value ELSE <<>>
  BY <1>1 DEF NativeValues
<1>5. CASE field.type \notin {"text", "combo"}
  BY <1>3, <1>5, KindValid
<1>6. CASE field.type = "combo"
  <2>1. new \in {value, Null}
    BY <1>4, <1>6
  <2> QED BY <1>2, <2>1, NullValid
<1>7. CASE field.type = "text"
  <2>1. new \in {value, <<>>}
    BY <1>4, <1>7
  <2>2. CASE new = <<>>
    BY <1>7, <2>2, EmptyTrim DEF Valid, Fits
  <2> QED BY <1>2, <2>1, <2>2
<1> QED BY <1>5, <1>6, <1>7

\* So are the changes of a native save.
LEMMA ChangesGood ==
  ASSUME template \in DOMAIN Manifests, NEW changes \in NativeChanges, NEW tag \in DOMAIN changes,
         changes[tag] = Null \/ ManifestFieldValueMatches(Fields[tag], changes[tag])
  PROVE  Valid(Fields[tag], changes[tag])
<1>1. Sound(Published) /\ ParseTemplateFields(Published) /\ Fields = Manifest(Published)
  BY TemplateSound
<1>2. changes # NoData
  BY DEF NoData
<1>3. PICK other \in ScalarTags(Fields) : changes \in {Only(other, value) : value \in Samples(Fields[other])}
  BY <1>2 DEF NativeChanges
<1>4. PICK value \in Samples(Fields[other]) : changes = Only(other, value)
  BY <1>3
<1>5. changes[tag] = value /\ tag = other
  BY <1>4 DEF Only
<1>6. PICK field : field = Fields[tag]
  OBVIOUS
<1>7. GoodField(field) /\ value \in Samples(field) /\ (value = Null \/ ManifestFieldValueMatches(field, value))
  BY <1>1, <1>4, <1>5, <1>6, FieldGood DEF ScalarTags
<1>8. field.type = "combo" /\ value = <<>> => value \in Values(field)
  <2> SUFFICES ASSUME field.type = "combo", value = <<>> PROVE value \in Values(field)
    OBVIOUS
  <2>1. Samples(field) = Values(field) \cup {A}
    BY DEF Samples
  <2>2. value # A
    BY DEF A
  <2> QED BY <1>7, <2>1, <2>2
<1>9. Valid(field, value)
  BY <1>7, <1>8, SampleEntries, EntryValid
<1> QED BY <1>5, <1>6, <1>9

\* At most one picture, of a picture field.
LEMMA UploadsGood ==
  ASSUME NEW pictures \in NativeUploads
  PROVE  \E picture : DOMAIN pictures \subseteq {picture} /\ (DOMAIN pictures # {} => picture \in DOMAIN pictures)
<1>1. CASE pictures = NoData
  BY <1>1 DEF NoData
<1>2. CASE pictures # NoData
  <2>1. PICK tag \in PictureTags(Fields), image \in DOMAIN Images : pictures = Only(tag, image)
    BY <1>2 DEF NativeUploads
  <2> QED BY <2>1 DEF Only
<1> QED BY <1>1, <1>2

\* A native save: with picture fields the document is written at once, and shows what was accepted.
LEMMA NativeSaveStep ==
  ASSUME CompletenessInv, NEW action \in {"save-draft", "submit"}, NEW changes \in NativeChanges,
         NEW pictures \in NativeUploads, RequestNativeSave(action, changes, pictures)
  PROVE  CompletenessInv'
<1> DEFINE stored   == IF response.saved THEN response.data ELSE snapshot.values
           supplied == Override(changes, NativeValues(Fields, stored))
           data     == MergedData(Published, NoData, snapshot, supplied)
           doc      == NativeResponseDocument(response.doc, Fields, data, pictures)
           written  == IF PictureTags(Fields) # {} THEN doc ELSE NoDocument
           placed   == Override(pictures, response.placed)
<1>1. /\ response.status = "draft"
      /\ AcceptedData(Published, data, supplied, snapshot, action = "submit")
      /\ PictureTags(Fields) # {} => CanOverlay(response.doc, Fields) /\ CanPlacePictures(response.doc, Fields, pictures)
      /\ template \in NativeTemplates
      /\ operation' = [NoOperation EXCEPT !.action = action, !.native = TRUE, !.data = data, !.doc = written,
                                          !.placed = placed]
      /\ Submitting(action)
      /\ UNCHANGED <<template, method, snapshot, editor>>
  <2>1. method = "native"
    BY DEF RequestNativeSave
  <2>2. template \in NativeTemplates
    BY <2>1 DEF CompletenessInv, Staged
  <2> QED BY <2>2, Zenon DEF RequestNativeSave, CanSave
<1>2. response.status # None /\ template \in DOMAIN Manifests
  BY <1>1, StatusNames DEF CompletenessInv, Staged
<1>3. /\ Sound(Published) /\ ParseTemplateFields(Published) /\ Fields = Manifest(Published)
      /\ ValidData(Published, response.data) /\ SnapGood(Published, snapshot) /\ GoodDocument(Published, response.doc)
  BY <1>2, TemplateSound DEF CompletenessInv, Stored
<1>4. ASSUME NEW tag \in DOMAIN stored, tag \in DOMAIN Fields PROVE Valid(Fields[tag], stored[tag])
  BY <1>3, <1>4 DEF SnapGood, ValidData
<1> HIDE DEF stored
<1>5. ASSUME NEW tag \in DOMAIN supplied, supplied[tag] = Null \/ ManifestFieldValueMatches(Fields[tag], supplied[tag])
      PROVE  Valid(Fields[tag], supplied[tag])
  <2> DEFINE values == NativeValues(Fields, stored)
  <2>1. /\ tag \in DOMAIN changes \/ tag \in DOMAIN values
        /\ tag \in DOMAIN changes => supplied[tag] = changes[tag]
        /\ tag \notin DOMAIN changes => supplied[tag] = values[tag]
    BY <1>5, Overridden
  <2>2. CASE tag \in DOMAIN changes
    BY <1>2, <1>5, <2>1, <2>2, ChangesGood
  <2>3. CASE tag \notin DOMAIN changes
    <3>1. DOMAIN values = ScalarTags(Fields)
      BY DEF NativeValues
    <3>2. tag \in ScalarTags(Manifest(Published)) /\ tag \in DOMAIN Fields
      BY <1>3, <2>1, <2>3, <3>1 DEF ScalarTags
    <3>3. PICK field, new : field = Manifest(Published)[tag] /\ new = NativeValues(Manifest(Published), stored)[tag]
      OBVIOUS
    <3>4. new = supplied[tag] /\ field = Fields[tag]
      BY <1>3, <2>1, <2>3, <3>3
    <3>5. tag \in DOMAIN stored => Valid(field, stored[tag])
      BY <1>4, <3>2, <3>4
    <3>6. Valid(field, new)
      BY <1>3, <1>5, <3>2, <3>3, <3>4, <3>5, NativeTexts
    <3> QED BY <3>4, <3>6
  <2> QED BY <2>2, <2>3
<1> HIDE DEF supplied
<1>6. ValidData(Published, data)
  <2>1. ValidData(Published, NoData)
    BY DEF ValidData, NoData
  <2>2. \A tag \in DOMAIN supplied \cap DOMAIN Manifest(Published) : LET field == Manifest(Published)[tag] IN
          supplied[tag] = Null \/ ManifestFieldValueMatches(field, supplied[tag]) => Valid(field, supplied[tag])
    BY <1>3, <1>5
  <2> QED BY <1>1, <1>3, <2>1, <2>2, AcceptedValid
<1>7. \A tag \in snapshot.locked : tag \in DOMAIN data /\ data[tag] = snapshot.values[tag]
  BY <1>3, LockedMerged
<1>8. ASSUME action # "save-draft", NEW tag \in ScalarTags(Fields), Fields[tag].required
      PROVE  RequiredMet(Fields[tag], data, tag)
  BY <1>1, <1>3, <1>8 DEF AcceptedData
<1> HIDE DEF data
<1>9. ASSUME PictureTags(Fields) # {}
      PROVE  /\ GoodDocument(Published, doc)
             /\ \A tag \in ScalarTags(Fields) : RequiredMet(Fields[tag], data, tag) =>
                  \A i \in Tagged(doc, tag) : Answers(doc.controls[i])
  <2>1. FlattenSupported(response.doc, DOMAIN Manifest(Published))
    BY <1>1, <1>3, <1>9 DEF CanOverlay
  <2>2. PICK picture : DOMAIN pictures \subseteq {picture} /\ (DOMAIN pictures # {} => picture \in DOMAIN pictures)
    BY UploadsGood
  <2>3. DOMAIN pictures # {} => picture \in PictureTags(Manifest(Published)) /\ PlacesOf(response.doc, picture) # {}
    <3> SUFFICES ASSUME DOMAIN pictures # {}
                 PROVE  picture \in PictureTags(Manifest(Published)) /\ PlacesOf(response.doc, picture) # {}
      OBVIOUS
    <3>1. picture \in PictureTags(Manifest(Published)) /\ Cardinality(PlacesOf(response.doc, picture)) = 1
      BY <1>1, <1>3, <1>9, <2>2 DEF CanPlacePictures
    <3> QED BY <3>1, FS_EmptySet
  <2>4. ~UnsupportedDates(Published)
    BY <1>1, NativeSound
  <2>5. /\ GoodDocument(Published, doc)
        /\ \A tag \in ScalarTags(Fields) : \A i \in Tagged(doc, tag) :
             Met(Fields[tag], ValueOf(data, tag)) => Answers(doc.controls[i])
    BY <1>3, <1>6, <2>1, <2>2, <2>3, <2>4, NativeWritten
  <2> HIDE DEF doc
  <2> QED BY <2>5, RequiredValue
<1> HIDE DEF doc, placed
<1>10. written # NoDocument => PictureTags(Fields) # {} /\ written = doc
  OBVIOUS
<1> HIDE DEF written
<1>11. /\ DOMAIN operation' = OperationNames /\ operation'.action = action /\ operation'.native = TRUE
       /\ operation'.data = data /\ operation'.doc = written /\ operation'.empties = {}
  BY <1>1 DEF NoOperation, OperationNames
<1>12. Published' = Published /\ Fields' = Fields
  BY <1>1, SameTemplate
<1>13. Stored' /\ SubmittedComplete' /\ DOMAIN response' = ResponseNames /\ response'.status # None
  BY <1>1, <1>2, AskedStored
<1>14. Staged'
  BY <1>1, <1>2, <1>11, <1>13 DEF CompletenessInv, Staged, None
<1>15. Locked'
  BY <1>1, <1>6, <1>7, <1>11, <1>12 DEF Locked
<1>16. Answering'
  BY <1>8, <1>9, <1>10, <1>11, <1>12 DEF Answering
<1> QED BY <1>1, <1>13, <1>14, <1>15, <1>16, OpenedKept DEF CompletenessInv

---------------------------------------------------------------------------
(* Steps that complete a save *)

\* What a document and data must be for a save to end with them.
LEMMA CompletedStep ==
  ASSUME CompletenessInv, operation.action # None, NEW doc, NEW data, Completed(doc, data),
         GoodDocument(Published, doc), ValidData(Published, data),
         \A tag \in snapshot.locked : data[tag] = snapshot.values[tag],
         operation.action # "save-draft" =>
           \A tag \in ScalarTags(Fields) \ operation.unread : Fields[tag].required =>
             \E i \in Tagged(doc, tag) : Answers(doc.controls[i])
  PROVE  CompletenessInv'
<1> DEFINE status == IF operation.action = "save-draft" THEN "draft" ELSE "submitted"
<1>1. /\ ValidResponseDocument(doc, Fields, operation.action # "save-draft")
      /\ response' = [status |-> status, doc |-> doc, data |-> data, saved |-> TRUE,
                      placed |-> operation.placed, unread |-> operation.unread]
      /\ editor' = NoEditor
      /\ operation' = NoOperation
      /\ UNCHANGED <<template, method, snapshot, count>>
  BY Zenon DEF Completed
<1>2. /\ DOMAIN response' = ResponseNames /\ response'.status = status /\ response'.doc = doc /\ response'.data = data
      /\ response'.unread = operation.unread
  <2> HIDE DEF status
  <2> QED BY <1>1 DEF ResponseNames
<1>3. /\ DOMAIN editor' = EditorNames /\ editor'.mode = None
      /\ DOMAIN operation' = OperationNames /\ operation'.action = None /\ operation'.native = FALSE
  BY <1>1, Shapes
<1>4. response.status # None /\ template \in DOMAIN Manifests
  BY DEF CompletenessInv, Staged
<1>5. /\ Sound(Published) /\ ParseTemplateFields(Published) /\ Fields = Manifest(Published)
      /\ SnapGood(Published, snapshot)
  BY <1>4, TemplateSound DEF CompletenessInv, Stored
<1>6. Published' = Published /\ Fields' = Fields
  BY <1>1, SameTemplate
<1>7. status # None
  BY DEF None
<1>8. Staged' /\ Opened'
  BY <1>1, <1>2, <1>3, <1>4, <1>7 DEF CompletenessInv, Staged, Opened
<1>9. Stored'
  BY <1>1, <1>2, <1>5, <1>6 DEF Stored
<1>10. SubmittedComplete'
  <2> SUFFICES ASSUME status = "submitted" PROVE SubmittedComplete'
    BY <1>2 DEF SubmittedComplete
  <2>1. operation.action # "save-draft"
    BY StatusNames
  <2>2. ValidResponseDocument(doc, Manifest(Published), TRUE)
    BY <1>1, <1>5, <2>1
  <2>3. Complete(doc, Fields, operation.unread)
    BY <1>5, <2>1, <2>2, AnswersComplete
  <2> HIDE DEF status
  <2> QED BY <1>1, <1>2, <1>6, <2>3 DEF Complete, SubmittedComplete
<1> QED BY <1>1, <1>8, <1>9, <1>10, OperationNone DEF CompletenessInv

\* A required field is written by the server, or its answer was in the document.
LEMMA CallbackStep ==
  ASSUME CompletenessInv, Callback
  PROVE  CompletenessInv'
<1> DEFINE doc == operation.doc
           again == DataReadAgain(doc, Fields, operation.data, operation.empties, operation.held)
           over == OverlayNativeResponseDocument(doc, Fields, again, operation.held)
<1>1. /\ operation.action # None /\ ~operation.native
      /\ template \in NativeTemplates => CanOverlay(doc, Fields) /\ Completed(over, again)
      /\ template \notin NativeTemplates => Completed(doc, operation.data)
  BY Zenon DEF Callback
<1>2. template \in DOMAIN Manifests
  BY <1>1 DEF CompletenessInv, Staged
<1>3. /\ Sound(Published) /\ ParseTemplateFields(Published) /\ Fields = Manifest(Published)
      /\ GoodDocument(Published, doc) /\ ValidData(Published, operation.data)
      /\ \A tag \in snapshot.locked :
           /\ tag \in DOMAIN operation.data /\ operation.data[tag] = snapshot.values[tag]
           /\ tag \notin operation.empties \ operation.held
  BY <1>1, <1>2, TemplateSound DEF CompletenessInv, Locked, Answering
<1>4. ASSUME operation.action # "save-draft", NEW tag \in ScalarTags(Fields), Fields[tag].required
      PROVE  /\ RequiredMet(Fields[tag], operation.data, tag)
             /\ tag \notin operation.unread =>
                  \/ template \in NativeTemplates /\ tag \in operation.held
                  \/ Tagged(doc, tag) = {}
                  \/ \E i \in Tagged(doc, tag) : Answers(doc.controls[i])
  BY <1>1, <1>4 DEF CompletenessInv, Answering
<1>5. CASE template \in NativeTemplates
  <2>1. /\ ValidData(Published, again) /\ \A tag : tag \in DOMAIN again <=> tag \in DOMAIN operation.data
        /\ \A tag \in DOMAIN operation.data :
             tag \notin operation.empties \ operation.held => again[tag] = operation.data[tag]
    BY <1>3, ReadAgain
  <2>2. \A tag \in snapshot.locked : again[tag] = snapshot.values[tag]
    BY <1>3, <2>1
  <2> HIDE DEF again
  <2>3. FlattenSupported(doc, DOMAIN Manifest(Published))
    BY <1>1, <1>3, <1>5 DEF CanOverlay
  <2>6. ~UnsupportedDates(Published)
    BY <1>5, NativeSound
  <2>4. GoodDocument(Published, over)
    BY <1>3, <2>1, <2>3, <2>6, OverlayWritten
  <2>5. ASSUME operation.action # "save-draft", NEW tag \in ScalarTags(Fields) \ operation.unread, Fields[tag].required
        PROVE  \E i \in Tagged(over, tag) : Answers(over.controls[i])
    <3>1. ValidResponseDocument(over, Fields, operation.action # "save-draft")
      BY <1>1, <1>5 DEF Completed
    <3>2. Tagged(over, tag) # {}
      <4>1. tag \in DOMAIN Fields
        BY DEF ScalarTags
      <4> HIDE DEF over
      <4> QED BY <3>1, <4>1, ValidTagged
    <3>3. RequiredMet(Fields[tag], operation.data, tag)
      BY <1>4, <2>5
    <3>4. \/ tag \in operation.held /\ RequiredMet(Fields[tag], again, tag)
          \/ tag \notin operation.held /\ (Tagged(doc, tag) = {} \/ \E i \in Tagged(doc, tag) : Answers(doc.controls[i]))
      <4>1. CASE tag \in operation.held
        <5>1. tag \in DOMAIN operation.data
          BY <3>3 DEF RequiredMet
        <5>2. tag \in DOMAIN again /\ again[tag] = operation.data[tag]
          BY <2>1, <4>1, <5>1
        <5> QED BY <3>3, <4>1, <5>2 DEF RequiredMet
      <4>2. CASE tag \notin operation.held
        BY <1>4, <2>5, <4>2
      <4> QED BY <4>1, <4>2
    <3> QED BY <1>3, <2>1, <2>3, <2>6, <3>2, <3>4, HeldWritten
  <2> HIDE DEF over
  <2> QED BY <1>1, <1>5, <2>1, <2>2, <2>4, <2>5, CompletedStep
<1>6. CASE template \notin NativeTemplates
  <2>1. ValidResponseDocument(doc, Fields, operation.action # "save-draft")
    BY <1>1, <1>6 DEF Completed
  <2>2. ASSUME operation.action # "save-draft", NEW tag \in ScalarTags(Fields) \ operation.unread, Fields[tag].required
        PROVE  \E i \in Tagged(doc, tag) : Answers(doc.controls[i])
    <3>1. Tagged(doc, tag) # {}
      BY <2>1, ValidTagged DEF ScalarTags
    <3> QED BY <1>4, <1>6, <2>2, <3>1
  <2> QED BY <1>1, <1>3, <1>6, <2>2, CompletedStep
<1> QED BY <1>5, <1>6

\* A native save without picture fields is written on the published document.
LEMMA ProcessStep ==
  ASSUME CompletenessInv, ProcessNative
  PROVE  CompletenessInv'
<1> DEFINE written == NativeResponseDocument(Published, Fields, operation.data, NoData)
           doc == IF operation.doc = NoDocument THEN written ELSE operation.doc
<1>1. operation.native /\ (operation.doc = NoDocument => CanOverlay(Published, Fields)) /\ Completed(doc, operation.data)
  BY Zenon DEF ProcessNative
<1>2. operation.action # None /\ template \in DOMAIN Manifests
  BY <1>1 DEF CompletenessInv, Staged
<1>3. /\ Sound(Published) /\ ParseTemplateFields(Published) /\ Fields = Manifest(Published)
      /\ ValidData(Published, operation.data)
      /\ \A tag \in snapshot.locked : operation.data[tag] = snapshot.values[tag]
  BY <1>2, TemplateSound DEF CompletenessInv, Locked
<1>4. ASSUME operation.action # "save-draft", NEW tag \in ScalarTags(Fields), Fields[tag].required
      PROVE  /\ RequiredMet(Fields[tag], operation.data, tag)
             /\ operation.doc # NoDocument =>
                  \A i \in Tagged(operation.doc, tag) : Answers(operation.doc.controls[i])
  BY <1>1, <1>2, <1>4 DEF CompletenessInv, Answering
<1>5. GoodDocument(Published, doc) /\ \A tag \in ScalarTags(Fields) :
        operation.action # "save-draft" /\ Fields[tag].required => \A i \in Tagged(doc, tag) : Answers(doc.controls[i])
  <2>1. CASE operation.doc = NoDocument
    <3>1. FlattenSupported(Published, DOMAIN Manifest(Published))
      BY <1>1, <1>3, <2>1 DEF CanOverlay
    <3>2. GoodDocument(Published, Published)
      BY <1>3, PublishedGood
    <3>3. DOMAIN NoData \subseteq {None} /\ DOMAIN NoData = {} /\ ~UnsupportedDates(Published)
      BY <1>1, <1>2, NativeSound DEF NoData, CompletenessInv, Staged
    <3>4. /\ GoodDocument(Published, written)
          /\ \A tag \in ScalarTags(Fields) : \A i \in Tagged(written, tag) :
               Met(Fields[tag], ValueOf(operation.data, tag)) => Answers(written.controls[i])
      BY <1>3, <3>1, <3>2, <3>3, NativeWritten
    <3>5. doc = written
      BY <2>1
    <3> HIDE DEF written, doc
    <3> QED BY <1>4, <3>4, <3>5, RequiredValue
  <2>2. CASE operation.doc # NoDocument
    <3>1. doc = operation.doc
      BY <2>2
    <3>2. GoodDocument(Published, operation.doc)
      BY <1>2, <2>2 DEF CompletenessInv, Answering
    <3> HIDE DEF doc
    <3> QED BY <1>4, <2>2, <3>1, <3>2
  <2> QED BY <2>1, <2>2
<1> HIDE DEF doc
<1>6. ASSUME operation.action # "save-draft", NEW tag \in ScalarTags(Fields) \ operation.unread, Fields[tag].required
      PROVE  \E i \in Tagged(doc, tag) : Answers(doc.controls[i])
  <2>1. ValidResponseDocument(doc, Fields, operation.action # "save-draft")
    BY <1>1 DEF Completed
  <2>2. Tagged(doc, tag) # {}
    BY <2>1, ValidTagged DEF ScalarTags
  <2> QED BY <1>5, <1>6, <2>2
<1> QED BY <1>1, <1>2, <1>3, <1>5, <1>6, CompletedStep

---------------------------------------------------------------------------
(* What a save tells of its fields *)

\* The document has a control of every field.
HasFields(pub, doc) == \A tag \in DOMAIN Manifest(pub) : Tagged(doc, tag) # {}

\* Where tags are lost, no control of a document that comes of the template gives one of a field.
LEMMA NamelessRead ==
  ASSUME NEW pub, Nameless(pub), NEW c, GoodControl(pub, c)
  PROVE  Type(c) # "picture" /\ FieldTag(pub, c) \notin DOMAIN Manifest(pub)
<1>1. PICK k \in DOMAIN pub.controls : SameField(c, pub.controls[k])
  BY DEF GoodControl
<1>2. c.others = pub.controls[k].others /\ c.tag = pub.controls[k].tag /\ c.markers = pub.controls[k].markers
  BY <1>1 DEF SameField
<1>3. FieldTag(pub, c) = FieldTag(pub, pub.controls[k])
  BY <1>2 DEF FieldTag
<1>4. Type(c) = Type(pub.controls[k])
  BY <1>2 DEF Type
<1> QED BY <1>3, <1>4, Zenon DEF Nameless

\* A control that is listed gives a value.
LEMMA ListedRead ==
  ASSUME NEW pub, NEW doc, NEW reading, NEW i \in Read(doc), Type(doc.controls[i]) # "picture", i # reading.unlisted
  PROVE  FieldTag(pub, doc.controls[i]) \in DOMAIN ExtractedData(pub, doc, reading)
<1>1. i \in Listed(doc, reading)
  BY DEF Listed, Scalars
<1> QED BY <1>1 DEF ExtractedData

\* A field of which nothing was read has the control that was not listed.
LEMMA NotRead ==
  ASSUME NEW pub, Sound(pub), ParseTemplateFields(pub), NEW doc, GoodDocument(pub, doc), NEW reading,
         NEW read, read = ExtractedData(pub, doc, reading), DOMAIN read \subseteq DOMAIN Manifest(pub),
         HasFields(pub, doc), NEW tag \in ScalarTags(Manifest(pub)), tag \notin DOMAIN read
  PROVE  /\ reading.unlisted \in DOMAIN doc.controls
         /\ FieldTag(pub, doc.controls[reading.unlisted]) = tag
<1>1. tag \in DOMAIN Manifest(pub) /\ Manifest(pub)[tag].type # "picture"
  BY DEF ScalarTags, PictureTags
<1>2. PICK j \in Tagged(doc, tag) : TRUE
  BY <1>1 DEF HasFields
<1>3. PICK c : c = doc.controls[j]
  OBVIOUS
<1>4. j \in Read(doc) /\ j \in DOMAIN doc.controls /\ c.tag = tag /\ GoodControl(pub, c)
  BY <1>3, GoodControls DEF Tagged, Read
<1>5. Type(c) # "picture"
  BY <1>1, <1>4, FieldOfControl
<1>6. CASE FieldTag(pub, c) = tag
  <2>1. j = reading.unlisted
    BY <1>3, <1>4, <1>5, <1>6, ListedRead
  <2> QED BY <1>3, <1>4, <1>6, <2>1
<1>7. CASE FieldTag(pub, c) # tag
  <2>1. Nameless(pub)
    BY <1>4, <1>7, NamelessTag
  <2>2. PICK other \in DOMAIN Manifest(pub) : other # tag
    BY <1>1, <2>1 DEF Nameless
  <2>3. PICK k \in Tagged(doc, other) : TRUE
    BY DEF HasFields
  <2>4. k \in Read(doc) /\ k \in DOMAIN doc.controls /\ doc.controls[k].tag = other
    BY <2>3 DEF Tagged, Read
  <2>5. k # j
    BY <1>3, <1>4, <2>2, <2>4
  <2>6. PICK i \in {j, k} : i # reading.unlisted
    BY <2>5
  <2>7. PICK d : d = doc.controls[i]
    OBVIOUS
  <2>8. GoodControl(pub, d) /\ i \in Read(doc)
    BY <1>4, <2>4, <2>6, <2>7, GoodControls
  <2>9. Type(d) # "picture" /\ FieldTag(pub, d) \notin DOMAIN Manifest(pub)
    BY <2>1, <2>8, NamelessRead
  <2>10. FieldTag(pub, d) \in DOMAIN read
    BY <2>6, <2>7, <2>8, <2>9, ListedRead
  <2> QED BY <2>9, <2>10
<1> QED BY <1>6, <1>7

\* What is stored of a field that was read is what the reading is taken for.
LEMMA ReadTaken ==
  ASSUME NEW pub, NEW read, NEW old, NEW correction \in BOOLEAN, NEW snap, NEW dates,
         NEW given, given = Given(read, old, correction), CanonicalDateFields(Manifest(pub), given, dates),
         NEW supplied, supplied = Normalized(pub, given, dates),
         NEW data, data = MergedData(pub, Before(old, correction), snap, supplied), NEW required,
         AcceptedData(pub, data, supplied, snap, required),
         NEW tag \in DOMAIN data, tag \in DOMAIN read, NEW field, field = Manifest(pub)[tag]
  PROVE  Taken(FieldControl(pub, tag), field, read[tag], data[tag])
<1>1. tag \in DOMAIN given /\ given[tag] = read[tag]
  BY GivenValues
<1>2. /\ tag \in DOMAIN supplied
      /\ \/ tag \in ToSet(dates) /\ supplied[tag] = read[tag]
         \/ supplied[tag] = NormalizeDisplayValue(FieldControl(pub, tag), field, read[tag])
  BY <1>1, SuppliedValues
<1>3. data[tag] = supplied[tag]
  <2>1. data[tag] = IF tag \in snap.locked THEN snap.values[tag]
                    ELSE IF tag \in DOMAIN supplied THEN supplied[tag] ELSE Before(old, correction)[tag]
    BY MergedValues
  <2>2. tag \in snap.locked => supplied[tag] = snap.values[tag]
    BY <1>2 DEF AcceptedData
  <2> QED BY <1>2, <2>1, <2>2
<1>4. tag \in ToSet(dates) => field.type = "date" /\ read[tag] \in IsoDates
  BY <1>1 DEF CanonicalDateFields
<1>5. data[tag] = Null \/ ManifestFieldValueMatches(field, data[tag])
  BY DEF AcceptedData
<1> QED BY <1>2, <1>3, <1>4, <1>5 DEF Taken

\* How the plugin found a field: it was not listed, its text was missed, or its control tells the value.
Unlisted(pub, doc, reading, tag) ==
  reading.unlisted \in DOMAIN doc.controls /\ FieldTag(pub, doc.controls[reading.unlisted]) = tag
MissedText(pub, doc, reading, field, tag, read) ==
  /\ reading.missed \in Tagged(doc, tag) /\ FieldTag(pub, doc.controls[reading.missed]) = tag
  /\ tag \in DOMAIN read /\ read[tag] = <<>> /\ field.type \in Entered
  /\ Trim(Shown(doc.controls[reading.missed])) # <<>>
ToldText(doc, field, tag, value, read) ==
  AllTell(doc, field, tag, value) /\ (tag \in DOMAIN read /\ read[tag] = <<>> => field.type \in Entered)

\* Of the data of a save the document that is open tells each value that was read.
LEMMA EditorSaveTold ==
  ASSUME NEW pub, Sound(pub), ParseTemplateFields(pub), NEW doc, GoodDocument(pub, doc), NEW reading \in Readings(doc),
         NEW old, NEW correction \in BOOLEAN, NEW snap, NEW dates,
         NEW read, read = ExtractedData(pub, doc, reading), NEW given, given = Given(read, old, correction),
         DOMAIN given \subseteq DOMAIN Manifest(pub), CanonicalDateFields(Manifest(pub), given, dates),
         NEW supplied, supplied = Normalized(pub, given, dates),
         NEW data, data = MergedData(pub, Before(old, correction), snap, supplied), NEW required,
         AcceptedData(pub, data, supplied, snap, required), HasFields(pub, doc),
         NEW tag \in DOMAIN data, tag \in ScalarTags(Manifest(pub)), Together(doc, tag),
         NEW field, field = Manifest(pub)[tag]
  PROVE  \/ tag \notin DOMAIN read /\ Unlisted(pub, doc, reading, tag)
         \/ MissedText(pub, doc, reading, field, tag, read)
         \/ ToldText(doc, field, tag, data[tag], read)
<1>1. tag \in DOMAIN Manifest(pub)
  BY DEF ScalarTags
<1>2. CASE tag \notin DOMAIN read
  <2>1. DOMAIN read \subseteq DOMAIN given
    BY GivenValues
  <2>2. Unlisted(pub, doc, reading, tag)
    BY <1>2, <2>1, NotRead DEF Unlisted
  <2> QED BY <1>2, <2>2
<1>3. CASE tag \in DOMAIN read
  <2>1. PICK v : v = data[tag]
    OBVIOUS
  <2>2. Taken(FieldControl(pub, tag), field, read[tag], v)
    BY <1>3, <2>1, ReadTaken
  <2>3. PICK i \in Tagged(doc, tag) : LET c == doc.controls[i] IN
          \/ /\ reading.missed = i /\ FieldTag(pub, c) = tag
             /\ read[tag] = <<>> /\ field.type \in Entered /\ Trim(Shown(c)) # <<>>
          \/ Tells(c, field, v) /\ (read[tag] = <<>> => field.type \in Entered)
    BY <1>1, <1>3, <2>2, ReadSupplied
  <2>4. PICK c : c = doc.controls[i]
    OBVIOUS
  <2>5. CASE reading.missed = i /\ FieldTag(pub, c) = tag
             /\ read[tag] = <<>> /\ field.type \in Entered /\ Trim(Shown(c)) # <<>>
    BY <1>3, <2>4, <2>5 DEF MissedText
  <2>6. CASE Tells(c, field, v) /\ (read[tag] = <<>> => field.type \in Entered)
    <3>1. ASSUME NEW j \in Tagged(doc, tag) PROVE Tells(doc.controls[j], field, v)
      <4>1. PICK d : d = doc.controls[j]
        OBVIOUS
      <4>2. Like(d, c)
        BY <2>4, <4>1 DEF Together
      <4>3. Tells(d, field, v)
        BY <2>6, <4>2, LikeTells
      <4> QED BY <4>1, <4>3
    <3>2. AllTell(doc, field, tag, v)
      BY <3>1 DEF AllTell
    <3> QED BY <2>1, <2>6, <3>2 DEF ToldText
  <2> QED BY <2>3, <2>4, <2>5, <2>6
<1> QED BY <1>2, <1>3

---------------------------------------------------------------------------
(* The data that are told *)

\* The document of a save tells a value, or the callback makes it, which writes only into documents of
\* templates that can be filled in natively.
ToldIn(natively, op, field, tag) ==
  IF natively
  THEN tag \in op.held \/ HalfTold(op.doc, field, tag, op.data[tag], op.empties)
  ELSE AllTell(op.doc, field, tag, op.data[tag])

\* So for each field that the document that was open shows in one way.
EditorTold(pub, fields, natively, op) ==
  HasFields(pub, op.doc) =>
    \A tag \in (DOMAIN op.data \cap ScalarTags(fields)) \ op.unread :
      Together(op.doc, tag) => ToldIn(natively, op, fields[tag], tag)

\* A document that was written natively tells all data.
NativeTold(fields, op) ==
  \A tag \in DOMAIN op.data \cap ScalarTags(fields) : AllTell(op.doc, fields[tag], tag, op.data[tag])

\* The document of a save that is asked for tells the data that go with it.
Telling ==
  operation.action # None =>
    /\ ~operation.native => EditorTold(Published, Fields, template \in NativeTemplates, operation)
    /\ operation.native /\ operation.doc # NoDocument => NativeTold(Fields, operation)

\* The document that is stored tells the data that are stored with it.
DataTold ==
  response.saved =>
    \A tag \in (DOMAIN response.data \cap ScalarTags(Fields)) \ response.unread :
      Tells(FieldControl(response.doc, tag), Fields[tag], response.data[tag])

\* Nothing is saved before a Response is started.
Begun == response.saved => response.status # None

\* With these parts the inductive invariant accounts for the data.
TellingInv == CompletenessInv /\ Telling /\ DataTold /\ Begun

\* A field whose reading failed is unread, unless the callback finds it.
LEMMA LostTag ==
  ASSUME NEW reading, NEW again \in BOOLEAN, NEW i \in {reading.missed, reading.unlisted} \ {0},
         FieldTag(Published, editor.doc.controls[i]) \notin Unread(reading, again)
  PROVE  again /\ (i = reading.missed => ~editor.doc.controls[i].padded)
  BY DEF Unread

\* A control is like itself.
LEMMA LikeSelf ==
  ASSUME NEW c
  PROVE  Like(c, c)
  BY DEF Like, SameField

\* What is like the same control is alike.
LEMMA LikeBoth ==
  ASSUME NEW c, NEW d, NEW e, Like(c, d), Like(c, e)
  PROVE  Like(d, e)
  BY DEF Like, SameField, Type

\* A document that is accepted has a control of each field, and one only.
LEMMA ValidTogether ==
  ASSUME NEW pub, NEW doc, NEW required, ValidResponseDocument(doc, Manifest(pub), required)
  PROVE  HasFields(pub, doc) /\ \A tag : Together(doc, tag)
<1>1. HasFields(pub, doc)
  BY ValidTagged DEF HasFields
<1>2. UniqueTags(doc)
  BY DEF ValidResponseDocument, ParseTemplateFields
<1>3. ASSUME NEW tag, NEW i \in Tagged(doc, tag), NEW j \in Tagged(doc, tag) PROVE Like(doc.controls[i], doc.controls[j])
  <2>1. i = j
    BY <1>2 DEF UniqueTags, Tagged
  <2> QED BY <2>1, LikeSelf
<1> QED BY <1>1, <1>3 DEF Together

\* What all of the controls of a field tell, the one that is found tells.
LEMMA FoundTells ==
  ASSUME NEW doc, NEW tag, Tagged(doc, tag) # {}, NEW field, NEW value, AllTell(doc, field, tag, value)
  PROVE  Tells(FieldControl(doc, tag), field, value)
  BY TaggedOne DEF AllTell, FieldControl

\* Where nothing is saved and no save is asked for, what is told stays as it was.
LEMMA TellingKept ==
  ASSUME Telling, UNCHANGED <<template, operation>>
  PROVE  Telling'
<1>1. Published' = Published /\ Fields' = Fields /\ NativeTemplates' = NativeTemplates
  BY SameTemplate
<1> QED BY <1>1 DEF Telling

\* Where neither the document nor its data change, they go on telling the same.
LEMMA DataKept ==
  ASSUME DataTold, template' = template, response'.saved = response.saved, response'.doc = response.doc,
         response'.data = response.data, response'.unread = response.unread
  PROVE  DataTold'
<1>1. Fields' = Fields
  BY SameTemplate
<1> QED BY <1>1 DEF DataTold

\* A save of the document that is open.
LEMMA EditorSaveTelling ==
  ASSUME CompletenessInv, editor.mode # None, NEW action \in {"save-draft", "submit", "save-correction"},
         NEW reading \in Readings(editor.doc), RequestEditorSave(action, reading)
  PROVE  Telling'
<1> DEFINE correction == action = "save-correction"
           doc      == editor.doc
           read     == ExtractedData(Published, doc, reading)
           given    == Given(read, response.data, correction)
           dates    == IF correction THEN <<>> ELSE ExtractedDates(Published, doc, reading)
           supplied == Normalized(Published, given, dates)
           data     == MergedData(Published, Before(response.data, correction), snapshot, supplied)
           further  == method = "onlyoffice"
           again    == further /\ template \in NativeTemplates
           empties  == IF further THEN CallbackEmptyFieldTags(data, read) ELSE {}
           held     == IF further THEN ServerHeldFieldTags(data, read, snapshot) ELSE {}
           unread   == Unread(reading, again)
<1>1. /\ DOMAIN given \subseteq DOMAIN Fields
      /\ CanonicalDateFields(Fields, given, dates)
      /\ AcceptedData(Published, data, supplied, snapshot, action # "save-draft")
      /\ operation' = [action |-> action, native |-> FALSE, data |-> data, doc |-> editor.doc,
                       placed |-> PlacedOf(editor.doc, editor.placed),
                       empties |-> empties, held |-> held, unread |-> unread]
      /\ UNCHANGED template
  BY Zenon DEF RequestEditorSave, CanSave, Given, Before
<1>2. template \in DOMAIN Manifests
  BY DEF CompletenessInv, Staged
<1>3. /\ Sound(Published) /\ ParseTemplateFields(Published) /\ Fields = Manifest(Published)
      /\ GoodDocument(Published, doc)
  BY <1>2, TemplateSound DEF CompletenessInv, Opened
<1>4. correction \in BOOLEAN /\ again \in BOOLEAN /\ (again <=> further /\ template \in NativeTemplates)
  OBVIOUS
<1>5. /\ operation'.native = FALSE /\ operation'.data = data /\ operation'.doc = doc
      /\ operation'.empties = empties /\ operation'.held = held /\ operation'.unread = unread
  <2> HIDE DEF empties, held, unread, data
  <2> QED BY <1>1
<1>6. Published' = Published /\ Fields' = Fields /\ NativeTemplates' = NativeTemplates
  BY <1>1, SameTemplate
<1>7. again => \A tag \in DOMAIN data : /\ tag \notin DOMAIN read => tag \in held
                                        /\ tag \in DOMAIN read /\ read[tag] = <<>> => tag \in empties
  BY DEF CallbackEmptyFieldTags, ServerHeldFieldTags
<1>8. \A tag \in empties : tag \in DOMAIN read /\ read[tag] = <<>>
  BY DEF CallbackEmptyFieldTags
<1>9. ASSUME HasFields(Published, doc), NEW tag \in (DOMAIN data \cap ScalarTags(Fields)) \ unread, Together(doc, tag)
      PROVE  IF template \in NativeTemplates
             THEN tag \in held \/ HalfTold(doc, Fields[tag], tag, data[tag], empties)
             ELSE AllTell(doc, Fields[tag], tag, data[tag])
  <2>1. PICK field, value : field = Fields[tag] /\ value = data[tag]
    OBVIOUS
  <2>2. \/ tag \notin DOMAIN read /\ Unlisted(Published, doc, reading, tag)
        \/ MissedText(Published, doc, reading, field, tag, read)
        \/ ToldText(doc, field, tag, value, read)
    <3> HIDE DEF doc, given, dates, supplied, correction, again, empties, held, unread
    <3>1. given = Given(read, response.data, correction)
      BY DEF given
    <3>2. supplied = Normalized(Published, given, dates)
      BY DEF supplied
    <3>3. field = Manifest(Published)[tag] /\ tag \in DOMAIN data /\ tag \in ScalarTags(Manifest(Published))
      BY <1>3, <2>1
    <3>4. DOMAIN given \subseteq DOMAIN Manifest(Published) /\ CanonicalDateFields(Manifest(Published), given, dates)
      BY <1>1, <1>3
    <3>5. reading \in Readings(doc)
      BY DEF doc
    <3>6. PICK required : required = (action # "save-draft")
      OBVIOUS
    <3>7. AcceptedData(Published, data, supplied, snapshot, required)
      BY <1>1, <3>6
    <3> QED BY <1>3, <1>4, <1>9, <2>1, <3>1, <3>2, <3>3, <3>4, <3>5, <3>7, EditorSaveTold
  <2>3. 0 \notin DOMAIN doc.controls
    BY <1>3, ReadingOf
  <2> HIDE DEF empties, held, data, read, again
  <2>4. CASE tag \notin DOMAIN read /\ Unlisted(Published, doc, reading, tag)
    <3>1. reading.unlisted \in DOMAIN doc.controls /\ FieldTag(Published, editor.doc.controls[reading.unlisted]) = tag
      BY <2>4 DEF Unlisted
    <3>2. reading.unlisted \in {reading.missed, reading.unlisted} \ {0}
      BY <2>3, <3>1
    <3> HIDE DEF doc
    <3>3. again
      BY <1>4, <3>1, <3>2, LostTag
    <3> QED BY <1>4, <1>7, <1>9, <2>4, <3>3
  <2>5. CASE MissedText(Published, doc, reading, field, tag, read)
    <3>1. PICK i : i = reading.missed
      OBVIOUS
    <3>2. /\ i \in Tagged(doc, tag) /\ FieldTag(Published, editor.doc.controls[i]) = tag
          /\ tag \in DOMAIN read /\ read[tag] = <<>> /\ field.type \in Entered
          /\ Trim(Shown(doc.controls[i])) # <<>>
      BY <2>5, <3>1 DEF MissedText
    <3>3. i \in {reading.missed, reading.unlisted} \ {0}
      BY <2>3, <3>1, <3>2 DEF Tagged, Read
    <3>4. again /\ ~editor.doc.controls[i].padded
      <4> HIDE DEF doc
      <4> QED BY <1>4, <3>1, <3>2, <3>3, LostTag
    <3>5. tag \in empties
      BY <1>7, <3>2, <3>4
    <3>6. ~doc.controls[i].showing
      <4>1. Shown(doc.controls[i]) # <<>>
        BY <3>2, EmptyTrim
      <4> QED BY <4>1 DEF Shown
    <3>7. Missed(doc, field, tag, empties)
      BY <3>2, <3>4, <3>5, <3>6 DEF Missed
    <3> QED BY <1>4, <2>1, <3>4, <3>7 DEF HalfTold
  <2>6. CASE ToldText(doc, field, tag, value, read)
    BY <1>8, <2>1, <2>6 DEF ToldText, HalfTold
  <2> QED BY <2>2, <2>4, <2>5, <2>6
<1> HIDE DEF empties, held, unread, data, doc
<1>10. EditorTold(Published, Fields, template \in NativeTemplates, operation')
  BY <1>5, <1>9 DEF EditorTold, ToldIn
<1> QED BY <1>1, <1>5, <1>6, <1>10 DEF Telling

\* A native save whose document is written at once.
LEMMA NativeSaveTelling ==
  ASSUME CompletenessInv, CompletenessInv', NEW action \in {"save-draft", "submit"}, NEW changes \in NativeChanges,
         NEW pictures \in NativeUploads, RequestNativeSave(action, changes, pictures)
  PROVE  Telling'
<1> DEFINE stored   == IF response.saved THEN response.data ELSE snapshot.values
           supplied == Override(changes, NativeValues(Fields, stored))
           data     == MergedData(Published, NoData, snapshot, supplied)
           doc      == NativeResponseDocument(response.doc, Fields, data, pictures)
           written  == IF PictureTags(Fields) # {} THEN doc ELSE NoDocument
           placed   == Override(pictures, response.placed)
<1>1. /\ response.status = "draft" /\ method = "native"
      /\ PictureTags(Fields) # {} => CanOverlay(response.doc, Fields) /\ CanPlacePictures(response.doc, Fields, pictures)
      /\ operation' = [NoOperation EXCEPT !.action = action, !.native = TRUE, !.data = data, !.doc = written,
                                          !.placed = placed]
      /\ UNCHANGED template
  BY Zenon DEF RequestNativeSave, CanSave
<1> HIDE DEF supplied, placed
<1>2. response.status # None /\ template \in DOMAIN Manifests /\ ~UnsupportedDates(Published)
  BY <1>1, StatusNames, NativeSound DEF CompletenessInv, Staged
<1>3. /\ Sound(Published) /\ ParseTemplateFields(Published) /\ Fields = Manifest(Published)
      /\ GoodDocument(Published, response.doc)
  BY <1>2, TemplateSound DEF CompletenessInv, Stored
<1>4. Published' = Published /\ Fields' = Fields
  BY <1>1, SameTemplate
<1>5. /\ operation'.action = action /\ operation'.native = TRUE /\ operation'.data = data /\ operation'.doc = written
  <2> HIDE DEF data, written
  <2> QED BY <1>1 DEF NoOperation
<1>6. ValidData(Published, data)
  <2>1. operation'.action # None
    BY <1>5 DEF None
  <2> QED BY <1>4, <1>5, <2>1 DEF CompletenessInv, Locked
<1> HIDE DEF data
<1>7. ASSUME PictureTags(Fields) # {}, NEW tag \in DOMAIN data \cap ScalarTags(Fields)
      PROVE  AllTell(doc, Fields[tag], tag, data[tag])
  <2>1. FlattenSupported(response.doc, DOMAIN Manifest(Published))
    BY <1>1, <1>3, <1>7 DEF CanOverlay
  <2>2. PICK picture : DOMAIN pictures \subseteq {picture} /\ (DOMAIN pictures # {} => picture \in DOMAIN pictures)
    BY UploadsGood
  <2>3. DOMAIN pictures # {} => picture \in PictureTags(Manifest(Published)) /\ PlacesOf(response.doc, picture) # {}
    <3> SUFFICES ASSUME DOMAIN pictures # {}
                 PROVE  picture \in PictureTags(Manifest(Published)) /\ PlacesOf(response.doc, picture) # {}
      OBVIOUS
    <3>1. picture \in PictureTags(Manifest(Published)) /\ Cardinality(PlacesOf(response.doc, picture)) = 1
      BY <1>1, <1>3, <1>7, <2>2 DEF CanPlacePictures
    <3> QED BY <3>1, FS_EmptySet
  <2>4. \A other \in ScalarTags(Fields) : \A i \in Tagged(doc, other) :
          Tells(doc.controls[i], Fields[other], ValueOf(data, other))
    BY <1>2, <1>3, <1>6, <2>1, <2>2, <2>3, NativeWritten
  <2> HIDE DEF doc
  <2> QED BY <2>4 DEF AllTell, ValueOf
<1> HIDE DEF doc
<1>8. operation'.doc # NoDocument => NativeTold(Fields, operation')
  BY <1>5, <1>7 DEF NativeTold
<1> QED BY <1>4, <1>5, <1>8 DEF Telling

\* A save that ends with a document that tells its data.
LEMMA CompletedTold ==
  ASSUME NEW doc, NEW data, Completed(doc, data),
         \A tag \in (DOMAIN data \cap ScalarTags(Fields)) \ operation.unread :
           Tells(FieldControl(doc, tag), Fields[tag], data[tag])
  PROVE  DataTold'
<1> DEFINE status == IF operation.action = "save-draft" THEN "draft" ELSE "submitted"
<1>1. /\ response' = [status |-> status, doc |-> doc, data |-> data, saved |-> TRUE,
                      placed |-> operation.placed, unread |-> operation.unread]
      /\ UNCHANGED template
  BY Zenon DEF Completed
<1> HIDE DEF status
<1>2. response'.doc = doc /\ response'.data = data /\ response'.unread = operation.unread
  BY <1>1
<1>3. Fields' = Fields
  BY <1>1, SameTemplate
<1> QED BY <1>2, <1>3 DEF DataTold

\* Where the callback writes the values that the editor does not hold, the document then tells them all.
LEMMA OverlayTold ==
  ASSUME NEW pub, Sound(pub), ParseTemplateFields(pub), ~UnsupportedDates(pub), NEW op,
         NEW doc, doc = op.doc, GoodDocument(pub, doc), ValidData(pub, op.data), FlattenSupported(doc, DOMAIN Manifest(pub)),
         NEW again, again = DataReadAgain(doc, Manifest(pub), op.data, op.empties, op.held),
         NEW over, over = OverlayNativeResponseDocument(doc, Manifest(pub), again, op.held),
         NEW required, ValidResponseDocument(over, Manifest(pub), required),
         EditorTold(pub, Manifest(pub), TRUE, op),
         NEW tag \in (DOMAIN again \cap ScalarTags(Manifest(pub))) \ op.unread
  PROVE  Tells(FieldControl(over, tag), Manifest(pub)[tag], again[tag])
<1> DEFINE M == Manifest(pub)
           written == op.held \cap ScalarTags(M)
<1>1. PICK field : field = M[tag]
  OBVIOUS
<1>2. ValidData(pub, again) /\ tag \in DOMAIN op.data /\ tag \in DOMAIN M
  BY ReadAgain DEF ScalarTags
<1>3. PICK j \in Tagged(over, tag) : TRUE
  BY <1>2, ValidTagged
<1>4. FieldControl(over, tag) = over.controls[j]
  BY ValidTagged, <1>2, OneTagged
<1>5. PICK c : c = over.controls[j]
  OBVIOUS
<1>6. j \in Read(over) /\ c.tag = tag
  BY <1>3, <1>5 DEF Tagged
<1>7. /\ \A k \in Read(over) : LET own == over.controls[k].tag IN
           /\ Tagged(doc, own) # {}
           /\ own \in written =>
                /\ Met(M[own], ValueOf(again, own)) => Answers(over.controls[k])
                /\ Tells(over.controls[k], M[own], ValueOf(again, own))
           /\ own \notin written => \E i \in Tagged(doc, own) : Like(over.controls[k], doc.controls[i])
      /\ \A i \in Read(doc) :
           doc.controls[i].tag \in DOMAIN M \ written =>
             \E k \in Tagged(over, doc.controls[i].tag) : Like(over.controls[k], doc.controls[i])
  BY <1>2, OverlayWritten
<1>8. CASE tag \in op.held
  <2>1. tag \in written
    BY <1>8
  <2>2. Tells(c, M[tag], ValueOf(again, tag))
    BY <1>5, <1>6, <1>7, <2>1
  <2> QED BY <1>4, <1>5, <2>2 DEF ValueOf
<1>9. CASE tag \notin op.held
  <2>1. tag \in DOMAIN M \ written
    BY <1>2, <1>9
  <2>2. HasFields(pub, doc)
    <3>1. ASSUME NEW other \in DOMAIN M PROVE Tagged(doc, other) # {}
      <4>1. PICK k \in Tagged(over, other) : TRUE
        BY ValidTagged
      <4>2. k \in Read(over) /\ over.controls[k].tag = other
        BY <4>1 DEF Tagged
      <4> QED BY <1>7, <4>2
    <3> QED BY <3>1 DEF HasFields
  <2>3. ASSUME NEW i \in Tagged(doc, tag) PROVE Like(c, doc.controls[i])
    <3>1. i \in Read(doc) /\ doc.controls[i].tag = tag
      BY <2>3 DEF Tagged
    <3>2. PICK k \in Tagged(over, tag) : Like(over.controls[k], doc.controls[i])
      BY <1>7, <2>1, <3>1
    <3>3. over.controls[k] = c
      BY <1>2, <1>4, <1>5, <3>2, ValidTagged, OneTagged
    <3> QED BY <3>2, <3>3
  <2>4. Together(doc, tag)
    <3>1. ASSUME NEW i \in Tagged(doc, tag), NEW k \in Tagged(doc, tag) PROVE Like(doc.controls[i], doc.controls[k])
      <4>1. PICK d, e : d = doc.controls[i] /\ e = doc.controls[k]
        OBVIOUS
      <4>2. Like(c, d) /\ Like(c, e)
        BY <2>3, <4>1
      <4> QED BY <4>1, <4>2, LikeBoth
    <3> QED BY <3>1 DEF Together
  <2>5. ToldIn(TRUE, op, field, tag)
    BY <1>1, <1>2, <2>2, <2>4 DEF EditorTold
  <2>6. HalfTold(doc, field, tag, op.data[tag], op.empties)
    BY <1>9, <2>5 DEF ToldIn
  <2>7. AllTell(doc, field, tag, again[tag])
    <3>1. PICK data, empties, held : data = op.data /\ empties = op.empties /\ held = op.held
      OBVIOUS
    <3>2. AllTell(doc, field, tag, DataReadAgain(doc, Manifest(pub), data, empties, held)[tag])
      BY <1>1, <1>2, <1>9, <2>4, <2>6, <3>1, AgainTells
    <3> QED BY <3>1, <3>2
  <2>8. PICK i \in Tagged(doc, tag) : Like(c, doc.controls[i])
    BY <1>2, <2>2, <2>3 DEF HasFields
  <2>9. PICK d, value : d = doc.controls[i] /\ value = again[tag]
    OBVIOUS
  <2>10. Tells(d, field, value) /\ Like(c, d)
    BY <2>7, <2>8, <2>9 DEF AllTell
  <2>11. Tells(c, field, value)
    BY <2>10, LikeTells
  <2> QED BY <1>1, <1>4, <1>5, <2>9, <2>11
<1> QED BY <1>8, <1>9

\* The document server delivers the document.
LEMMA CallbackTold ==
  ASSUME CompletenessInv, Telling, Callback
  PROVE  DataTold'
<1> DEFINE doc == operation.doc
           again == DataReadAgain(doc, Fields, operation.data, operation.empties, operation.held)
           over == OverlayNativeResponseDocument(doc, Fields, again, operation.held)
<1>1. /\ operation.action # None /\ ~operation.native
      /\ template \in NativeTemplates => CanOverlay(doc, Fields) /\ Completed(over, again)
      /\ template \notin NativeTemplates => Completed(doc, operation.data)
  BY Zenon DEF Callback
<1>2. template \in DOMAIN Manifests
  BY <1>1 DEF CompletenessInv, Staged
<1>3. /\ Sound(Published) /\ ParseTemplateFields(Published) /\ Fields = Manifest(Published)
      /\ GoodDocument(Published, doc) /\ ValidData(Published, operation.data)
      /\ EditorTold(Published, Fields, template \in NativeTemplates, operation)
  BY <1>1, <1>2, TemplateSound DEF CompletenessInv, Locked, Answering, Telling
<1>4. CASE template \in NativeTemplates
  <2>1. ~UnsupportedDates(Published) /\ FlattenSupported(doc, DOMAIN Manifest(Published))
    BY <1>1, <1>3, <1>4, NativeSound DEF CanOverlay
  <2>2. EditorTold(Published, Manifest(Published), TRUE, operation)
    <3>1. (template \in NativeTemplates) = TRUE
      BY <1>4
    <3> QED BY <1>3, <3>1
  <2>3. Completed(over, again) /\ ValidResponseDocument(over, Fields, operation.action # "save-draft")
    <3>1. Completed(over, again)
      BY <1>1, <1>4
    <3> QED BY <3>1, Zenon DEF Completed
  <2>4. /\ again = DataReadAgain(doc, Manifest(Published), operation.data, operation.empties, operation.held)
        /\ over = OverlayNativeResponseDocument(doc, Manifest(Published), again, operation.held)
    BY <1>3
  <2> HIDE DEF again, over, doc
  <2>5. ASSUME NEW tag \in (DOMAIN again \cap ScalarTags(Fields)) \ operation.unread
        PROVE  Tells(FieldControl(over, tag), Fields[tag], again[tag])
    <3>1. PICK op, required : op = operation /\ required = (operation.action # "save-draft")
      OBVIOUS
    <3>2. /\ doc = op.doc /\ ValidData(Published, op.data) /\ EditorTold(Published, Manifest(Published), TRUE, op)
          /\ again = DataReadAgain(doc, Manifest(Published), op.data, op.empties, op.held)
          /\ over = OverlayNativeResponseDocument(doc, Manifest(Published), again, op.held)
          /\ ValidResponseDocument(over, Manifest(Published), required)
          /\ tag \in (DOMAIN again \cap ScalarTags(Manifest(Published))) \ op.unread
      BY <1>3, <2>2, <2>3, <2>4, <2>5, <3>1 DEF doc
    <3>3. Tells(FieldControl(over, tag), Manifest(Published)[tag], again[tag])
      BY <1>3, <2>1, <3>2, OverlayTold
    <3> QED BY <1>3, <3>3
  <2> QED BY <2>3, <2>5, CompletedTold
<1>5. CASE template \notin NativeTemplates
  <2>1. Completed(doc, operation.data)
    BY <1>1, <1>5
  <2>2. ValidResponseDocument(doc, Manifest(Published), operation.action # "save-draft")
    BY <1>3, <2>1 DEF Completed
  <2>3. HasFields(Published, doc) /\ \A tag : Together(doc, tag)
    BY <2>2, ValidTogether
  <2>4. ASSUME NEW tag \in (DOMAIN operation.data \cap ScalarTags(Fields)) \ operation.unread
        PROVE  Tells(FieldControl(doc, tag), Fields[tag], operation.data[tag])
    <3>1. AllTell(doc, Fields[tag], tag, operation.data[tag])
      BY <1>3, <1>5, <2>3 DEF EditorTold, ToldIn
    <3>2. Tagged(doc, tag) # {}
      BY <1>3, <2>3 DEF HasFields, ScalarTags
    <3> QED BY <3>1, <3>2, FoundTells
  <2> HIDE DEF doc
  <2> QED BY <2>1, <2>4, CompletedTold
<1> QED BY <1>4, <1>5

\* A native save is written.
LEMMA ProcessTold ==
  ASSUME CompletenessInv, Telling, ProcessNative
  PROVE  DataTold'
<1> DEFINE written == NativeResponseDocument(Published, Fields, operation.data, NoData)
           doc == IF operation.doc = NoDocument THEN written ELSE operation.doc
<1>1. operation.native /\ (operation.doc = NoDocument => CanOverlay(Published, Fields)) /\ Completed(doc, operation.data)
  BY Zenon DEF ProcessNative
<1>2. operation.action # None /\ template \in DOMAIN Manifests
  BY <1>1 DEF CompletenessInv, Staged
<1>3. /\ Sound(Published) /\ ParseTemplateFields(Published) /\ Fields = Manifest(Published)
      /\ ValidData(Published, operation.data) /\ ~UnsupportedDates(Published)
      /\ operation.doc # NoDocument => NativeTold(Fields, operation)
  BY <1>1, <1>2, TemplateSound, NativeSound DEF CompletenessInv, Locked, Staged, Telling
<1>4. ASSUME NEW tag \in DOMAIN operation.data \cap ScalarTags(Fields)
      PROVE  AllTell(doc, Fields[tag], tag, operation.data[tag])
  <2>1. CASE operation.doc = NoDocument
    <3>1. FlattenSupported(Published, DOMAIN Manifest(Published))
      BY <1>1, <1>3, <2>1 DEF CanOverlay
    <3>2. GoodDocument(Published, Published)
      BY <1>3, PublishedGood
    <3>3. DOMAIN NoData \subseteq {None} /\ DOMAIN NoData = {}
      BY DEF NoData
    <3>4. \A other \in ScalarTags(Fields) : \A i \in Tagged(written, other) :
            Tells(written.controls[i], Fields[other], ValueOf(operation.data, other))
      BY <1>3, <3>1, <3>2, <3>3, NativeWritten
    <3>5. doc = written
      BY <2>1
    <3> HIDE DEF written, doc
    <3> QED BY <3>4, <3>5 DEF AllTell, ValueOf
  <2>2. CASE operation.doc # NoDocument
    <3>1. doc = operation.doc
      BY <2>2
    <3> HIDE DEF doc
    <3> QED BY <1>3, <2>2, <3>1 DEF NativeTold
  <2> QED BY <2>1, <2>2
<1> HIDE DEF doc
<1>5. ValidResponseDocument(doc, Manifest(Published), operation.action # "save-draft")
  BY <1>1, <1>3 DEF Completed
<1>6. ASSUME NEW tag \in (DOMAIN operation.data \cap ScalarTags(Fields)) \ operation.unread
      PROVE  Tells(FieldControl(doc, tag), Fields[tag], operation.data[tag])
  <2>1. Tagged(doc, tag) # {}
    BY <1>3, <1>5, ValidTagged DEF ScalarTags
  <2> QED BY <1>4, <2>1, FoundTells
<1> QED BY <1>1, <1>6, CompletedTold

---------------------------------------------------------------------------
(* Pictures of documents *)

Parts == {"document", "header", "orphan"}

\* Media are images that can be read, and a control holds one of them or nothing.
Shots == [image : DOMAIN Images, own : BOOLEAN]
Placings == DOMAIN Images \cup {None}

\* Relationships lead to media, and those of different parts lead to different ones.
Related(doc) ==
  /\ DOMAIN doc.rels = Parts /\ doc.media \in Seq(Shots)
  /\ \A part \in Parts : doc.rels[part] \in Seq(1..Len(doc.media))
  /\ \A p, q \in Parts : p # q =>
       \A r \in DOMAIN doc.rels[p], s \in DOMAIN doc.rels[q] : doc.rels[p][r] # doc.rels[q][s]

\* A control has no image, or it is a picture that shows one.
Hangs(doc, c) ==
  /\ c.part \in Parts
  /\ \/ c.images = <<>>
     \/ Type(c) = "picture" /\ ~c.showing /\ \E rel \in DOMAIN doc.rels[c.part] : c.images = <<rel>>

Illustrated(doc) == Related(doc) /\ \A i \in DOMAIN doc.controls : Hangs(doc, doc.controls[i])

\* Which picture a control shows.
PictureIs(doc, c) ==
  /\ c.images = <<>> => Pictured(doc, c) = None
  /\ \A rel \in DOMAIN doc.rels[c.part] : c.images = <<rel>> =>
       /\ Media(doc, c) = doc.rels[c.part][rel] /\ doc.rels[c.part][rel] \in DOMAIN doc.media
       /\ ~c.showing /\ Pictured(doc, c) = doc.media[doc.rels[c.part][rel]].image
  /\ Pictured(doc, c) \in Placings

\* The picture of a control is the one its relationship leads to.
LEMMA PictureOf ==
  ASSUME NEW doc, Related(doc), NEW c, Hangs(doc, c)
  PROVE  PictureIs(doc, c)
<1>1. doc.media \in Seq(Shots) /\ Len(doc.media) \in Nat /\ DOMAIN doc.media = 1..Len(doc.media)
  BY DEF Related
<1>2. c.part \in Parts /\ doc.rels[c.part] \in Seq(1..Len(doc.media))
  BY DEF Related, Hangs
<1>3. c.images = <<>> => Pictured(doc, c) = None
  <2> SUFFICES ASSUME c.images = <<>> PROVE Pictured(doc, c) = None
    OBVIOUS
  <2>1. Len(c.images) = 0
    OBVIOUS
  <2>2. Media(doc, c) = 0
    BY <2>1 DEF Media
  <2> QED BY <1>1, <2>2 DEF Pictured
<1>4. ASSUME NEW rel \in DOMAIN doc.rels[c.part], c.images = <<rel>>
      PROVE  /\ Media(doc, c) = doc.rels[c.part][rel] /\ doc.rels[c.part][rel] \in DOMAIN doc.media
             /\ ~c.showing /\ Pictured(doc, c) = doc.media[doc.rels[c.part][rel]].image
  <2>1. Len(c.images) = 1 /\ c.images[1] = rel /\ c.images # <<>>
    BY <1>4
  <2>2. Media(doc, c) = doc.rels[c.part][rel]
    BY <1>4, <2>1 DEF Media
  <2>3. doc.rels[c.part][rel] \in DOMAIN doc.media
    BY <1>1, <1>2, <1>4
  <2>4. ~c.showing
    BY <2>1 DEF Hangs
  <2> QED BY <2>2, <2>3, <2>4 DEF Pictured
<1>5. Pictured(doc, c) \in Placings
  <2>1. \A shot \in Shots : shot.image \in DOMAIN Images
    BY DEF Shots
  <2>2. \A k \in DOMAIN doc.media : doc.media[k].image \in DOMAIN Images
    BY <1>1, <2>1
  <2> QED BY <1>3, <1>4, <2>2 DEF Placings, Hangs
<1> QED BY <1>3, <1>4, <1>5 DEF PictureIs

\* Of what a picture is made, apart from media and relationships.
SamePicture(d, c) ==
  /\ d.part = c.part /\ d.images = c.images /\ Type(d) = Type(c)
  /\ c.images # <<>> => (d.showing <=> c.showing)

\* A control of the same picture shows it in any document of the same media.
LEMMA SameHangs ==
  ASSUME NEW doc, Related(doc), NEW c, Hangs(doc, c), NEW new, new.rels = doc.rels, new.media = doc.media,
         NEW d, SamePicture(d, c)
  PROVE  Hangs(new, d) /\ Pictured(new, d) = Pictured(doc, c)
<1>1. Related(new)
  BY DEF Related
<1>2. Hangs(new, d)
  BY DEF Hangs, SamePicture
<1>3. d.images = c.images /\ d.part = c.part
  BY DEF SamePicture
<1>6. PictureIs(doc, c) /\ PictureIs(new, d)
  BY <1>1, <1>2, PictureOf
<1>4. CASE c.images = <<>>
  BY <1>2, <1>3, <1>4, <1>6 DEF PictureIs
<1>5. CASE c.images # <<>>
  <2>1. PICK rel \in DOMAIN doc.rels[c.part] : c.images = <<rel>>
    BY <1>5 DEF Hangs
  <2>2. Pictured(doc, c) = doc.media[doc.rels[c.part][rel]].image
    BY <1>6, <2>1 DEF PictureIs
  <2>3. Pictured(new, d) = new.media[new.rels[d.part][rel]].image
    BY <1>3, <1>6, <2>1 DEF PictureIs
  <2> QED BY <1>2, <1>3, <2>2, <2>3
<1> QED BY <1>4, <1>5

\* A part gets a relationship to the n-th medium, which no other part leads to, and media may follow the others.
AddsMedium(new, doc, part, n) ==
  /\ new.media \in Seq(Shots) /\ Len(doc.media) <= Len(new.media)
  /\ \A k \in 1..Len(doc.media) : new.media[k] = doc.media[k]
  /\ part \in Parts /\ n \in 1..Len(new.media)
  /\ \A p \in Parts \ {part} : new.rels[p] = doc.rels[p] /\ \A r \in DOMAIN doc.rels[p] : doc.rels[p][r] # n
  /\ DOMAIN new.rels = Parts /\ new.rels[part] = Append(doc.rels[part], n)

\* The pictures that are shown stay as they are, and the new relationship shows its medium.
Added(new, doc, part, n) ==
  /\ Related(new)
  /\ \A c : Hangs(doc, c) => Hangs(new, c) /\ Pictured(new, c) = Pictured(doc, c)
  /\ \A d : d.part = part /\ Type(d) = "picture" /\ ~d.showing /\ d.images = <<Len(doc.rels[part]) + 1>> =>
       Hangs(new, d) /\ Pictured(new, d) = new.media[n].image

\* A relationship that is added leaves the pictures that are shown as they are.
LEMMA AddedRelation ==
  ASSUME NEW doc, Related(doc), NEW new, NEW part, NEW n, AddsMedium(new, doc, part, n)
  PROVE  Added(new, doc, part, n)
<1>0. /\ new.media \in Seq(Shots) /\ Len(doc.media) <= Len(new.media)
      /\ \A k \in 1..Len(doc.media) : new.media[k] = doc.media[k]
      /\ part \in Parts /\ n \in 1..Len(new.media)
      /\ \A p \in Parts \ {part} : new.rels[p] = doc.rels[p] /\ \A r \in DOMAIN doc.rels[p] : doc.rels[p][r] # n
      /\ DOMAIN new.rels = Parts /\ new.rels[part] = Append(doc.rels[part], n)
  BY DEF AddsMedium
<1> USE <1>0
<1>1. Len(doc.media) \in Nat /\ Len(new.media) \in Nat
  BY DEF Related
<1>2. \A p \in Parts : doc.rels[p] \in Seq(1..Len(doc.media)) /\ doc.rels[p] \in Seq(1..Len(new.media))
  <2>1. ASSUME NEW p \in Parts PROVE doc.rels[p] \in Seq(1..Len(doc.media)) /\ doc.rels[p] \in Seq(1..Len(new.media))
    <3>1. doc.rels[p] \in Seq(1..Len(doc.media))
      BY DEF Related
    <3>2. 1..Len(doc.media) \subseteq 1..Len(new.media)
      BY <1>1
    <3> QED BY <3>1, <3>2
  <2> QED BY <2>1
<1> DEFINE last == Len(doc.rels[part]) + 1
<1>3. /\ new.rels[part] \in Seq(1..Len(new.media)) /\ last \in Nat
      /\ DOMAIN new.rels[part] = DOMAIN doc.rels[part] \cup {last} /\ last \notin DOMAIN doc.rels[part]
      /\ new.rels[part][last] = n
      /\ \A r \in DOMAIN doc.rels[part] : new.rels[part][r] = doc.rels[part][r]
  <2>1. doc.rels[part] \in Seq(1..Len(new.media))
    BY <1>2
  <2> QED BY <2>1
<1> HIDE DEF last
<1>4. Related(new)
  <2>1. \A p \in Parts : new.rels[p] \in Seq(1..Len(new.media))
    BY <1>2, <1>3
  <2>2. ASSUME NEW p \in Parts, NEW q \in Parts, p # q, NEW r \in DOMAIN new.rels[p], NEW s \in DOMAIN new.rels[q]
        PROVE  new.rels[p][r] # new.rels[q][s]
    <3>1. CASE p # part /\ q # part
      <4>1. new.rels[p] = doc.rels[p] /\ new.rels[q] = doc.rels[q]
        BY <3>1
      <4>2. r \in DOMAIN doc.rels[p] /\ s \in DOMAIN doc.rels[q]
        BY <2>2, <4>1
      <4>3. doc.rels[p][r] # doc.rels[q][s]
        BY <2>2, <4>2, Zenon DEF Related
      <4> QED BY <4>1, <4>3
    <3>a. \A r1 \in DOMAIN new.rels[part] :
            \/ r1 \in DOMAIN doc.rels[part] /\ new.rels[part][r1] = doc.rels[part][r1]
            \/ new.rels[part][r1] = n
      BY <1>3
    <3>b. \A other \in Parts \ {part} : \A r1 \in DOMAIN doc.rels[part], s1 \in DOMAIN doc.rels[other] :
            doc.rels[part][r1] # doc.rels[other][s1]
      BY DEF Related
    <3>c. \A other \in Parts \ {part} : /\ new.rels[other] = doc.rels[other]
                                       /\ \A s1 \in DOMAIN doc.rels[other] : doc.rels[other][s1] # n
      OBVIOUS
    <3>2. CASE p = part /\ q # part
      <4>1. new.rels[q] = doc.rels[q] /\ s \in DOMAIN doc.rels[q] /\ doc.rels[q][s] # n
        BY <2>2, <3>2, <3>c
      <4>2. r \in DOMAIN new.rels[part]
        BY <2>2, <3>2
      <4> QED BY <2>2, <3>2, <3>a, <3>b, <4>1, <4>2
    <3>3. CASE p # part /\ q = part
      <4>1. new.rels[p] = doc.rels[p] /\ r \in DOMAIN doc.rels[p] /\ doc.rels[p][r] # n
        BY <2>2, <3>3, <3>c
      <4>2. s \in DOMAIN new.rels[part]
        BY <2>2, <3>3
      <4> QED BY <2>2, <3>3, <3>a, <3>b, <4>1, <4>2
    <3> QED BY <2>2, <3>1, <3>2, <3>3
  <2> QED BY <2>1, <2>2 DEF Related
<1>5. ASSUME NEW c, Hangs(doc, c) PROVE Hangs(new, c) /\ Pictured(new, c) = Pictured(doc, c)
  <2>1. \A rel \in DOMAIN doc.rels[c.part] : rel \in DOMAIN new.rels[c.part] /\ new.rels[c.part][rel] = doc.rels[c.part][rel]
    BY <1>3, <1>5 DEF Hangs
  <2>2. Hangs(new, c)
    BY <1>5, <2>1 DEF Hangs
  <2>5. PictureIs(doc, c) /\ PictureIs(new, c)
    BY <1>4, <1>5, <2>2, PictureOf
  <2>3. CASE c.images = <<>>
    BY <2>2, <2>3, <2>5 DEF PictureIs
  <2>4. CASE c.images # <<>>
    <3>1. PICK rel \in DOMAIN doc.rels[c.part] : c.images = <<rel>>
      BY <1>5, <2>4 DEF Hangs
    <3>2. Pictured(doc, c) = doc.media[doc.rels[c.part][rel]].image /\ doc.rels[c.part][rel] \in DOMAIN doc.media
      BY <2>5, <3>1 DEF PictureIs
    <3>3. Pictured(new, c) = new.media[new.rels[c.part][rel]].image
      BY <2>1, <2>5, <3>1 DEF PictureIs
    <3>4. DOMAIN doc.media = 1..Len(doc.media)
      BY DEF Related
    <3> QED BY <2>1, <2>2, <3>1, <3>2, <3>3, <3>4
  <2> QED BY <2>2, <2>3, <2>4
<1>6. ASSUME NEW d, d.part = part, Type(d) = "picture", ~d.showing, d.images = <<last>>
      PROVE  Hangs(new, d) /\ Pictured(new, d) = new.media[n].image
  <2>1. Hangs(new, d)
    BY <1>3, <1>6 DEF Hangs
  <2>2. PictureIs(new, d)
    BY <1>4, <2>1, PictureOf
  <2> QED BY <1>3, <1>6, <2>1, <2>2 DEF PictureIs
<1> QED BY <1>4, <1>5, <1>6 DEF last, Added

---------------------------------------------------------------------------
(* Pictures of the templates *)

\* A control without an image.
Bare(c) == DOMAIN c = ControlNames /\ c.part \in Parts /\ c.images = <<>>

\* The controls of the templates.
LEMMA BareControl ==
  ASSUME NEW tag
  PROVE  Bare(Control(tag))
<1> SUFFICES ASSUME NEW c, c = Control(tag) PROVE Bare(c)
  OBVIOUS
<1>1. DOMAIN c = ControlNames
  BY DEF Control, ControlNames
<1>2. c.part = "document" /\ c.images = <<>>
  BY DEF Control
<1> QED BY <1>1, <1>2 DEF Bare, Parts

\* With other settings.
LEMMA BareSettings ==
  ASSUME NEW c, Bare(c)
  PROVE  /\ Bare(Required(c)) /\ \A choice : Bare(InAlternate(c, choice))
         /\ \A v : /\ Bare([c EXCEPT !.padded = v]) /\ Bare([c EXCEPT !.others = v]) /\ Bare([c EXCEPT !.tags = v])
                   /\ Bare([c EXCEPT !.markers = v]) /\ Bare([c EXCEPT !.block = v]) /\ Bare([c EXCEPT !.calendar = v])
                   /\ Bare([c EXCEPT !.nested = v])
         /\ \A v : \A w : Bare([c EXCEPT !.unchecked = v, !.content = w])
         /\ Bare([c EXCEPT !.part = "header"]) /\ Bare([c EXCEPT !.part = "orphan"])
<1>1. DOMAIN c = ControlNames
  BY DEF Bare
<1>2. ASSUME NEW name \in ControlNames \ {"part", "images"}, NEW v PROVE Bare([c EXCEPT ![name] = v])
  <2> SUFFICES ASSUME NEW d, d = [c EXCEPT ![name] = v] PROVE Bare(d)
    OBVIOUS
  <2>1. DOMAIN d = DOMAIN c /\ d.images = c.images /\ d.part = c.part
    BY <1>1 DEF ControlNames
  <2> QED BY <2>1 DEF Bare
<1>3. \A v : /\ Bare([c EXCEPT !.padded = v]) /\ Bare([c EXCEPT !.others = v]) /\ Bare([c EXCEPT !.tags = v])
             /\ Bare([c EXCEPT !.markers = v]) /\ Bare([c EXCEPT !.block = v]) /\ Bare([c EXCEPT !.calendar = v])
             /\ Bare([c EXCEPT !.nested = v]) /\ Bare([c EXCEPT !.required = v])
  BY <1>2 DEF ControlNames
<1>4. ASSUME NEW choice PROVE Bare(InAlternate(c, choice))
  <2> SUFFICES ASSUME NEW d, d = InAlternate(c, choice) PROVE Bare(d)
    OBVIOUS
  <2>1. DOMAIN d = DOMAIN c /\ d.images = c.images /\ d.part = c.part
    BY <1>1 DEF InAlternate, ControlNames
  <2> QED BY <2>1 DEF Bare
<1>5. ASSUME NEW v, NEW w PROVE Bare([c EXCEPT !.unchecked = v, !.content = w])
  <2> SUFFICES ASSUME NEW d, d = [c EXCEPT !.unchecked = v, !.content = w] PROVE Bare(d)
    OBVIOUS
  <2>1. DOMAIN d = DOMAIN c /\ d.images = c.images /\ d.part = c.part
    BY <1>1 DEF ControlNames
  <2> QED BY <2>1 DEF Bare
<1>6. ASSUME NEW part \in Parts PROVE Bare([c EXCEPT !.part = part])
  <2> SUFFICES ASSUME NEW d, d = [c EXCEPT !.part = part] PROVE Bare(d)
    OBVIOUS
  <2>1. DOMAIN d = DOMAIN c /\ d.images = c.images /\ d.part = part
    BY <1>1 DEF ControlNames
  <2> QED BY <1>6, <2>1 DEF Bare
<1>7. Bare(Required(c))
  BY <1>3 DEF Required
<1>8. Bare([c EXCEPT !.part = "header"]) /\ Bare([c EXCEPT !.part = "orphan"])
  BY <1>6 DEF Parts
<1> QED BY <1>3, <1>4, <1>5, <1>7, <1>8

\* Of other types.
LEMMA BareTypes ==
  ASSUME NEW tag
  PROVE  /\ Bare(Picture(tag)) /\ Bare(Check(tag)) /\ \A content : Bare(Filled(tag, content))
         /\ \A type : \A options : Bare(List(tag, type, options))
         /\ \A format : Bare(Day(tag, format))
<1> DEFINE c == Control(tag)
<1>0. Bare(c)
  BY BareControl
<1> HIDE DEF c
<1>1. DOMAIN c = ControlNames
  BY <1>0 DEF Bare
<1>2. ASSUME NEW d, \/ d = Picture(tag) \/ d = Check(tag) \/ \E content : d = Filled(tag, content)
                    \/ (\E type : \E options : d = List(tag, type, options)) \/ \E format : d = Day(tag, format)
      PROVE  Bare(d)
  <2>1. DOMAIN d = DOMAIN c /\ d.images = c.images /\ d.part = c.part
    <3>1. CASE d = Picture(tag)
      BY <1>1, <3>1 DEF Picture, ControlNames, c
    <3>2. CASE d = Check(tag)
      BY <1>1, <3>2 DEF Check, ControlNames, c
    <3>3. ASSUME NEW content, d = Filled(tag, content) PROVE DOMAIN d = DOMAIN c /\ d.images = c.images /\ d.part = c.part
      BY <1>1, <3>3 DEF Filled, ControlNames, c
    <3>4. ASSUME NEW type, NEW options, d = List(tag, type, options)
          PROVE  DOMAIN d = DOMAIN c /\ d.images = c.images /\ d.part = c.part
      BY <1>1, <3>4 DEF List, ControlNames, c
    <3>5. ASSUME NEW format, d = Day(tag, format) PROVE DOMAIN d = DOMAIN c /\ d.images = c.images /\ d.part = c.part
      BY <1>1, <3>5 DEF Day, ControlNames, c
    <3> QED BY <1>2, <3>1, <3>2, <3>3, <3>4, <3>5
  <2> QED BY <1>0, <2>1 DEF Bare
<1> QED BY <1>2

\* A document whose controls have no images.
LEMMA BareIllustrated ==
  ASSUME NEW n \in Nat, NEW controls, DOMAIN controls = 1..n, \A k \in 1..n : Bare(controls[k]),
         NEW doc, doc.controls = controls, doc.rels = Document(controls).rels, doc.media = <<>>
  PROVE  Illustrated(doc)
<1>1. doc.rels = [part \in Parts |-> <<>>]
  BY DEF Document, Parts
<1>2. Len(doc.media) = 0 /\ doc.media \in Seq(Shots)
  OBVIOUS
<1>3. Related(doc)
  <2>1. \A part \in Parts : doc.rels[part] \in Seq(1..Len(doc.media)) /\ DOMAIN doc.rels[part] = {}
    BY <1>1
  <2> QED BY <1>1, <1>2, <2>1 DEF Related
<1>4. \A k \in DOMAIN doc.controls : Hangs(doc, doc.controls[k])
  BY DEF Bare, Hangs
<1> QED BY <1>3, <1>4 DEF Illustrated

\* Templates of one, two or three of them, and with an alternate content.
LEMMA BareDocuments ==
  /\ \A a : Bare(a) => Illustrated(Document(<<a>>))
  /\ \A a : \A b : Bare(a) /\ Bare(b) => Illustrated(Document(<<a, b>>))
  /\ \A a : \A b : \A c : Bare(a) /\ Bare(b) /\ Bare(c) => Illustrated(Document(<<a, b, c>>))
<1>1. ASSUME NEW n \in Nat, NEW controls, DOMAIN controls = 1..n, \A k \in 1..n : Bare(controls[k])
      PROVE  Illustrated(Document(controls))
  <2>1. Document(controls).controls = controls /\ Document(controls).media = <<>>
    BY DEF Document
  <2> QED BY <1>1, <2>1, BareIllustrated
<1>2. ASSUME NEW a, Bare(a) PROVE Illustrated(Document(<<a>>))
  <2>1. DOMAIN <<a>> = 1..1 /\ \A k \in 1..1 : Bare(<<a>>[k])
    BY <1>2
  <2> QED BY <1>1, <2>1
<1>3. ASSUME NEW a, NEW b, Bare(a), Bare(b) PROVE Illustrated(Document(<<a, b>>))
  <2>1. DOMAIN <<a, b>> = 1..2 /\ \A k \in 1..2 : Bare(<<a, b>>[k])
    BY <1>3
  <2> QED BY <1>1, <2>1
<1>4. ASSUME NEW a, NEW b, NEW c, Bare(a), Bare(b), Bare(c) PROVE Illustrated(Document(<<a, b, c>>))
  <2>1. DOMAIN <<a, b, c>> = 1..3 /\ \A k \in 1..3 : Bare(<<a, b, c>>[k])
    BY <1>4
  <2> QED BY <1>1, <2>1
<1> QED BY <1>2, <1>3, <1>4

\* Whether choices are supported has nothing to do with pictures.
LEMMA SupportedIllustrated ==
  ASSUME NEW controls, NEW requires, Illustrated(Document(controls))
  PROVE  Illustrated(With(Document(controls), requires))
<1> DEFINE doc == Document(controls)
<1>1. DOMAIN doc = DocumentNames
  BY DocumentMade
<1> HIDE DEF doc
<1> SUFFICES ASSUME NEW new, new = With(doc, requires), Illustrated(doc) PROVE Illustrated(new)
  BY DEF doc
<1>2. new.controls = doc.controls /\ new.rels = doc.rels /\ new.media = doc.media
  BY <1>1 DEF With, DocumentNames
<1> QED BY <1>2 DEF Illustrated, Related, Hangs

\* A template with an image.
LEMMA ImageIllustrated ==
  ASSUME NEW a, NEW b, a = Holding("p"), b \in {Holding("q"), [Picture("q") EXCEPT !.part = "header"]}
  PROVE  Illustrated(WithImage(Document(<<a, b>>)))
<1> DEFINE doc == Document(<<a, b>>)
<1>1. /\ DOMAIN doc = DocumentNames /\ doc.controls = <<a, b>>
      /\ doc.rels = [part \in Parts |-> <<>>]
  BY DocumentMade DEF Document, Parts
<1> HIDE DEF doc
<1> SUFFICES ASSUME NEW new, new = WithImage(doc) PROVE Illustrated(new)
  BY DEF doc
<1>2. /\ new.controls = <<a, b>> /\ new.media = <<[image |-> "red", own |-> TRUE]>>
      /\ new.rels = [part \in Parts |-> IF part = "document" THEN <<1>> ELSE <<>>]
  BY <1>1 DEF WithImage, DocumentNames, Parts
<1>3. new.media \in Seq(Shots) /\ Len(new.media) = 1
  <2>1. [image |-> "red", own |-> TRUE] \in Shots
    BY DEF Shots, Images
  <2> QED BY <1>2, <2>1
<1>4. Related(new)
  <2>1. \A part \in Parts : new.rels[part] \in Seq(1..Len(new.media)) /\ (part # "document" => DOMAIN new.rels[part] = {})
    BY <1>2, <1>3
  <2> QED BY <1>2, <1>3, <2>1 DEF Related
<1>5. ASSUME NEW tag, NEW c, c = Holding(tag) PROVE Hangs(new, c)
  <2> DEFINE d == Picture(tag)
  <2>1. Bare(d) /\ d.part = "document" /\ d.markers = <<"picture">>
    BY BareTypes, PictureMade DEF Picture, Control
  <2>2. c = [d EXCEPT !.images = <<1>>, !.showing = FALSE]
    BY <1>5 DEF Holding
  <2> HIDE DEF d
  <2>3. c.part = "document" /\ c.markers = <<"picture">> /\ c.images = <<1>> /\ c.showing = FALSE
    BY <2>1, <2>2 DEF Bare, ControlNames
  <2>4. Type(c) = "picture" /\ ~c.showing
    BY <2>3 DEF Type
  <2>5. 1 \in DOMAIN new.rels["document"] /\ "document" \in Parts
    BY <1>2 DEF Parts
  <2> QED BY <2>3, <2>4, <2>5 DEF Hangs
<1>6. ASSUME NEW c, Bare(c) PROVE Hangs(new, c)
  BY <1>6 DEF Bare, Hangs
<1>7. Hangs(new, a) /\ Hangs(new, b)
  BY <1>5, <1>6, BareTypes, BareSettings
<1> QED BY <1>2, <1>4, <1>7 DEF Illustrated

\* The pictures of every template are as they should be.
LEMMA TemplatesIllustrated ==
  ASSUME NEW name \in DOMAIN TemplateDocuments
  PROVE  Illustrated(TemplateDocuments[name])
<1>1. DOMAIN TemplateDocuments =
        {"notes", "padded", "lists", "blank", "days", "loose", "thai", "checks", "pictures", "apart", "named", "copied",
         "twice", "nested", "chosen", "fallback", "second", "same", "untagged", "retagged", "mixed", "grouped", "empty",
         "equal", "without"}
  BY DEF TemplateDocuments
<1>2. \A tag : /\ Bare(Control(tag)) /\ Bare(Picture(tag)) /\ Bare(Check(tag)) /\ \A content : Bare(Filled(tag, content))
               /\ \A type : \A options : Bare(List(tag, type, options))
               /\ \A format : Bare(Day(tag, format))
  BY BareControl, BareTypes
<1>3. CASE name = "notes"
  <2>1. TemplateDocuments[name] =
          Document(<<Required([Filled("note", <<P, T(A), Br, T(A), P, T(<<"c">>)>>) EXCEPT !.block = TRUE]),
                     Filled("line", <<T(A), TabNode, T(<<"b">>)>>)>>)
    BY <1>3 DEF TemplateDocuments
  <2>2. /\ Bare(Required([Filled("note", <<P, T(A), Br, T(A), P, T(<<"c">>)>>) EXCEPT !.block = TRUE]))
        /\ Bare(Filled("line", <<T(A), TabNode, T(<<"b">>)>>))
    BY <1>2, BareSettings
  <2> QED BY <2>1, <2>2, BareDocuments
<1>4. CASE name = "padded"
  <2>1. TemplateDocuments[name] =
          Document(<<[Control("note") EXCEPT !.padded = TRUE],
                     [Control("head") EXCEPT !.part = "header"], [Control("lost") EXCEPT !.part = "orphan"]>>)
    BY <1>4 DEF TemplateDocuments
  <2>2. /\ Bare([Control("note") EXCEPT !.padded = TRUE])
        /\ Bare([Control("head") EXCEPT !.part = "header"])
        /\ Bare([Control("lost") EXCEPT !.part = "orphan"])
    BY <1>2, BareSettings
  <2> QED BY <2>1, <2>2, BareDocuments
<1>5. CASE name = "lists"
  <2>1. TemplateDocuments[name] =
          Document(<<List("one", "dropdown", <<Red, Nil>>), Required(List("any", "combo", <<Red>>))>>)
    BY <1>5 DEF TemplateDocuments
  <2>2. Bare(List("one", "dropdown", <<Red, Nil>>)) /\ Bare(Required(List("any", "combo", <<Red>>)))
    BY <1>2, BareSettings
  <2> QED BY <2>1, <2>2, BareDocuments
<1>6. CASE name = "blank"
  <2>1. TemplateDocuments[name] =
          Document(<<Required(List("one", "dropdown", <<Red, Nil>>)), Required(Check("agreed"))>>)
    BY <1>6 DEF TemplateDocuments
  <2>2. Bare(Required(List("one", "dropdown", <<Red, Nil>>))) /\ Bare(Required(Check("agreed")))
    BY <1>2, BareSettings
  <2> QED BY <2>1, <2>2, BareDocuments
<1>7. CASE name = "days"
  <2>1. TemplateDocuments[name] =
          Document(<<Required(Day("day", Usual)), Day("long", <<"d", " ", "MMMM", " ", "yyyy">>)>>)
    BY <1>7 DEF TemplateDocuments
  <2>2. Bare(Required(Day("day", Usual))) /\ Bare(Day("long", <<"d", " ", "MMMM", " ", "yyyy">>))
    BY <1>2, BareSettings
  <2> QED BY <2>1, <2>2, BareDocuments
<1>8. CASE name = "loose"
  <2>1. TemplateDocuments[name] = Document(<<Day("day", <<>>), Day("short", <<"d", "-", "MMM", "-", "yy">>)>>)
    BY <1>8 DEF TemplateDocuments
  <2>2. Bare(Day("day", <<>>)) /\ Bare(Day("short", <<"d", "-", "MMM", "-", "yy">>))
    BY <1>2, BareSettings
  <2> QED BY <2>1, <2>2, BareDocuments
<1>9. CASE name = "thai"
  <2>1. TemplateDocuments[name] = Document(<<[Day("day", Usual) EXCEPT !.calendar = "thai"], Check("agreed")>>)
    BY <1>9 DEF TemplateDocuments
  <2>2. Bare([Day("day", Usual) EXCEPT !.calendar = "thai"]) /\ Bare(Check("agreed"))
    BY <1>2, BareSettings
  <2> QED BY <2>1, <2>2, BareDocuments
<1>10. CASE name = "checks"
  <2>1. TemplateDocuments[name] =
          Document(<<[Check("plain") EXCEPT !.unchecked = "[x]", !.content = <<T(<<"[x]">>)>>],
                     Required(Check("agreed"))>>)
    BY <1>10 DEF TemplateDocuments
  <2>2. /\ Bare([Check("plain") EXCEPT !.unchecked = "[x]", !.content = <<T(<<"[x]">>)>>])
        /\ Bare(Required(Check("agreed")))
    BY <1>2, BareSettings
  <2> QED BY <2>1, <2>2, BareDocuments
<1>11. CASE name = "pictures"
  <2>1. TemplateDocuments[name] = Document(<<Required(Picture("p")), Picture("q")>>)
    BY <1>11 DEF TemplateDocuments
  <2>2. Bare(Required(Picture("p"))) /\ Bare(Picture("q"))
    BY <1>2, BareSettings
  <2> QED BY <2>1, <2>2, BareDocuments
<1>12. CASE name = "apart"
  <2>1. TemplateDocuments[name] = WithImage(Document(<<Holding("p"), [Picture("q") EXCEPT !.part = "header"]>>))
    BY <1>12 DEF TemplateDocuments
  <2> QED BY <2>1, ImageIllustrated
<1>13. CASE name = "copied"
  <2>1. TemplateDocuments[name] = WithImage(Document(<<Holding("p"), Holding("q")>>))
    BY <1>13 DEF TemplateDocuments
  <2> QED BY <2>1, ImageIllustrated
<1>14. CASE name = "named"
  <2>1. TemplateDocuments[name] = Document(<<[Control("note") EXCEPT !.others = {"alias"}], Check("plain")>>)
    BY <1>14 DEF TemplateDocuments
  <2>2. Bare([Control("note") EXCEPT !.others = {"alias"}]) /\ Bare(Check("plain"))
    BY <1>2, BareSettings
  <2> QED BY <2>1, <2>2, BareDocuments
<1>15. CASE name = "twice"
  <2>1. TemplateDocuments[name] =
          Document(<<[Control("note") EXCEPT !.others = {"alias"}],
                     [Control("line") EXCEPT !.others = {"alias"}]>>)
    BY <1>15 DEF TemplateDocuments
  <2>2. /\ Bare([Control("note") EXCEPT !.others = {"alias"}])
        /\ Bare([Control("line") EXCEPT !.others = {"alias"}])
    BY <1>2, BareSettings
  <2> QED BY <2>1, <2>2, BareDocuments
<1>16. CASE name = "nested"
  <2>1. TemplateDocuments[name] = Document(<<[Check("plain") EXCEPT !.nested = TRUE], Control("note")>>)
    BY <1>16 DEF TemplateDocuments
  <2>2. Bare([Check("plain") EXCEPT !.nested = TRUE]) /\ Bare(Control("note"))
    BY <1>2, BareSettings
  <2> QED BY <2>1, <2>2, BareDocuments
<1>17. CASE name = "chosen"
  <2>1. TemplateDocuments[name] =
          With(Document(<<InAlternate(Control("note"), 1),
                          InAlternate(Control("other"), 0), Check("plain")>>), <<TRUE>>)
    BY <1>17 DEF TemplateDocuments
  <2>2. Bare(InAlternate(Control("note"), 1)) /\ Bare(InAlternate(Control("other"), 0)) /\ Bare(Check("plain"))
    BY <1>2, BareSettings
  <2> QED BY <2>1, <2>2, BareDocuments, SupportedIllustrated
<1>18. CASE name = "fallback"
  <2>1. TemplateDocuments[name] =
          With(Document(<<InAlternate(Control("note"), 1), InAlternate(Control("note"), 0)>>), <<TRUE>>)
    BY <1>18 DEF TemplateDocuments
  <2>2. Bare(InAlternate(Control("note"), 1)) /\ Bare(InAlternate(Control("note"), 0))
    BY <1>2, BareSettings
  <2> QED BY <2>1, <2>2, BareDocuments, SupportedIllustrated
<1>19. CASE name = "second"
  <2>1. TemplateDocuments[name] = With(Document(<<InAlternate(Control("note"), 2)>>), <<TRUE, TRUE>>)
    BY <1>19 DEF TemplateDocuments
  <2>2. Bare(InAlternate(Control("note"), 2))
    BY <1>2, BareSettings
  <2> QED BY <2>1, <2>2, BareDocuments, SupportedIllustrated
<1>20. CASE name = "same"
  <2>1. TemplateDocuments[name] = Document(<<Control("note"), Control("note")>>)
    BY <1>20 DEF TemplateDocuments
  <2>2. Bare(Control("note")) /\ Bare(Control("note"))
    BY <1>2, BareSettings
  <2> QED BY <2>1, <2>2, BareDocuments
<1>21. CASE name = "untagged"
  <2>1. TemplateDocuments[name] = Document(<<Control("")>>)
    BY <1>21 DEF TemplateDocuments
  <2>2. Bare(Control(""))
    BY <1>2, BareSettings
  <2> QED BY <2>1, <2>2, BareDocuments
<1>22. CASE name = "retagged"
  <2>1. TemplateDocuments[name] = Document(<<[Control("note") EXCEPT !.tags = 2]>>)
    BY <1>22 DEF TemplateDocuments
  <2>2. Bare([Control("note") EXCEPT !.tags = 2])
    BY <1>2, BareSettings
  <2> QED BY <2>1, <2>2, BareDocuments
<1>23. CASE name = "mixed"
  <2>1. TemplateDocuments[name] = Document(<<[Control("note") EXCEPT !.markers = <<"date", "text">>]>>)
    BY <1>23 DEF TemplateDocuments
  <2>2. Bare([Control("note") EXCEPT !.markers = <<"date", "text">>])
    BY <1>2, BareSettings
  <2> QED BY <2>1, <2>2, BareDocuments
<1>24. CASE name = "grouped"
  <2>1. TemplateDocuments[name] = Document(<<[Control("note") EXCEPT !.markers = <<"group">>]>>)
    BY <1>24 DEF TemplateDocuments
  <2>2. Bare([Control("note") EXCEPT !.markers = <<"group">>])
    BY <1>2, BareSettings
  <2> QED BY <2>1, <2>2, BareDocuments
<1>25. CASE name = "empty"
  <2>1. TemplateDocuments[name] = Document(<<List("one", "dropdown", <<>>)>>)
    BY <1>25 DEF TemplateDocuments
  <2>2. Bare(List("one", "dropdown", <<>>))
    BY <1>2, BareSettings
  <2> QED BY <2>1, <2>2, BareDocuments
<1>26. CASE name = "equal"
  <2>1. TemplateDocuments[name] = Document(<<List("one", "combo", <<Red, Red>>)>>)
    BY <1>26 DEF TemplateDocuments
  <2>2. Bare(List("one", "combo", <<Red, Red>>))
    BY <1>2, BareSettings
  <2> QED BY <2>1, <2>2, BareDocuments
<1>27. CASE name = "without"
  <2>1. TemplateDocuments[name] = Document(<<[Control("lost") EXCEPT !.part = "orphan"]>>)
    BY <1>27 DEF TemplateDocuments
  <2>2. Bare([Control("lost") EXCEPT !.part = "orphan"])
    BY <1>2, BareSettings
  <2> QED BY <2>1, <2>2, BareDocuments
<1> QED BY <1>1, <1>3, <1>4, <1>5, <1>6, <1>7, <1>8, <1>9, <1>10, <1>11, <1>12, <1>13, <1>14, <1>15,
         <1>16, <1>17, <1>18, <1>19, <1>20, <1>21, <1>22, <1>23, <1>24, <1>25, <1>26, <1>27

---------------------------------------------------------------------------
(* Pictures in the editor *)

\* Each picture of a document is the one that was last placed in its control.
Hung(doc, placed) ==
  /\ Illustrated(doc) /\ placed \in Seq(Placings) /\ Len(placed) = Len(doc.controls)
  /\ \A i \in PictureControls(doc) : Pictured(doc, doc.controls[i]) = placed[i]

\* Neither the picture of a control changes nor whether it is read.
Keeps(d, c) == SamePicture(d, c) /\ d.alternate = c.alternate /\ d.choice = c.choice

\* A control that is kept with its picture is read where the old one was.
LEMMA KeepsRead ==
  ASSUME NEW doc, NEW new, new.links = doc.links, NEW i \in DOMAIN doc.controls, NEW j \in DOMAIN new.controls,
         Keeps(new.controls[j], doc.controls[i])
  PROVE  j \in PictureControls(new) => i \in PictureControls(doc)
<1>1. ReachableParts(new) = ReachableParts(doc)
  BY SameParts
<1>2. /\ new.controls[j].part = doc.controls[i].part /\ new.controls[j].alternate = doc.controls[i].alternate
      /\ new.controls[j].choice = doc.controls[i].choice /\ Type(new.controls[j]) = Type(doc.controls[i])
  BY DEF Keeps, SamePicture
<1> QED BY <1>1, <1>2 DEF PictureControls, Read, InFallback

\* Each control is one of the others, with what was placed in it.
Rearranges(new, other, doc, placed, f) ==
  \A j \in DOMAIN new.controls : /\ f[j] \in DOMAIN doc.controls /\ other[j] = placed[f[j]]
                                 /\ Keeps(new.controls[j], doc.controls[f[j]])

\* Controls that are moved, left out or repeated keep their pictures.
LEMMA Rearranged ==
  ASSUME NEW doc, NEW placed, Hung(doc, placed), NEW new, new.links = doc.links, new.rels = doc.rels, new.media = doc.media,
         NEW other \in Seq(Placings), Len(other) = Len(new.controls), NEW f, Rearranges(new, other, doc, placed, f)
  PROVE  Hung(new, other)
<1>1. Related(new)
  BY DEF Hung, Illustrated, Related
<1>2. ASSUME NEW j \in DOMAIN new.controls
      PROVE  /\ Hangs(new, new.controls[j])
             /\ j \in PictureControls(new) => Pictured(new, new.controls[j]) = other[j]
  <2>1. PICK c, d, i : c = doc.controls[f[j]] /\ d = new.controls[j] /\ i = f[j]
    OBVIOUS
  <2>2. i \in DOMAIN doc.controls /\ other[j] = placed[i] /\ Keeps(d, c) /\ c = doc.controls[i]
    BY <2>1 DEF Rearranges
  <2>3. SamePicture(d, c) /\ Hangs(doc, c) /\ Related(doc)
    BY <2>2 DEF Keeps, Hung, Illustrated
  <2>4. Hangs(new, d) /\ Pictured(new, d) = Pictured(doc, c)
    BY <2>3, SameHangs
  <2>5. j \in PictureControls(new) => i \in PictureControls(doc)
    BY <2>1, <2>2, KeepsRead
  <2> QED BY <2>1, <2>2, <2>4, <2>5 DEF Hung
<1>3. \A j \in PictureControls(new) : j \in DOMAIN new.controls
  BY DEF PictureControls, Read
<1> QED BY <1>1, <1>2, <1>3 DEF Hung, Illustrated

\* One control is changed: it stays as it was where pictures are concerned.
LEMMA HungChanged ==
  ASSUME NEW doc, NEW placed, Hung(doc, placed), NEW new, new.links = doc.links, new.rels = doc.rels, new.media = doc.media,
         DOMAIN new.controls = DOMAIN doc.controls, Len(new.controls) = Len(doc.controls),
         \A j \in DOMAIN doc.controls : Keeps(new.controls[j], doc.controls[j])
  PROVE  Hung(new, placed)
<1> DEFINE f == [j \in DOMAIN new.controls |-> j]
<1>1. Rearranges(new, placed, doc, placed, f)
  BY DEF Rearranges
<1>2. placed \in Seq(Placings) /\ Len(placed) = Len(new.controls)
  BY DEF Hung
<1> HIDE DEF f
<1> QED BY <1>1, <1>2, Rearranged

\* A field that is not a picture has no image to keep.
LEMMA ScalarKeeps ==
  ASSUME NEW pub, NEW doc, NEW c, Hangs(doc, c), Type(c) # "picture", NEW d, Follows(pub, d, c), d.images = c.images
  PROVE  Keeps(d, c)
  BY DEF Hangs, Follows, SameField, Keeps, SamePicture

\* A control that does not change keeps its picture.
LEMMA SelfKeeps ==
  ASSUME NEW c
  PROVE  Keeps(c, c)
  BY DEF Keeps, SamePicture

\* One control gets a picture, and the pictures of the others stay as they are.
Rehangs(new, doc, i, picture) ==
  /\ new.links = doc.links /\ DOMAIN new.controls = DOMAIN doc.controls /\ Len(new.controls) = Len(doc.controls)
  /\ \A j \in DOMAIN doc.controls : j # i => new.controls[j] = doc.controls[j]
  /\ Related(new) /\ \A c : Hangs(doc, c) => Hangs(new, c) /\ Pictured(new, c) = Pictured(doc, c)
  /\ Hangs(new, new.controls[i]) /\ Pictured(new, new.controls[i]) = picture

\* What is placed in one control.
LEMMA Rehung ==
  ASSUME NEW doc, NEW placed, Hung(doc, placed), DOMAIN doc.controls = 1..Len(doc.controls),
         NEW i \in PictureControls(doc), NEW new, NEW picture \in Placings, Rehangs(new, doc, i, picture)
  PROVE  Hung(new, [placed EXCEPT ![i] = picture])
<1>0. /\ new.links = doc.links /\ DOMAIN new.controls = DOMAIN doc.controls /\ Len(new.controls) = Len(doc.controls)
      /\ \A j \in DOMAIN doc.controls : j # i => new.controls[j] = doc.controls[j]
      /\ Related(new) /\ \A c : Hangs(doc, c) => Hangs(new, c) /\ Pictured(new, c) = Pictured(doc, c)
      /\ Hangs(new, new.controls[i]) /\ Pictured(new, new.controls[i]) = picture
  BY DEF Rehangs
<1> USE <1>0
<1> DEFINE other == [placed EXCEPT ![i] = picture]
<1>1. placed \in Seq(Placings) /\ Len(placed) = Len(doc.controls) /\ Related(doc)
  BY DEF Hung, Illustrated
<1>2. i \in DOMAIN doc.controls
  BY DEF PictureControls, Read
<1>3. ASSUME NEW j \in DOMAIN doc.controls, j # i
      PROVE  /\ Hangs(new, new.controls[j]) /\ Pictured(new, new.controls[j]) = Pictured(doc, doc.controls[j])
             /\ j \in PictureControls(new) => j \in PictureControls(doc)
  <2>1. new.controls[j] = doc.controls[j] /\ Hangs(doc, doc.controls[j])
    BY <1>3 DEF Hung, Illustrated
  <2>2. j \in PictureControls(new) => j \in PictureControls(doc)
    BY <1>3, <2>1, SelfKeeps, KeepsRead
  <2> QED BY <2>1, <2>2
<1> DEFINE n == Len(doc.controls)
<1>a. n \in Nat /\ DOMAIN placed = 1..n /\ placed \in [1..n -> Placings] /\ i \in 1..n
  BY <1>1, <1>2
<1>b. other \in [1..n -> Placings] /\ other[i] = picture /\ \A j \in 1..n : j # i => other[j] = placed[j]
  <2> HIDE DEF n
  <2> QED BY <1>a
<1>4. other \in Seq(Placings) /\ Len(other) = Len(new.controls) /\ (i \in DOMAIN placed => other[i] = picture)
      /\ \A j \in DOMAIN placed : j # i => other[j] = placed[j]
  <2>1. n = Len(new.controls)
    OBVIOUS
  <2> HIDE DEF n, other
  <2>2. other \in Seq(Placings) /\ Len(other) = n
    BY <1>a, <1>b
  <2> QED BY <1>a, <1>b, <2>1, <2>2
<1>5. \A j \in PictureControls(new) : j \in DOMAIN doc.controls
  BY DEF PictureControls, Read
<1> HIDE DEF other
<1>6. ASSUME NEW j \in PictureControls(new) PROVE Pictured(new, new.controls[j]) = other[j]
  <2>1. j \in DOMAIN doc.controls /\ j \in DOMAIN placed
    BY <1>1, <1>5, <1>6
  <2>2. CASE j = i
    BY <1>4, <2>1, <2>2
  <2>3. CASE j # i
    <3>1. Pictured(doc, doc.controls[j]) = placed[j]
      BY <1>3, <1>6, <2>1, <2>3 DEF Hung
    <3> QED BY <1>3, <1>4, <2>1, <2>3, <3>1
  <2> QED BY <2>2, <2>3
<1> QED BY <1>3, <1>4, <1>6 DEF Hung, Illustrated, other

---------------------------------------------------------------------------
(* Pictures that the server places, and that nothing else shows *)

\* The relationships of a part that lead to an image.
Leading(doc, part, n) == {rel \in DOMAIN doc.rels[part] : doc.rels[part][rel] = n}

\* The references to a relationship in a part.
References(doc, part, rel) ==
  UNION {{<<i, k>> : k \in {l \in DOMAIN doc.controls[i].images : doc.controls[i].images[l] = rel}} :
           i \in {j \in DOMAIN doc.controls : doc.controls[j].part = part}}

\* A part has finitely many of both.
LEMMA FiniteReferences ==
  ASSUME NEW pub, NEW doc, GoodDocument(pub, doc), Illustrated(doc), NEW part \in Parts, NEW n, NEW rel
  PROVE  IsFiniteSet(Leading(doc, part, n)) /\ IsFiniteSet(References(doc, part, rel))
<1>1. IsFiniteSet(Leading(doc, part, n))
  <2>1. doc.rels[part] \in Seq(1..Len(doc.media))
    BY DEF Illustrated, Related
  <2>2. Len(doc.rels[part]) \in Int /\ Leading(doc, part, n) \in SUBSET (1..Len(doc.rels[part]))
    BY <2>1 DEF Leading
  <2>3. IsFiniteSet(1..Len(doc.rels[part]))
    BY <2>2, FS_Interval
  <2> QED BY <2>2, <2>3, FS_Subset
<1>2. IsFiniteSet(References(doc, part, rel))
  <2> DEFINE size == Len(doc.controls)
  <2>1. size \in Int /\ DOMAIN doc.controls = 1..size
    BY GoodControls
  <2>2. ASSUME NEW i \in DOMAIN doc.controls PROVE DOMAIN doc.controls[i].images \subseteq {1}
    <3>1. \/ doc.controls[i].images = <<>>
          \/ \E r \in DOMAIN doc.rels[doc.controls[i].part] : doc.controls[i].images = <<r>>
      BY DEF Illustrated, Hangs
    <3> QED BY <3>1
  <2>3. References(doc, part, rel) \in SUBSET ((1..size) \X {1})
    BY <2>1, <2>2 DEF References
  <2>4. IsFiniteSet(1..size) /\ IsFiniteSet({1})
    <3>1. IsFiniteSet(1..size)
      BY <2>1, FS_Interval
    <3>2. IsFiniteSet({1})
      BY FS_Singleton
    <3> QED BY <3>1, <3>2
  <2>5. IsFiniteSet((1..size) \X {1})
    BY <2>4, FS_Product
  <2> QED BY <2>3, <2>5, FS_Subset
<1> QED BY <1>1, <1>2

\* What the server replaces is shown by one control.
LEMMA Unshared ==
  ASSUME NEW pub, NEW doc, GoodDocument(pub, doc), Illustrated(doc),
         NEW i \in DOMAIN doc.controls, CanReplaceMedia(doc, doc.controls[i]),
         NEW j \in DOMAIN doc.controls, j # i, NEW d, d = doc.controls[j],
         NEW rel \in DOMAIN doc.rels[d.part], d.images = <<rel>>
  PROVE  doc.rels[d.part][rel] # Media(doc, doc.controls[i])
<1> DEFINE c == doc.controls[i]
           m == Media(doc, c)
<1>1. Related(doc) /\ Hangs(doc, c) /\ Hangs(doc, d)
  BY DEF Illustrated
<1>2. PictureIs(doc, c)
  BY <1>1, PictureOf
<1>3. m \in DOMAIN doc.media /\ Len(doc.media) \in Nat /\ DOMAIN doc.media = 1..Len(doc.media)
  BY <1>1 DEF CanReplaceMedia, Related
<1>4. PICK own \in DOMAIN doc.rels[c.part] : c.images = <<own>>
  <2>1. c.images # <<>>
    <3> SUFFICES ASSUME c.images = <<>> PROVE FALSE
      OBVIOUS
    <3>1. Len(c.images) = 0
      OBVIOUS
    <3>2. m = 0
      BY <3>1 DEF Media
    <3> QED BY <1>3, <3>2
  <2> QED BY <1>1, <2>1 DEF Hangs
<1>5. m = doc.rels[c.part][own] /\ c.part \in Parts /\ d.part \in Parts
  BY <1>1, <1>2, <1>4 DEF PictureIs, Hangs
<1>6. Cardinality(Leading(doc, c.part, m)) = 1 /\ Cardinality(References(doc, c.part, c.images[1])) = 1
  BY DEF CanReplaceMedia, ReferenceCount, Leading, References
<1> HIDE DEF m, c
<1> SUFFICES ASSUME doc.rels[d.part][rel] = m PROVE FALSE
  BY DEF m, c
<1>7. CASE d.part # c.part
  BY <1>1, <1>4, <1>5, <1>7 DEF Related
<1>8. CASE d.part = c.part
  <2>1. own \in Leading(doc, c.part, m) /\ rel \in Leading(doc, c.part, m)
    BY <1>4, <1>5, <1>8 DEF Leading
  <2>2. IsFiniteSet(Leading(doc, c.part, m)) /\ IsFiniteSet(References(doc, c.part, own))
    BY <1>5, FiniteReferences
  <2>3. Leading(doc, c.part, m) = {own}
    BY <1>6, <2>1, <2>2, AtMostOne
  <2>4. rel = own
    BY <2>1, <2>3
  <2>5. c.images[1] = own /\ 1 \in DOMAIN c.images /\ d.images[1] = own /\ 1 \in DOMAIN d.images
    BY <1>4, <2>4
  <2>6. <<i, 1>> \in References(doc, c.part, own) /\ <<j, 1>> \in References(doc, c.part, own)
    BY <1>8, <2>5 DEF References, c
  <2>7. References(doc, c.part, own) = {<<i, 1>>}
    BY <1>6, <2>2, <2>5, <2>6, AtMostOne
  <2> QED BY <2>6, <2>7
<1> QED BY <1>7, <1>8

\* The picture that is placed is shown by its control, and the other controls show what they did.
ShowsPlaced(new, doc, i, image) ==
  /\ Illustrated(new) /\ Pictured(new, new.controls[i]) = image
  /\ \A j \in DOMAIN doc.controls : j # i => Pictured(new, new.controls[j]) = Pictured(doc, doc.controls[j])

\* An image is replaced in its place.
LEMMA ReplacedShows ==
  ASSUME NEW pub, NEW doc, GoodDocument(pub, doc), Illustrated(doc), NEW i \in DOMAIN doc.controls,
         CanReplaceMedia(doc, doc.controls[i]), NEW image \in DOMAIN Images,
         NEW new, new = PicturePlaced(doc, i, image)
  PROVE  ShowsPlaced(new, doc, i, image)
<1> DEFINE c == doc.controls[i]
           m == Media(doc, c)
           shot == [doc.media[m] EXCEPT !.image = image]
<1>1. Related(doc) /\ Hangs(doc, c) /\ DOMAIN doc = DocumentNames /\ GoodControl(pub, c)
  BY GoodControls DEF Illustrated, GoodDocument
<1>2. PictureIs(doc, c)
  BY <1>1, PictureOf
<1>3. m \in DOMAIN doc.media /\ Len(doc.media) \in Nat /\ DOMAIN doc.media = 1..Len(doc.media)
  BY <1>1 DEF CanReplaceMedia, Related
<1>4. PICK rel \in DOMAIN doc.rels[c.part] : c.images = <<rel>>
  <2>1. c.images # <<>>
    <3> SUFFICES ASSUME c.images = <<>> PROVE FALSE
      OBVIOUS
    <3>1. Len(c.images) = 0
      OBVIOUS
    <3>2. m = 0
      BY <3>1 DEF Media
    <3> QED BY <1>3, <3>2
  <2> QED BY <1>1, <2>1 DEF Hangs
<1>5. m = doc.rels[c.part][rel] /\ ~c.showing /\ c.images[1] = rel /\ c.images # <<>>
  BY <1>2, <1>4 DEF PictureIs
<1>6. new = [[doc EXCEPT !.media[m].image = image] EXCEPT !.controls[i].images = <<rel>>, !.controls[i].showing = FALSE]
  BY <1>5 DEF PicturePlaced, AddNativePicturePackageParts
<1> HIDE DEF m, shot
<1>7. new.rels = doc.rels /\ new.media = [doc.media EXCEPT ![m] = shot]
  BY <1>1, <1>6 DEF DocumentNames, shot
<1>8. DOMAIN new.controls = DOMAIN doc.controls /\ \A j \in DOMAIN doc.controls : SamePicture(new.controls[j], doc.controls[j])
  <2>1. DOMAIN c = ControlNames
    BY <1>1 DEF GoodControl
  <2>2. /\ DOMAIN new.controls = DOMAIN doc.controls
        /\ \A j \in DOMAIN doc.controls : j # i => new.controls[j] = doc.controls[j]
        /\ new.controls[i] = [[c EXCEPT !.images = <<rel>>] EXCEPT !.showing = FALSE]
    BY <1>1, <1>6 DEF DocumentNames
  <2>3. SamePicture(new.controls[i], c)
    <3> DEFINE d == [[c EXCEPT !.images = <<rel>>] EXCEPT !.showing = FALSE]
    <3>1. d.part = c.part /\ d.images = <<rel>> /\ d.markers = c.markers /\ d.showing = FALSE
      BY <2>1 DEF ControlNames
    <3> HIDE DEF d
    <3>2. SamePicture(d, c)
      BY <1>4, <1>5, <3>1 DEF SamePicture, Type
    <3> QED BY <2>2, <3>2 DEF d
  <2>4. \A j \in DOMAIN doc.controls : j # i => SamePicture(new.controls[j], doc.controls[j])
    BY <2>2, SelfKeeps DEF Keeps
  <2> QED BY <2>2, <2>3, <2>4
<1>9. shot \in Shots /\ shot.image = image
  <2>1. doc.media[m] \in Shots
    BY <1>1, <1>3 DEF Related
  <2> QED BY <2>1 DEF shot, Shots
<1>10. /\ new.media \in Seq(Shots) /\ Len(new.media) = Len(doc.media) /\ new.media[m] = shot
       /\ \A k \in DOMAIN doc.media : k # m => new.media[k] = doc.media[k]
  <2>1. doc.media \in Seq(Shots)
    BY <1>1 DEF Related
  <2> DEFINE n == Len(doc.media)
  <2>2. doc.media \in [1..n -> Shots] /\ m \in 1..n /\ n \in Nat
    BY <1>3, <2>1
  <2> HIDE DEF n
  <2>3. new.media \in [1..n -> Shots]
    BY <1>7, <1>9, <2>2
  <2>4. new.media \in Seq(Shots) /\ Len(new.media) = n
    BY <2>2, <2>3
  <2> QED BY <1>3, <1>7, <2>2, <2>4 DEF n
<1>11. Related(new)
  BY <1>1, <1>7, <1>10 DEF Related
<1>12. \A j \in DOMAIN doc.controls : Hangs(doc, doc.controls[j]) /\ Hangs(new, new.controls[j])
  BY <1>7, <1>8 DEF Illustrated, Hangs, SamePicture
<1>13. Pictured(new, new.controls[i]) = image
  <2>1. PictureIs(new, new.controls[i])
    BY <1>11, <1>12, PictureOf
  <2> DEFINE e == new.controls[i]
  <2>2. e.part = c.part /\ e.images = <<rel>> /\ rel \in DOMAIN new.rels[e.part]
    BY <1>4, <1>7, <1>8 DEF SamePicture
  <2> HIDE DEF e
  <2>3. Pictured(new, e) = new.media[new.rels[e.part][rel]].image
    BY <2>1, <2>2 DEF PictureIs, e
  <2>4. new.rels[e.part][rel] = m
    BY <1>5, <1>7, <2>2
  <2> QED BY <1>9, <1>10, <2>3, <2>4 DEF e
<1>14. ASSUME NEW j \in DOMAIN doc.controls, j # i
       PROVE  Pictured(new, new.controls[j]) = Pictured(doc, doc.controls[j])
  <2> DEFINE d == doc.controls[j]
             e == new.controls[j]
  <2>1. PictureIs(new, e) /\ PictureIs(doc, d) /\ SamePicture(e, d) /\ Hangs(doc, d)
    BY <1>1, <1>8, <1>11, <1>12, PictureOf
  <2>2. e.part = d.part /\ e.images = d.images
    BY <2>1 DEF SamePicture
  <2>3. ASSUME NEW rel2 \in DOMAIN doc.rels[d.part], d.images = <<rel2>>
        PROVE  doc.rels[d.part][rel2] # m
    BY <1>14, <2>3, Unshared DEF m
  <2> HIDE DEF d, e
  <2>4. CASE d.images = <<>>
    BY <2>1, <2>2, <2>4 DEF PictureIs, d, e
  <2>5. CASE d.images # <<>>
    <3>1. PICK rel2 \in DOMAIN doc.rels[d.part] : d.images = <<rel2>>
      BY <2>1, <2>5 DEF Hangs
    <3>2. Pictured(doc, d) = doc.media[doc.rels[d.part][rel2]].image /\ doc.rels[d.part][rel2] \in DOMAIN doc.media
      BY <2>1, <3>1 DEF PictureIs
    <3>3. Pictured(new, e) = new.media[doc.rels[d.part][rel2]].image
      BY <1>7, <2>1, <2>2, <3>1 DEF PictureIs
    <3> QED BY <1>10, <2>3, <3>1, <3>2, <3>3 DEF d, e
  <2> QED BY <2>4, <2>5
<1> QED BY <1>8, <1>11, <1>12, <1>13, <1>14 DEF ShowsPlaced, Illustrated

\* Otherwise it gets a relationship and a medium of its own.
LEMMA AppendedShows ==
  ASSUME NEW pub, NEW doc, GoodDocument(pub, doc), Illustrated(doc), NEW i \in DOMAIN doc.controls, Type(doc.controls[i]) = "picture",
         ~CanReplaceMedia(doc, doc.controls[i]), NEW image \in DOMAIN Images,
         NEW new, new = PicturePlaced(doc, i, image)
  PROVE  ShowsPlaced(new, doc, i, image)
<1> DEFINE c == doc.controls[i]
           part == c.part
           shot == [image |-> image, own |-> TRUE]
           n == Len(doc.media) + 1
           last == Len(doc.rels[part]) + 1
<1>1. Related(doc) /\ Hangs(doc, c) /\ DOMAIN doc = DocumentNames /\ GoodControl(pub, c) /\ part \in Parts /\ DOMAIN doc.rels = Parts
  BY GoodControls DEF Illustrated, GoodDocument, Hangs, Related
<1>2. new = [[doc EXCEPT !.media = Append(@, shot), !.rels[part] = Append(@, n)]
               EXCEPT !.controls[i].images = <<last>>, !.controls[i].showing = FALSE]
  BY DEF PicturePlaced, AddNativePicturePackageParts
<1> HIDE DEF n, last, shot
<1>3. new.rels = [doc.rels EXCEPT ![part] = Append(@, n)] /\ new.media = Append(doc.media, shot)
  BY <1>1, <1>2 DEF DocumentNames
<1>4. DOMAIN c = ControlNames
  BY <1>1 DEF GoodControl
<1>5. /\ DOMAIN new.controls = DOMAIN doc.controls
      /\ \A j \in DOMAIN doc.controls : j # i => new.controls[j] = doc.controls[j]
      /\ new.controls[i] = [[c EXCEPT !.images = <<last>>] EXCEPT !.showing = FALSE]
  BY <1>1, <1>2 DEF DocumentNames
<1>6. new.controls[i].part = part /\ Type(new.controls[i]) = "picture" /\ ~new.controls[i].showing /\ new.controls[i].images = <<last>>
  <2> DEFINE d == [[c EXCEPT !.images = <<last>>] EXCEPT !.showing = FALSE]
  <2>1. d.part = part /\ d.images = <<last>> /\ d.markers = c.markers /\ d.showing = FALSE
    BY <1>4 DEF ControlNames
  <2> HIDE DEF d
  <2>2. Type(d) = "picture"
    BY <2>1 DEF Type
  <2> QED BY <1>5, <2>1, <2>2 DEF d
<1>7. shot \in Shots /\ shot.image = image
  BY DEF shot, Shots
<1>8. /\ new.media \in Seq(Shots) /\ Len(new.media) = n /\ new.media[n] = shot /\ n \in 1..Len(new.media)
      /\ Len(doc.media) <= Len(new.media) /\ \A k \in 1..Len(doc.media) : new.media[k] = doc.media[k]
  <2>1. doc.media \in Seq(Shots) /\ Len(doc.media) \in Nat
    BY <1>1 DEF Related
  <2> QED BY <1>3, <1>7, <2>1 DEF n
<1>9. \A p \in Parts \ {part} : new.rels[p] = doc.rels[p] /\ \A r \in DOMAIN doc.rels[p] : doc.rels[p][r] # n
  <2>1. ASSUME NEW p \in Parts, NEW r \in DOMAIN doc.rels[p] PROVE doc.rels[p][r] # n
    <3>1. doc.rels[p] \in Seq(1..Len(doc.media)) /\ Len(doc.media) \in Nat
      BY <1>1 DEF Related
    <3>2. doc.rels[p][r] \in 1..Len(doc.media)
      BY <3>1
    <3> QED BY <3>1, <3>2 DEF n
  <2> QED BY <1>1, <1>3, <2>1
<1>10. DOMAIN new.rels = Parts /\ new.rels[part] = Append(doc.rels[part], n)
  BY <1>1, <1>3
<1>a. AddsMedium(new, doc, part, n)
  BY <1>1, <1>8, <1>9, <1>10 DEF AddsMedium
<1>b. Added(new, doc, part, n)
  BY <1>1, <1>a, AddedRelation
<1>11. /\ Related(new)
       /\ \A d : Hangs(doc, d) => Hangs(new, d) /\ Pictured(new, d) = Pictured(doc, d)
       /\ \A d : d.part = part /\ Type(d) = "picture" /\ ~d.showing /\ d.images = <<last>> =>
            Hangs(new, d) /\ Pictured(new, d) = new.media[n].image
  BY <1>b DEF last, Added
<1>12. Hangs(new, new.controls[i]) /\ Pictured(new, new.controls[i]) = image
  BY <1>6, <1>7, <1>8, <1>11
<1>13. ASSUME NEW j \in DOMAIN doc.controls, j # i
       PROVE  Hangs(new, new.controls[j]) /\ Pictured(new, new.controls[j]) = Pictured(doc, doc.controls[j])
  <2>1. Hangs(doc, doc.controls[j]) /\ new.controls[j] = doc.controls[j]
    BY <1>5, <1>13 DEF Illustrated
  <2> QED BY <1>11, <2>1
<1> QED BY <1>5, <1>11, <1>12, <1>13 DEF ShowsPlaced, Illustrated

\* Either way.
LEMMA PlacedShows ==
  ASSUME NEW pub, NEW doc, GoodDocument(pub, doc), Illustrated(doc), NEW i \in DOMAIN doc.controls, Type(doc.controls[i]) = "picture",
         NEW image \in DOMAIN Images
  PROVE  ShowsPlaced(PicturePlaced(doc, i, image), doc, i, image)
  BY ReplacedShows, AppendedShows

---------------------------------------------------------------------------
(* Pictures of the documents that the server writes *)

\* Pictures are the same in controls that are alike.
LEMMA LikePictures ==
  ASSUME NEW doc, Related(doc), NEW c, Hangs(doc, c), NEW new, new.rels = doc.rels, new.media = doc.media, NEW d, Like(d, c)
  PROVE  Hangs(new, d) /\ Pictured(new, d) = Pictured(doc, c)
<1>1. SamePicture(d, c)
  BY DEF Like, SameField, SamePicture
<1> QED BY <1>1, SameHangs

\* Values that are written leave the images alone.
LEMMA OverlaidPictures ==
  ASSUME NEW pub, Sound(pub), ParseTemplateFields(pub), ~UnsupportedDates(pub),
         NEW doc, GoodDocument(pub, doc), Illustrated(doc), NEW data, ValidData(pub, data), NEW selected,
         NEW new, new = Overlaid(doc, Manifest(pub), data, selected)
  PROVE  Illustrated(new) /\ new.rels = doc.rels /\ new.media = doc.media
<1> DEFINE written == selected \cap ScalarTags(Manifest(pub))
           f(i) == IF i \in Read(doc) /\ doc.controls[i].tag \in written
                   THEN NativeFieldControl(doc.controls[i], Manifest(pub)[doc.controls[i].tag], ValueOf(data, doc.controls[i].tag))
                   ELSE doc.controls[i]
<1>1. DOMAIN doc = DocumentNames /\ new = [doc EXCEPT !.controls = [i \in DOMAIN doc.controls |-> f(i)]]
  BY DEF Overlaid, GoodDocument
<1> HIDE DEF f
<1>2. new.rels = doc.rels /\ new.media = doc.media /\ new.controls = [i \in DOMAIN doc.controls |-> f(i)]
  BY <1>1 DEF DocumentNames
<1>3. /\ DOMAIN new.controls = DOMAIN doc.controls
      /\ \A i \in DOMAIN doc.controls : Follows(pub, new.controls[i], doc.controls[i])
      /\ \A i \in DOMAIN doc.controls : doc.controls[i].tag \notin written => new.controls[i] = doc.controls[i]
  BY OverlaidGood
<1>4. ASSUME NEW i \in DOMAIN doc.controls PROVE Hangs(new, new.controls[i])
  <2> DEFINE c == doc.controls[i]
             d == new.controls[i]
  <2>1. Hangs(doc, c) /\ Related(doc) /\ GoodControl(pub, c)
    BY GoodControls DEF Illustrated
  <2>2. CASE c.tag \notin written
    <3>1. SamePicture(d, c)
      BY <1>3, <2>2 DEF SamePicture
    <3> QED BY <1>2, <2>1, <3>1, SameHangs
  <2>3. CASE c.tag \in written
    <3>1. Type(c) # "picture"
      BY <2>1, <2>3, FieldOfControl DEF ScalarTags, PictureTags
    <3>2. c.images = <<>> /\ c.part \in Parts
      BY <2>1, <3>1 DEF Hangs
    <3>3. DOMAIN c = ControlNames
      BY <2>1 DEF GoodControl
    <3>4. \A field : \A value : NativeFieldControl(c, field, value).images = c.images
      BY <3>3 DEF NativeFieldControl, ControlNames
    <3>5. d.images = <<>>
      BY <1>2, <3>2, <3>4 DEF f
    <3>6. d.part = c.part
      BY <1>3 DEF Follows, SameField
    <3> QED BY <3>2, <3>5, <3>6 DEF Hangs
  <2> QED BY <2>2, <2>3
<1>5. Related(new)
  BY <1>2 DEF Illustrated, Related
<1> QED BY <1>2, <1>3, <1>4, <1>5 DEF Illustrated

\* So does the choice that takes the place of an alternate content.
LEMMA FlattenPictures ==
  ASSUME NEW pub, NEW doc, GoodDocument(pub, doc), Illustrated(doc), NEW fields, NEW new, new = Flatten(doc, fields)
  PROVE  Illustrated(new) /\ new.rels = doc.rels /\ new.media = doc.media
<1>1. new.rels = doc.rels /\ new.media = doc.media
  <2>1. PICK controls : new = [doc EXCEPT !.controls = controls]
    BY Zenon DEF Flatten
  <2> QED BY <2>1 DEF GoodDocument, DocumentNames
<1>2. ASSUME NEW j \in DOMAIN new.controls PROVE Hangs(new, new.controls[j])
  <2>1. PICK i \in DOMAIN doc.controls : new.controls[j] = Flat(doc, fields, doc.controls[i])
    BY FlattenControls DEF Flattened
  <2>2. Like(new.controls[j], doc.controls[i])
    <3>1. GoodControl(pub, doc.controls[i])
      BY GoodControls
    <3> QED BY <2>1, <3>1, FlatGood
  <2>3. Related(doc) /\ Hangs(doc, doc.controls[i])
    BY DEF Illustrated
  <2> QED BY <1>1, <2>2, <2>3, LikePictures
<1>3. Related(new)
  BY <1>1 DEF Illustrated, Related
<1> QED BY <1>1, <1>2, <1>3 DEF Illustrated

\* Each picture field still shows what one of its controls showed, and what any of them showed.
ShowsSame(new, doc, tag) ==
  /\ \A j \in Tagged(new, tag) : \E i \in Tagged(doc, tag) : Pictured(new, new.controls[j]) = Pictured(doc, doc.controls[i])
  /\ \A i \in Tagged(doc, tag) : \E j \in Tagged(new, tag) : Pictured(new, new.controls[j]) = Pictured(doc, doc.controls[i])

\* The pictures of a document that values were written into.
LEMMA OverlayShows ==
  ASSUME NEW pub, Sound(pub), ParseTemplateFields(pub), ~UnsupportedDates(pub), NEW doc, GoodDocument(pub, doc), Illustrated(doc),
         NEW data, ValidData(pub, data), NEW selected, FlattenSupported(doc, DOMAIN Manifest(pub)),
         NEW new, new = OverlayNativeResponseDocument(doc, Manifest(pub), data, selected)
  PROVE  Illustrated(new) /\ \A tag \in PictureTags(Manifest(pub)) : ShowsSame(new, doc, tag)
<1> DEFINE over == Overlaid(doc, Manifest(pub), data, selected)
           written == selected \cap ScalarTags(Manifest(pub))
<1>1. new = Flatten(over, DOMAIN Manifest(pub))
  BY Zenon DEF OverlayNativeResponseDocument
<1>2. GoodDocument(pub, over)
  BY OverlaidGood
<1>3. Illustrated(over) /\ over.rels = doc.rels /\ over.media = doc.media
  BY OverlaidPictures
<1> HIDE DEF over
<1>4. Illustrated(new) /\ new.rels = doc.rels /\ new.media = doc.media
  BY <1>1, <1>2, <1>3, FlattenPictures
<1>5. /\ \A j \in Read(new) : LET tag == new.controls[j].tag IN
           tag \notin written => \E i \in Tagged(doc, tag) : Like(new.controls[j], doc.controls[i])
      /\ \A i \in Read(doc) : LET tag == doc.controls[i].tag IN
           tag \in DOMAIN Manifest(pub) \ written => \E j \in Tagged(new, tag) : Like(new.controls[j], doc.controls[i])
  BY OverlayWritten
<1>6. ASSUME NEW i \in Read(doc), NEW j, Like(new.controls[j], doc.controls[i])
      PROVE  Pictured(new, new.controls[j]) = Pictured(doc, doc.controls[i])
  <2>1. Related(doc) /\ Hangs(doc, doc.controls[i])
    BY DEF Illustrated, Read
  <2> QED BY <1>4, <1>6, <2>1, LikePictures
<1>7. ASSUME NEW tag \in PictureTags(Manifest(pub)) PROVE ShowsSame(new, doc, tag)
  <2>1. tag \in DOMAIN Manifest(pub) \ written
    BY DEF PictureTags, ScalarTags
  <2> HIDE DEF written
  <2>2. ASSUME NEW j \in Tagged(new, tag)
        PROVE  \E i \in Tagged(doc, tag) : Pictured(new, new.controls[j]) = Pictured(doc, doc.controls[i])
    <3>1. j \in Read(new) /\ new.controls[j].tag = tag
      BY DEF Tagged
    <3>2. PICK i \in Tagged(doc, tag) : Like(new.controls[j], doc.controls[i])
      BY <1>5, <2>1, <3>1
    <3>3. i \in Read(doc)
      BY DEF Tagged
    <3> QED BY <1>6, <3>2, <3>3
  <2>3. ASSUME NEW i \in Tagged(doc, tag)
        PROVE  \E j \in Tagged(new, tag) : Pictured(new, new.controls[j]) = Pictured(doc, doc.controls[i])
    <3>1. i \in Read(doc) /\ doc.controls[i].tag = tag
      BY DEF Tagged
    <3>2. PICK j \in Tagged(new, tag) : Like(new.controls[j], doc.controls[i])
      BY <1>5, <2>1, <3>1
    <3> QED BY <1>6, <3>1, <3>2
  <2> QED BY <2>2, <2>3 DEF ShowsSame
<1> QED BY <1>4, <1>7

\* Every control of a field shows a picture.
AllShow(doc, tag, picture) == \A i \in Tagged(doc, tag) : Pictured(doc, doc.controls[i]) = picture

\* A picture that is placed natively is shown by its field, and the others show what they did.
LEMMA PicturesShow ==
  ASSUME NEW pub, NEW doc, GoodDocument(pub, doc), Illustrated(doc), NEW pictures, NEW tag, DOMAIN pictures \subseteq {tag},
         DOMAIN pictures # {} => PlacesOf(doc, tag) # {} /\ pictures[tag] \in DOMAIN Images,
         NEW new, new = OverlayNativeResponsePictures(doc, pictures), UniqueTags(new),
         NEW placed, \A t \in DOMAIN placed : AllShow(doc, t, placed[t])
  PROVE  Illustrated(new) /\ \A t \in DOMAIN placed : AllShow(new, t, Override(pictures, placed)[t])
<1> DEFINE i == CHOOSE j \in PlacesOf(doc, tag) : TRUE
<1>1. new = IF DOMAIN pictures = {} THEN doc ELSE PicturePlaced(doc, i, pictures[tag])
  BY PlacedOne
<1>2. CASE DOMAIN pictures = {}
  <2>1. new = doc /\ \A t \in DOMAIN placed : Override(pictures, placed)[t] = placed[t]
    BY <1>1, <1>2, Overridden
  <2> QED BY <2>1
<1>3. CASE DOMAIN pictures # {}
  <2>1. i \in PlacesOf(doc, tag) /\ DOMAIN pictures = {tag}
    BY <1>3
  <2> HIDE DEF i
  <2>2. i \in Tagged(doc, tag) /\ i \in DOMAIN doc.controls /\ Type(doc.controls[i]) = "picture" /\ doc.controls[i].tag = tag
    BY <2>1 DEF PlacesOf, PictureControls, Tagged, Read
  <2>3. ShowsPlaced(new, doc, i, pictures[tag]) /\ Succeeds(pub, new, doc)
    BY <1>1, <1>3, <2>2, PlacedShows, PlacedGood
  <2>4. /\ DOMAIN new.controls = DOMAIN doc.controls
        /\ \A j \in DOMAIN doc.controls : Follows(pub, new.controls[j], doc.controls[j])
    BY <2>3 DEF Succeeds
  <2>5. Read(new) = Read(doc) /\ \A j \in DOMAIN doc.controls : new.controls[j].tag = doc.controls[j].tag
    <3>1. new.links = doc.links /\ new.requires = doc.requires
      BY <2>3 DEF Succeeds
    <3>2. \A j \in DOMAIN doc.controls :
            /\ new.controls[j].tag = doc.controls[j].tag /\ new.controls[j].part = doc.controls[j].part
            /\ new.controls[j].alternate = doc.controls[j].alternate /\ new.controls[j].choice = doc.controls[j].choice
      BY <2>4 DEF Follows, SameField
    <3> QED BY <2>4, <3>1, <3>2, SameReading
  <2>6. ASSUME NEW t, NEW j \in Tagged(new, t) PROVE j \in Tagged(doc, t) /\ j \in DOMAIN doc.controls
    BY <2>5 DEF Tagged, Read
  <2>7. ASSUME NEW t \in DOMAIN placed, NEW j \in Tagged(new, t)
        PROVE  Pictured(new, new.controls[j]) = Override(pictures, placed)[t]
    <3>1. j \in Tagged(doc, t) /\ j \in DOMAIN doc.controls /\ j \in Read(new) /\ new.controls[j].tag = t
      BY <2>6 DEF Tagged
    <3>2. CASE t = tag
      <4>1. i \in Read(new) /\ new.controls[i].tag = tag
        BY <2>2, <2>5 DEF Tagged
      <4>2. j = i
        BY <3>1, <3>2, <4>1 DEF UniqueTags
      <4>3. Override(pictures, placed)[t] = pictures[tag]
        BY <2>1, <3>2, Overridden
      <4> QED BY <2>3, <4>2, <4>3 DEF ShowsPlaced
    <3>3. CASE t # tag
      <4>1. j # i
        BY <2>2, <2>5, <3>1, <3>3
      <4>2. Override(pictures, placed)[t] = placed[t]
        BY <2>1, <3>3, Overridden
      <4> QED BY <2>3, <3>1, <4>1, <4>2 DEF ShowsPlaced, AllShow
    <3> QED BY <3>2, <3>3
  <2> QED BY <2>3, <2>7 DEF ShowsPlaced, AllShow
<1> QED BY <1>2, <1>3

\* The values that are applied to a document that is opened leave the pictures alone.
LEMMA PrefillShows ==
  ASSUME NEW pub, Sound(pub), ParseTemplateFields(pub), NEW doc, GoodDocument(pub, doc), NEW placed, Hung(doc, placed),
         NEW values, NEW locked,
         \A tag \in DOMAIN values :
           /\ tag \in DOMAIN Manifest(pub) /\ Valid(Manifest(pub)[tag], values[tag])
           /\ ManifestFieldValueMatches(Manifest(pub)[tag], values[tag])
  PROVE  Hung(ApplyPrefill(pub, doc, values, locked), placed)
<1> DEFINE new == ApplyPrefill(pub, doc, values, locked)
<1>1. Prefilled(pub, new, doc)
  BY PrefillControls
<1> HIDE DEF new
<1>2. /\ new.links = doc.links /\ new.rels = doc.rels /\ new.media = doc.media /\ DOMAIN new.controls = DOMAIN doc.controls
      /\ GoodDocument(pub, new)
  BY <1>1 DEF Prefilled
<1>3. Len(new.controls) = Len(doc.controls)
  BY <1>2, GoodControls
<1>4. ASSUME NEW i \in DOMAIN doc.controls PROVE Keeps(new.controls[i], doc.controls[i])
  <2>1. Hangs(doc, doc.controls[i])
    BY DEF Hung, Illustrated
  <2>2. /\ Follows(pub, new.controls[i], doc.controls[i]) /\ new.controls[i].images = doc.controls[i].images
        /\ Type(doc.controls[i]) = "picture" => new.controls[i] = doc.controls[i]
    BY <1>1 DEF Prefilled
  <2> QED BY <2>1, <2>2, ScalarKeeps, SelfKeeps
<1> QED BY <1>2, <1>3, <1>4, HungChanged DEF new

---------------------------------------------------------------------------
(* Pictures that are edited *)

\* What is left when an element is taken out.
LEMMA RemovedElement ==
  ASSUME NEW S, NEW s \in Seq(S), NEW i \in DOMAIN s
  PROVE  LET r == RemoveAt(s, i) IN
         /\ r \in Seq(S) /\ Len(r) = Len(s) - 1 /\ DOMAIN r = 1..Len(s) - 1
         /\ \A j \in 1..Len(s) - 1 : r[j] = s[IF j < i THEN j ELSE j + 1]
<1> DEFINE n == Len(s)
           a == SubSeq(s, 1, i - 1)
           b == SubSeq(s, i + 1, n)
<1>1. n \in Nat /\ i \in 1..n
  OBVIOUS
<1>2. a \in Seq(S) /\ Len(a) = i - 1 /\ \A j \in 1..i - 1 : a[j] = s[j]
  BY <1>1
<1>3. b \in Seq(S) /\ Len(b) = n - i /\ \A j \in 1..n - i : b[j] = s[i + j]
  BY <1>1
<1>4. RemoveAt(s, i) = a \o b
  BY DEF RemoveAt
<1> HIDE DEF a, b
<1>5. a \o b \in Seq(S) /\ Len(a \o b) = n - 1
  BY <1>1, <1>2, <1>3
<1>6. ASSUME NEW j \in 1..n - 1 PROVE (a \o b)[j] = s[IF j < i THEN j ELSE j + 1]
  <2>1. CASE j < i
    <3>1. j \in 1..Len(a) /\ j \in 1..i - 1
      BY <1>1, <1>2, <2>1
    <3>2. (a \o b)[j] = a[j]
      BY <1>2, <1>3, <3>1
    <3> QED BY <1>2, <2>1, <3>1, <3>2
  <2>2. CASE ~(j < i)
    <3>1. j - (i - 1) \in 1..n - i /\ i + (j - (i - 1)) = j + 1
      BY <1>1, <2>2
    <3>2. (a \o b)[j] = b[j - (i - 1)]
      BY <1>1, <1>2, <1>3, <2>2
    <3> QED BY <1>3, <2>2, <3>1, <3>2
  <2> QED BY <2>1, <2>2
<1> HIDE DEF n
<1>7. DOMAIN (a \o b) = 1..n - 1
  BY <1>5
<1> QED BY <1>4, <1>5, <1>6, <1>7 DEF n

\* The editor shows what was placed.
EditorShows == editor.mode # None => Hung(editor.doc, editor.placed)

\* A control is changed, and pictures are not.
LEMMA ChangeShows ==
  ASSUME Staged, Stored, Opened, EditorShows, NEW i, ChangeControl(i)
  PROVE  Hung(editor'.doc, editor'.placed)
<1> DEFINE doc == editor.doc
<1>1. editor.mode # None /\ i \in Read(doc)
  BY DEF ChangeControl, Editing
<1>2. GoodDocument(Published, doc) /\ i \in DOMAIN doc.controls /\ Sound(Published) /\ Hung(doc, editor.placed)
  BY <1>1, TemplateSound DEF Opened, Read, Staged, EditorShows
<1>3. PICK c \in Changed(doc.controls[i]) : editor' = [editor EXCEPT !.doc.controls[i] = c]
  BY DEF ChangeControl
<1>4. Follows(Published, c, doc.controls[i]) /\ GoodControl(Published, c) /\ GoodControl(Published, doc.controls[i])
  BY <1>2, <1>3, GoodControls, ChangedGood DEF Follows
<1>5. DOMAIN editor = EditorNames /\ DOMAIN doc = DocumentNames
  BY <1>2 DEF Staged, GoodDocument
<1> DEFINE new == [doc EXCEPT !.controls[i] = c]
<1>6. editor' = [editor EXCEPT !.doc = new]
  BY <1>3
<1>7. GoodDocument(Published, new)
  BY <1>2, <1>4, ReplacedGood
<1>8. /\ new.links = doc.links /\ new.rels = doc.rels /\ new.media = doc.media /\ DOMAIN new.controls = DOMAIN doc.controls
      /\ new.controls[i] = c /\ \A j \in DOMAIN doc.controls : j # i => new.controls[j] = doc.controls[j]
  BY <1>2, <1>5 DEF DocumentNames
<1> HIDE DEF new
<1>9. Len(new.controls) = Len(doc.controls)
  BY <1>2, <1>7, <1>8, GoodControls
<1>10. Keeps(c, doc.controls[i])
  <2>1. c.images = doc.controls[i].images /\ Type(doc.controls[i]) # "picture"
    BY <1>3, <1>4, ChangedImages DEF GoodControl
  <2>2. Hangs(doc, doc.controls[i])
    BY <1>2 DEF Hung, Illustrated
  <2> QED BY <1>4, <2>1, <2>2, ScalarKeeps
<1>11. \A j \in DOMAIN doc.controls : Keeps(new.controls[j], doc.controls[j])
  BY <1>8, <1>10, SelfKeeps
<1>12. Hung(new, editor.placed)
  BY <1>2, <1>8, <1>9, <1>11, HungChanged
<1> QED BY <1>5, <1>6, <1>12 DEF EditorNames

\* A control is deleted, and what was placed in it.
LEMMA DeleteShows ==
  ASSUME Staged, Stored, Opened, EditorShows, NEW i, DeleteControl(i)
  PROVE  Hung(editor'.doc, editor'.placed)
<1> DEFINE doc == editor.doc
           n == Len(doc.controls)
           new == [doc EXCEPT !.controls = RemoveAt(@, i)]
           other == RemoveAt(editor.placed, i)
           f == [j \in 1..n - 1 |-> IF j < i THEN j ELSE j + 1]
<1>1. /\ editor.mode # None /\ i \in Read(doc)
      /\ editor' = [editor EXCEPT !.doc.controls = RemoveAt(@, i), !.placed = RemoveAt(@, i)]
  BY DEF DeleteControl, Editing
<1>2. GoodDocument(Published, doc) /\ i \in DOMAIN doc.controls /\ DOMAIN editor = EditorNames /\ Hung(doc, editor.placed)
  BY <1>1 DEF Opened, Read, Staged, EditorShows
<1>3. editor'.doc = new /\ editor'.placed = other
  BY <1>1, <1>2 DEF EditorNames
<1>4. DOMAIN doc = DocumentNames
  BY <1>2 DEF GoodDocument
<1>5. new.links = doc.links /\ new.rels = doc.rels /\ new.media = doc.media /\ new.controls = RemoveAt(doc.controls, i)
  BY <1>4 DEF DocumentNames
<1>6. PICK S : doc.controls \in Seq(S)
  BY <1>2 DEF GoodDocument
<1>7. n \in Nat /\ DOMAIN doc.controls = 1..n /\ i \in 1..n
  BY <1>2, <1>6
<1>8. editor.placed \in Seq(Placings) /\ Len(editor.placed) = n /\ i \in DOMAIN editor.placed
  BY <1>2, <1>7 DEF Hung
<1> HIDE DEF n, new, other
<1>9. /\ Len(new.controls) = n - 1 /\ DOMAIN new.controls = 1..n - 1
      /\ \A j \in 1..n - 1 : new.controls[j] = doc.controls[IF j < i THEN j ELSE j + 1]
  BY <1>2, <1>5, <1>6, RemovedElement DEF n
<1>10. /\ other \in Seq(Placings) /\ Len(other) = n - 1
       /\ \A j \in 1..n - 1 : other[j] = editor.placed[IF j < i THEN j ELSE j + 1]
  BY <1>8, RemovedElement DEF other
<1>11. \A j \in 1..n - 1 : f[j] \in 1..n /\ f[j] = IF j < i THEN j ELSE j + 1
  BY <1>7
<1> HIDE DEF f
<1>12. Rearranges(new, other, doc, editor.placed, f)
  BY <1>7, <1>9, <1>10, <1>11, SelfKeeps DEF Rearranges
<1> QED BY <1>2, <1>3, <1>5, <1>9, <1>10, <1>12, Rearranged

\* A control is duplicated, with what was placed in it.
LEMMA DuplicateShows ==
  ASSUME Staged, Stored, Opened, EditorShows, NEW i, DuplicateControl(i)
  PROVE  Hung(editor'.doc, editor'.placed)
<1> DEFINE doc == editor.doc
           n == Len(doc.controls)
           new == [doc EXCEPT !.controls = Append(@, doc.controls[i])]
           other == Append(editor.placed, editor.placed[i])
           f == [j \in 1..n + 1 |-> IF j = n + 1 THEN i ELSE j]
<1>1. /\ editor.mode # None /\ i \in Read(doc)
      /\ editor' = [editor EXCEPT !.doc.controls = Append(@, editor.doc.controls[i]),
                                  !.placed = Append(@, editor.placed[i])]
  BY DEF DuplicateControl, Editing
<1>2. GoodDocument(Published, doc) /\ i \in DOMAIN doc.controls /\ DOMAIN editor = EditorNames /\ Hung(doc, editor.placed)
  BY <1>1 DEF Opened, Read, Staged, EditorShows
<1>3. editor'.doc = new /\ editor'.placed = other
  BY <1>1, <1>2 DEF EditorNames
<1>4. DOMAIN doc = DocumentNames
  BY <1>2 DEF GoodDocument
<1>5. new.links = doc.links /\ new.rels = doc.rels /\ new.media = doc.media /\ new.controls = Append(doc.controls, doc.controls[i])
  BY <1>4 DEF DocumentNames
<1>6. PICK S : doc.controls \in Seq(S)
  BY <1>2 DEF GoodDocument
<1>7. n \in Nat /\ DOMAIN doc.controls = 1..n /\ i \in 1..n
  BY <1>2, <1>6
<1>8. editor.placed \in Seq(Placings) /\ Len(editor.placed) = n /\ i \in DOMAIN editor.placed
  BY <1>2, <1>7 DEF Hung
<1> HIDE DEF new, other
<1>9. /\ Len(new.controls) = n + 1 /\ DOMAIN new.controls = 1..n + 1 /\ new.controls[n + 1] = doc.controls[i]
      /\ \A j \in 1..n : new.controls[j] = doc.controls[j]
  BY <1>5, <1>6, <1>7
<1>10. /\ other \in Seq(Placings) /\ Len(other) = n + 1 /\ other[n + 1] = editor.placed[i]
       /\ \A j \in 1..n : other[j] = editor.placed[j]
  BY <1>8 DEF other
<1> HIDE DEF n
<1>11. \A j \in 1..n + 1 : f[j] \in 1..n /\ (j = n + 1 => f[j] = i) /\ (j # n + 1 => f[j] = j /\ j \in 1..n)
  BY <1>7
<1> HIDE DEF f
<1>12. Rearranges(new, other, doc, editor.placed, f)
  BY <1>7, <1>9, <1>10, <1>11, SelfKeeps DEF Rearranges
<1> QED BY <1>2, <1>3, <1>5, <1>9, <1>10, <1>12, Rearranged

\* A control with another image, or none.
Reimaged(new, doc, i, images, showing) ==
  /\ DOMAIN new = DocumentNames /\ new.links = doc.links /\ new.rels = doc.rels /\ new.media = doc.media
  /\ DOMAIN new.controls = DOMAIN doc.controls /\ Len(new.controls) = Len(doc.controls)
  /\ \A j \in DOMAIN doc.controls : j # i => new.controls[j] = doc.controls[j]
  /\ new.controls[i].part = doc.controls[i].part /\ Type(new.controls[i]) = "picture"
  /\ new.controls[i].images = images /\ new.controls[i].showing = showing

\* What else such a control is stays as it was.
LEMMA ImageChanged ==
  ASSUME NEW pub, NEW doc, GoodDocument(pub, doc), NEW i \in PictureControls(doc), NEW images, NEW showing \in BOOLEAN,
         NEW new, new = [doc EXCEPT !.controls[i].images = images, !.controls[i].showing = showing]
  PROVE  Reimaged(new, doc, i, images, showing)
<1>1. i \in DOMAIN doc.controls /\ Type(doc.controls[i]) = "picture"
  BY DEF PictureControls, Read
<1>2. DOMAIN doc = DocumentNames /\ GoodControl(pub, doc.controls[i])
  BY <1>1, GoodControls DEF GoodDocument
<1>3. /\ GoodDocument(pub, new) /\ DOMAIN new.controls = DOMAIN doc.controls
      /\ \A j \in DOMAIN doc.controls : j # i => new.controls[j] = doc.controls[j]
      /\ Follows(pub, new.controls[i], doc.controls[i])
  <2>1. LET other == [doc EXCEPT !.controls[i].images = images, !.controls[i].showing = showing] IN
        /\ GoodDocument(pub, other)
        /\ DOMAIN other.controls = DOMAIN doc.controls
        /\ \A j \in DOMAIN doc.controls : j # i => other.controls[j] = doc.controls[j]
        /\ Follows(pub, other.controls[i], doc.controls[i])
    BY <1>1, PictureGood
  <2> QED BY <2>1, Zenon
<1>4. Len(new.controls) = Len(doc.controls)
  BY <1>3, GoodControls
<1>5. DOMAIN new = DocumentNames /\ new.links = doc.links /\ new.rels = doc.rels /\ new.media = doc.media
  BY <1>2 DEF DocumentNames
<1>6. new.controls[i] = [[doc.controls[i] EXCEPT !.images = images] EXCEPT !.showing = showing]
  BY <1>1, <1>2 DEF DocumentNames
<1>7. new.controls[i].images = images /\ new.controls[i].showing = showing
  <2>1. PICK c : c = doc.controls[i] /\ DOMAIN c = ControlNames
    BY <1>2, Zenon DEF GoodControl
  <2>2. /\ [[c EXCEPT !.images = images] EXCEPT !.showing = showing].images = images
        /\ [[c EXCEPT !.images = images] EXCEPT !.showing = showing].showing = showing
    BY <2>1 DEF ControlNames
  <2> QED BY <1>6, <2>1, <2>2, Zenon
<1>8. new.controls[i].part = doc.controls[i].part /\ Type(new.controls[i]) = "picture"
  BY <1>1, <1>3 DEF Follows, SameField
<1> QED BY <1>3, <1>4, <1>5, <1>7, <1>8 DEF Reimaged

\* A picture is removed.
LEMMA RemoveShows ==
  ASSUME Staged, Stored, Opened, EditorShows, NEW i, RemovePicture(i)
  PROVE  Hung(editor'.doc, editor'.placed)
<1> DEFINE doc == editor.doc
           new == [doc EXCEPT !.controls[i].images = <<>>, !.controls[i].showing = TRUE]
           other == [editor.placed EXCEPT ![i] = None]
<1>1. /\ editor.mode # None /\ i \in PictureControls(doc)
      /\ editor' = [editor EXCEPT !.doc.controls[i].images = <<>>, !.doc.controls[i].showing = TRUE,
                                  !.placed[i] = None]
  BY DEF RemovePicture, Editing
<1>2. GoodDocument(Published, doc) /\ DOMAIN editor = EditorNames /\ Hung(doc, editor.placed)
  BY <1>1 DEF Opened, Staged, EditorShows
<1>3. editor'.doc = new /\ editor'.placed = other
  BY <1>1, <1>2 DEF EditorNames
<1>4. /\ new.links = doc.links /\ new.rels = doc.rels /\ new.media = doc.media
      /\ DOMAIN new.controls = DOMAIN doc.controls /\ Len(new.controls) = Len(doc.controls)
      /\ \A j \in DOMAIN doc.controls : j # i => new.controls[j] = doc.controls[j]
      /\ new.controls[i].part = doc.controls[i].part /\ new.controls[i].images = <<>>
  <2>1. Reimaged(new, doc, i, <<>>, TRUE)
    BY <1>1, <1>2, ImageChanged
  <2> HIDE DEF new
  <2> QED BY <2>1 DEF Reimaged
<1> HIDE DEF new
<1>5. Related(doc) /\ i \in DOMAIN doc.controls /\ Hangs(doc, doc.controls[i])
  BY <1>1, <1>2 DEF Hung, Illustrated, PictureControls, Read
<1>6. Related(new)
  BY <1>4, <1>5 DEF Related
<1>7. ASSUME NEW c, Hangs(doc, c) PROVE Hangs(new, c) /\ Pictured(new, c) = Pictured(doc, c)
  BY <1>4, <1>5, <1>7, SelfKeeps, SameHangs DEF Keeps
<1>8. Hangs(new, new.controls[i])
  BY <1>4, <1>5 DEF Hangs
<1>9. Pictured(new, new.controls[i]) = None
  BY <1>4, <1>6, <1>8, PictureOf DEF PictureIs
<1>10. Rehangs(new, doc, i, None)
  BY <1>4, <1>6, <1>7, <1>8, <1>9 DEF Rehangs
<1>11. None \in Placings /\ DOMAIN doc.controls = 1..Len(doc.controls)
  BY <1>2, GoodControls DEF Placings
<1> QED BY <1>1, <1>2, <1>3, <1>10, <1>11, Rehung

\* One is inserted, with a relationship and a medium of its own.
LEMMA InsertShows ==
  ASSUME Staged, Stored, Opened, EditorShows, NEW i, NEW image \in DOMAIN Images, InsertPicture(i, image)
  PROVE  Hung(editor'.doc, editor'.placed)
<1> DEFINE doc == editor.doc
           part == doc.controls[i].part
           last == Len(doc.rels[part]) + 1
           shot == [image |-> image, own |-> FALSE]
           n == Len(doc.media) + 1
           shown == [doc EXCEPT !.controls[i].images = <<last>>, !.controls[i].showing = FALSE]
           new == [shown EXCEPT !.media = Append(@, shot), !.rels[part] = Append(@, Len(shown.media) + 1)]
           other == [editor.placed EXCEPT ![i] = image]
<1>1. /\ editor.mode # None /\ i \in PictureControls(doc)
      /\ editor' = [editor EXCEPT !.doc = new, !.placed[i] = image]
  BY DEF InsertPicture, Editing, InPicture
<1>2. GoodDocument(Published, doc) /\ DOMAIN editor = EditorNames /\ Hung(doc, editor.placed)
  BY <1>1 DEF Opened, Staged, EditorShows
<1> HIDE DEF new
<1>3. editor'.doc = new /\ editor'.placed = other
  BY <1>1, <1>2 DEF EditorNames
<1>4. /\ DOMAIN shown = DocumentNames /\ shown.links = doc.links /\ shown.rels = doc.rels /\ shown.media = doc.media
      /\ DOMAIN shown.controls = DOMAIN doc.controls /\ Len(shown.controls) = Len(doc.controls)
      /\ \A j \in DOMAIN doc.controls : j # i => shown.controls[j] = doc.controls[j]
      /\ shown.controls[i].part = doc.controls[i].part /\ Type(shown.controls[i]) = "picture"
      /\ shown.controls[i].images = <<last>> /\ shown.controls[i].showing = FALSE
  <2> HIDE DEF last
  <2>1. Reimaged(shown, doc, i, <<last>>, FALSE)
    BY <1>1, <1>2, ImageChanged
  <2> HIDE DEF shown
  <2> QED BY <2>1 DEF Reimaged
<1>5. Related(doc) /\ i \in DOMAIN doc.controls /\ part \in Parts /\ DOMAIN doc.rels = Parts
  BY <1>1, <1>2 DEF Hung, Illustrated, PictureControls, Read, Hangs, Related
<1> HIDE DEF last, shot, shown, part
<1>6. /\ new.links = shown.links /\ new.controls = shown.controls
      /\ new.media = Append(doc.media, shot) /\ new.rels = [doc.rels EXCEPT ![part] = Append(@, n)]
  BY <1>4 DEF new, DocumentNames
<1>7. shot \in Shots /\ shot.image = image /\ doc.media \in Seq(Shots) /\ Len(doc.media) \in Nat
  BY <1>5 DEF shot, Shots, Related
<1>8. /\ new.media \in Seq(Shots) /\ new.media[n] = shot /\ n \in 1..Len(new.media)
      /\ Len(doc.media) <= Len(new.media) /\ \A k \in 1..Len(doc.media) : new.media[k] = doc.media[k]
  BY <1>6, <1>7
<1>9. \A p \in Parts \ {part} : new.rels[p] = doc.rels[p] /\ \A r \in DOMAIN doc.rels[p] : doc.rels[p][r] # n
  <2>1. ASSUME NEW p \in Parts, NEW r \in DOMAIN doc.rels[p] PROVE doc.rels[p][r] # n
    <3>1. doc.rels[p] \in Seq(1..Len(doc.media))
      BY <1>5 DEF Related
    <3>2. doc.rels[p][r] \in 1..Len(doc.media)
      BY <3>1
    <3> QED BY <1>7, <3>2
  <2> QED BY <1>5, <1>6, <2>1
<1>10. DOMAIN new.rels = Parts /\ new.rels[part] = Append(doc.rels[part], n)
  BY <1>5, <1>6
<1>11. AddsMedium(new, doc, part, n)
  BY <1>5, <1>8, <1>9, <1>10 DEF AddsMedium
<1>12. Added(new, doc, part, n)
  BY <1>5, <1>11, AddedRelation
<1>13. Hangs(new, new.controls[i]) /\ Pictured(new, new.controls[i]) = image
  BY <1>4, <1>6, <1>7, <1>8, <1>12 DEF Added, last, part
<1>14. Rehangs(new, doc, i, image)
  BY <1>4, <1>6, <1>12, <1>13 DEF Rehangs, Added
<1>15. image \in Placings /\ DOMAIN doc.controls = 1..Len(doc.controls)
  BY <1>2, GoodControls DEF Placings
<1> QED BY <1>1, <1>2, <1>3, <1>14, <1>15, Rehung

\* One is copied, with the picture that was placed.
LEMMA CopyShows ==
  ASSUME Staged, Stored, Opened, EditorShows, NEW i, NEW j, CopyPicture(i, j)
  PROVE  Hung(editor'.doc, editor'.placed)
<1> DEFINE doc == editor.doc
           c == doc.controls[j]
           part == c.part
           picture == editor.placed[j]
           shown(rel) == [doc EXCEPT !.controls[i].images = <<rel>>, !.controls[i].showing = FALSE]
           last == Len(doc.rels[part]) + 1
           n == doc.rels[part][c.images[1]]
           more == [shown(last) EXCEPT !.rels[part] = Append(@, n)]
<1>1. /\ editor.mode # None /\ i \in PictureControls(doc) /\ j \in PictureControls(doc)
      /\ doc.controls[i].part = part /\ c.images # <<>>
      /\ \E new \in {shown(c.images[1]), more} :
           editor' = [editor EXCEPT !.doc = new, !.placed[i] = editor.placed[j]]
  BY DEF CopyPicture, Editing, InPicture
<1>2. GoodDocument(Published, doc) /\ DOMAIN editor = EditorNames /\ Hung(doc, editor.placed)
  BY <1>1 DEF Opened, Staged, EditorShows
<1>3. /\ Related(doc) /\ Hangs(doc, c) /\ part \in Parts /\ DOMAIN doc.rels = Parts
      /\ Pictured(doc, c) = picture
  BY <1>1, <1>2 DEF Hung, Illustrated, PictureControls, Read, Hangs, Related
<1>4. PICK rel \in DOMAIN doc.rels[part] : c.images = <<rel>>
  BY <1>1, <1>3 DEF Hangs
<1>5. PictureIs(doc, c)
  BY <1>3, PictureOf
<1>6. /\ c.images[1] = rel /\ n = doc.rels[part][rel] /\ n \in DOMAIN doc.media /\ ~c.showing
      /\ Pictured(doc, c) = doc.media[n].image /\ Pictured(doc, c) \in Placings
  <2>1. c.images[1] = rel
    BY <1>4
  <2>2. n = doc.rels[part][rel]
    BY <2>1
  <2> HIDE DEF n, c
  <2>3. doc.rels[c.part][rel] \in DOMAIN doc.media /\ ~c.showing /\ Pictured(doc, c) = doc.media[doc.rels[c.part][rel]].image
        /\ Pictured(doc, c) \in Placings
    BY <1>4, <1>5 DEF PictureIs
  <2> QED BY <2>1, <2>2, <2>3
<1>7. \A r : LET new == shown(r) IN
        /\ DOMAIN new = DocumentNames /\ new.links = doc.links /\ new.rels = doc.rels /\ new.media = doc.media
        /\ DOMAIN new.controls = DOMAIN doc.controls /\ Len(new.controls) = Len(doc.controls)
        /\ \A k \in DOMAIN doc.controls : k # i => new.controls[k] = doc.controls[k]
        /\ new.controls[i].part = part /\ Type(new.controls[i]) = "picture"
        /\ new.controls[i].images = <<r>> /\ new.controls[i].showing = FALSE
  <2> SUFFICES ASSUME NEW r, NEW new, new = shown(r)
               PROVE  /\ DOMAIN new = DocumentNames /\ new.links = doc.links /\ new.rels = doc.rels /\ new.media = doc.media
                      /\ DOMAIN new.controls = DOMAIN doc.controls /\ Len(new.controls) = Len(doc.controls)
                      /\ \A k \in DOMAIN doc.controls : k # i => new.controls[k] = doc.controls[k]
                      /\ new.controls[i].part = part /\ Type(new.controls[i]) = "picture"
                      /\ new.controls[i].images = <<r>> /\ new.controls[i].showing = FALSE
    OBVIOUS
  <2>1. Reimaged(new, doc, i, <<r>>, FALSE)
    BY <1>1, <1>2, ImageChanged
  <2> HIDE DEF shown
  <2> QED BY <1>1, <2>1 DEF Reimaged
<1>8. Type(c) = "picture"
  BY <1>1 DEF PictureControls
<1> HIDE DEF shown, n, last, picture
<1>9. Rehangs(shown(rel), doc, i, picture)
  <2> DEFINE new == shown(rel)
             d == new.controls[i]
  <2>1. SamePicture(d, c)
    BY <1>4, <1>6, <1>7, <1>8 DEF SamePicture
  <2>2. /\ new.links = doc.links /\ new.rels = doc.rels /\ new.media = doc.media
        /\ DOMAIN new.controls = DOMAIN doc.controls /\ Len(new.controls) = Len(doc.controls)
        /\ \A k \in DOMAIN doc.controls : k # i => new.controls[k] = doc.controls[k]
    BY <1>7
  <2> HIDE DEF new
  <2>3. Related(new)
    BY <1>3, <2>2 DEF Related
  <2>4. ASSUME NEW e, Hangs(doc, e) PROVE Hangs(new, e) /\ Pictured(new, e) = Pictured(doc, e)
    BY <1>3, <2>2, <2>4, SelfKeeps, SameHangs DEF Keeps
  <2>5. Hangs(new, d) /\ Pictured(new, d) = picture
    BY <1>3, <2>1, <2>2, SameHangs
  <2>6. Rehangs(new, doc, i, picture)
    BY <2>2, <2>3, <2>4, <2>5 DEF Rehangs
  <2> QED BY <2>6 DEF new
<1>10. Rehangs(more, doc, i, picture)
  <2> DEFINE base == shown(last)
  <2>1. /\ DOMAIN base = DocumentNames /\ base.links = doc.links /\ base.rels = doc.rels /\ base.media = doc.media
        /\ DOMAIN base.controls = DOMAIN doc.controls /\ Len(base.controls) = Len(doc.controls)
        /\ \A k \in DOMAIN doc.controls : k # i => base.controls[k] = doc.controls[k]
        /\ base.controls[i].part = part /\ Type(base.controls[i]) = "picture"
        /\ base.controls[i].images = <<last>> /\ base.controls[i].showing = FALSE
    BY <1>7
  <2> HIDE DEF base
  <2>2. /\ more.links = base.links /\ more.controls = base.controls /\ more.media = doc.media
        /\ more.rels = [doc.rels EXCEPT ![part] = Append(@, n)]
    BY <2>1 DEF base, DocumentNames
  <2> HIDE DEF more, part, c
  <2>3. doc.media \in Seq(Shots) /\ Len(doc.media) \in Nat /\ n \in 1..Len(doc.media)
    BY <1>3, <1>6 DEF Related
  <2>4. \A p \in Parts \ {part} : more.rels[p] = doc.rels[p] /\ \A r \in DOMAIN doc.rels[p] : doc.rels[p][r] # n
    BY <1>3, <1>4, <1>6, <2>2 DEF Related
  <2>5. DOMAIN more.rels = Parts /\ more.rels[part] = Append(doc.rels[part], n)
    BY <1>3, <2>2
  <2>6. AddsMedium(more, doc, part, n)
    BY <1>3, <2>2, <2>3, <2>4, <2>5 DEF AddsMedium
  <2>7. Added(more, doc, part, n)
    BY <1>3, <2>6, AddedRelation
  <2>8. Hangs(more, more.controls[i]) /\ Pictured(more, more.controls[i]) = picture
    BY <1>3, <1>6, <2>1, <2>2, <2>7 DEF Added, last
  <2> QED BY <2>1, <2>2, <2>7, <2>8 DEF Rehangs, Added
<1> HIDE DEF more
<1>11. PICK new \in {shown(rel), more} : editor' = [editor EXCEPT !.doc = new, !.placed[i] = picture]
  BY <1>1, <1>6 DEF picture
<1>12. editor'.doc = new /\ editor'.placed = [editor.placed EXCEPT ![i] = picture]
  BY <1>2, <1>11 DEF EditorNames
<1>13. picture \in Placings /\ DOMAIN doc.controls = 1..Len(doc.controls)
  BY <1>2, <1>3, <1>6, GoodControls
<1>14. Rehangs(new, doc, i, picture)
  BY <1>9, <1>10, <1>11
<1> QED BY <1>1, <1>2, <1>12, <1>13, <1>14, Rehung

\* Each of these.
LEMMA EditShows ==
  ASSUME Staged, Stored, Opened, EditorShows, Edit
  PROVE  Hung(editor'.doc, editor'.placed)
<1>1. ASSUME NEW i, ChangeControl(i) \/ DeleteControl(i) \/ DuplicateControl(i) \/ RemovePicture(i)
      PROVE  Hung(editor'.doc, editor'.placed)
  BY <1>1, ChangeShows, DeleteShows, DuplicateShows, RemoveShows
<1> QED BY <1>1, InsertShows, CopyShows DEF Edit

---------------------------------------------------------------------------
(* The pictures that are stored *)

\* A stored document has the fields of the Form, and the controls of each picture field show what was
\* last placed in it.
Showing(fields, doc, placed) ==
  /\ Illustrated(doc)
  /\ \A i \in Read(doc) : doc.controls[i].tag \in DOMAIN fields
  /\ \A tag \in DOMAIN fields : Tagged(doc, tag) # {}
  /\ DOMAIN placed = PictureTags(fields)
  /\ \A tag \in PictureTags(fields) : placed[tag] \in Placings /\ AllShow(doc, tag, placed[tag])

\* The control that is found shows what was placed, and it is one of those it was placed in.
FoundShows(doc, tag, picture) == Tagged(doc, tag) # {} => Pictured(doc, FieldControl(doc, tag)) = picture

\* The pictures that a save has noted.
Noted(fields, placed) ==
  DOMAIN placed = PictureTags(fields) /\ \A tag \in PictureTags(fields) : placed[tag] \in Placings

\* The document of the Response shows the pictures that were last placed in it.
ResponseShows == response.status # None => Showing(Fields, response.doc, response.placed)

\* The document of a save shows the pictures that go with it.
OperationShows ==
  operation.action # None =>
    /\ Noted(Fields, operation.placed)
    /\ ~operation.native =>
         Illustrated(operation.doc) /\ \A tag \in PictureTags(Fields) : FoundShows(operation.doc, tag, operation.placed[tag])
    /\ operation.native /\ operation.doc # NoDocument =>
         Illustrated(operation.doc) /\ \A tag \in PictureTags(Fields) : AllShow(operation.doc, tag, operation.placed[tag])
    /\ operation.native /\ operation.doc = NoDocument => PictureTags(Fields) = {}

\* With these parts it accounts for the pictures too.
ShowingInv == TellingInv /\ ResponseShows /\ EditorShows /\ OperationShows

\* The tags of the fields are those of the controls that are read.
LEMMA ManifestTags ==
  ASSUME NEW doc, NEW tag
  PROVE  tag \in DOMAIN Manifest(doc) <=> Tagged(doc, tag) # {}
<1>1. DOMAIN Manifest(doc) = {doc.controls[i].tag : i \in Read(doc)}
  BY DEF Manifest
<1> QED BY <1>1 DEF Tagged

\* A valid document shows what the single control of each picture field shows.
LEMMA ValidShowing ==
  ASSUME NEW doc, NEW fields, NEW required, ValidResponseDocument(doc, fields, required), Illustrated(doc),
         NEW placed, Noted(fields, placed), \A tag \in PictureTags(fields) : AllShow(doc, tag, placed[tag])
  PROVE  Showing(fields, doc, placed)
<1>1. DOMAIN Manifest(doc) = DOMAIN fields
  BY DEF ValidResponseDocument
<1>2. \A tag \in DOMAIN fields : Tagged(doc, tag) # {}
  BY <1>1, ManifestTags
<1>3. ASSUME NEW i \in Read(doc) PROVE doc.controls[i].tag \in DOMAIN fields
  <2>1. i \in Tagged(doc, doc.controls[i].tag)
    BY DEF Tagged
  <2> QED BY <1>1, <2>1, ManifestTags
<1> QED BY <1>2, <1>3 DEF Showing, Noted

\* In a document with one control of each field, all of them show what one of them shows.
LEMMA OneShows ==
  ASSUME NEW doc, UniqueTags(doc), NEW tag, NEW picture,
         \E j \in Tagged(doc, tag) : Pictured(doc, doc.controls[j]) = picture
  PROVE  AllShow(doc, tag, picture)
<1>1. PICK j \in Tagged(doc, tag) : Pictured(doc, doc.controls[j]) = picture
  OBVIOUS
<1>2. ASSUME NEW i \in Tagged(doc, tag) PROVE i = j
  BY <1>1 DEF UniqueTags, Tagged
<1> QED BY <1>1, <1>2 DEF AllShow

\* A document that is opened shows what is noted of its controls.
LEMMA ShowingPlaced ==
  ASSUME NEW pub, Sound(pub), ParseTemplateFields(pub), NEW doc, GoodDocument(pub, doc), NEW placed,
         Showing(Manifest(pub), doc, placed)
  PROVE  Hung(doc, PlacedIn(doc, placed))
<1> DEFINE M == Manifest(pub)
           n == Len(doc.controls)
           at == PlacedIn(doc, placed)
<1>1. n \in Nat /\ DOMAIN doc.controls = 1..n /\ \A i \in 1..n : GoodControl(pub, doc.controls[i])
  BY GoodControls
<1>2. at = [i \in 1..n |-> IF doc.controls[i].tag \in DOMAIN placed THEN placed[doc.controls[i].tag] ELSE None]
  BY <1>1 DEF PlacedIn
<1>3. \A tag \in DOMAIN placed : placed[tag] \in Placings
  BY DEF Showing
<1>4. None \in Placings
  BY DEF Placings
<1> HIDE DEF n, at
<1>5. at \in [1..n -> Placings]
  BY <1>2, <1>3, <1>4
<1>6. at \in Seq(Placings) /\ Len(at) = n
  BY <1>1, <1>5
<1>7. ASSUME NEW i \in PictureControls(doc) PROVE Pictured(doc, doc.controls[i]) = at[i]
  <2>1. PICK c : c = doc.controls[i]
    OBVIOUS
  <2>2. i \in Read(doc) /\ i \in 1..n /\ Type(c) = "picture"
    BY <1>1, <2>1 DEF PictureControls, Read
  <2>3. c.tag \in DOMAIN M
    BY <2>1, <2>2 DEF Showing
  <2>4. GoodControl(pub, c)
    BY <1>1, <2>1, <2>2
  <2>5. M[c.tag].type = "picture"
    BY <2>2, <2>3, <2>4, FieldOfControl
  <2>6. c.tag \in PictureTags(M)
    BY <2>3, <2>5 DEF PictureTags
  <2>7. c.tag \in DOMAIN placed /\ AllShow(doc, c.tag, placed[c.tag])
    BY <2>6 DEF Showing
  <2>8. i \in Tagged(doc, c.tag)
    BY <2>1, <2>2 DEF Tagged
  <2> QED BY <1>2, <2>1, <2>2, <2>7, <2>8 DEF AllShow
<1> QED BY <1>6, <1>7 DEF Hung, Showing, n, at

\* What the editor notes of the control that is found, it shows.
LEMMA PlacedFound ==
  ASSUME NEW pub, Sound(pub), ParseTemplateFields(pub), NEW doc, GoodDocument(pub, doc), NEW placed, Hung(doc, placed),
         NEW tag \in PictureTags(Manifest(pub)), Tagged(doc, tag) # {},
         NEW picture, picture = placed[CHOOSE i \in Tagged(doc, tag) : TRUE]
  PROVE  picture \in Placings /\ Pictured(doc, FieldControl(doc, tag)) = picture
<1>1. PICK i : i = CHOOSE j \in Tagged(doc, tag) : TRUE
  OBVIOUS
<1>2. i \in Read(doc) /\ i \in DOMAIN doc.controls /\ doc.controls[i].tag = tag /\ FieldControl(doc, tag) = doc.controls[i]
  BY <1>1, TaggedOne
<1>3. PICK c : c = doc.controls[i]
  OBVIOUS
<1>4. GoodControl(pub, c) /\ c.tag \in DOMAIN Manifest(pub) /\ Manifest(pub)[c.tag].type = "picture"
  BY <1>2, <1>3, GoodControls DEF PictureTags
<1>5. Type(c) = "picture"
  BY <1>4, FieldOfControl
<1>6. i \in PictureControls(doc)
  BY <1>2, <1>3, <1>5 DEF PictureControls
<1>7. Pictured(doc, doc.controls[i]) = placed[i]
  BY <1>6 DEF Hung
<1>8. PictureIs(doc, c)
  BY <1>2, <1>3, PictureOf DEF Hung, Illustrated
<1> QED BY <1>1, <1>2, <1>3, <1>7, <1>8 DEF PictureIs

\* A Response is started with the pictures of the template.
LEMMA PublishedShows ==
  ASSUME template \in DOMAIN Manifests
  PROVE  Showing(Fields, Published, [tag \in PictureTags(Fields) |-> Pictured(Published, FieldControl(Published, tag))])
<1> DEFINE placed == [tag \in PictureTags(Fields) |-> Pictured(Published, FieldControl(Published, tag))]
<1>1. Sound(Published) /\ ParseTemplateFields(Published) /\ Fields = Manifest(Published)
  BY TemplateSound
<1>2. template \in DOMAIN TemplateDocuments
  BY DEF Manifests
<1>3. Illustrated(Published)
  BY <1>2, TemplatesIllustrated, Zenon DEF Published
<1>4. UniqueTags(Published)
  BY <1>1 DEF ParseTemplateFields
<1>5. ASSUME NEW tag \in DOMAIN Fields PROVE Tagged(Published, tag) # {}
  BY <1>1, ManifestTags
<1>6. ASSUME NEW i \in Read(Published) PROVE Published.controls[i].tag \in DOMAIN Fields
  <2>1. i \in Tagged(Published, Published.controls[i].tag)
    BY DEF Tagged
  <2> QED BY <1>1, <2>1, ManifestTags
<1>7. ASSUME NEW tag \in PictureTags(Fields) PROVE placed[tag] \in Placings /\ AllShow(Published, tag, placed[tag])
  <2>1. placed[tag] = Pictured(Published, FieldControl(Published, tag))
    OBVIOUS
  <2>2. Tagged(Published, tag) # {}
    BY <1>5 DEF PictureTags
  <2>3. PICK i : i = CHOOSE j \in Tagged(Published, tag) : TRUE
    OBVIOUS
  <2>4. i \in DOMAIN Published.controls /\ FieldControl(Published, tag) = Published.controls[i] /\ i \in Tagged(Published, tag)
    BY <2>2, <2>3, TaggedOne
  <2> HIDE DEF placed
  <2>5. PictureIs(Published, Published.controls[i])
    BY <1>3, <2>4, PictureOf DEF Illustrated
  <2>6. placed[tag] \in Placings
    BY <2>1, <2>4, <2>5 DEF PictureIs
  <2>7. AllShow(Published, tag, placed[tag])
    BY <1>4, <2>1, <2>4, OneShows
  <2> QED BY <2>6, <2>7
<1>8. DOMAIN placed = PictureTags(Fields)
  OBVIOUS
<1> HIDE DEF placed
<1> QED BY <1>3, <1>5, <1>6, <1>7, <1>8 DEF Showing, placed

---------------------------------------------------------------------------
(* What the steps make of the pictures that are stored *)

\* Where neither the Response nor the save changes, their pictures do not.
LEMMA ShowingKept ==
  ASSUME UNCHANGED template
  PROVE  /\ ResponseShows /\ UNCHANGED response => ResponseShows'
         /\ OperationShows /\ UNCHANGED operation => OperationShows'
<1>1. Published' = Published /\ Fields' = Fields
  BY SameTemplate
<1> QED BY <1>1 DEF ResponseShows, OperationShows

\* The state of a Response is not what it shows.
LEMMA StatusShows ==
  ASSUME Staged, ResponseShows, UNCHANGED template, response.status # None,
         NEW status, response' = [response EXCEPT !.status = status]
  PROVE  ResponseShows'
<1>1. DOMAIN response = ResponseNames
  BY DEF Staged
<1>2. response'.doc = response.doc /\ response'.placed = response.placed
  BY <1>1 DEF ResponseNames
<1>3. Fields' = Fields
  BY SameTemplate
<1> QED BY <1>2, <1>3 DEF ResponseShows

\* Without a save there is nothing that it has noted, without an editor nothing that it shows.
LEMMA NothingShown ==
  /\ operation'.action = None => OperationShows'
  /\ editor'.mode = None => EditorShows'
  /\ response'.status = None => ResponseShows'
  BY DEF OperationShows, EditorShows, ResponseShows

\* A Response is started on the template.
LEMMA StartShows ==
  ASSUME CompletenessInv, NEW prefill \in Prefills, Start(prefill)
  PROVE  ResponseShows'
<1> DEFINE placed == [tag \in PictureTags(Fields) |-> Pictured(Published, FieldControl(Published, tag))]
<1>1. /\ template # None /\ response' = [NoResponse EXCEPT !.status = "draft", !.doc = Published, !.placed = placed]
      /\ UNCHANGED template
  BY Zenon DEF Start
<1>2. template \in DOMAIN Manifests
  BY <1>1 DEF CompletenessInv, Staged
<1>3. Showing(Fields, Published, placed)
  BY <1>2, PublishedShows
<1> HIDE DEF placed
<1>4. response'.doc = Published /\ response'.placed = placed
  BY <1>1 DEF NoResponse
<1>5. Fields' = Fields
  BY <1>1, SameTemplate
<1> QED BY <1>3, <1>4, <1>5 DEF ResponseShows

\* What is opened shows what the Response shows, prefilled or not.
LEMMA OpenShows ==
  ASSUME CompletenessInv, ResponseShows, NEW mode \in {"fill", "draft", "correction"}, OpenEditor(mode)
  PROVE  EditorShows'
<1> DEFINE filled == ApplyPrefill(Published, response.doc, snapshot.values, snapshot.locked)
           corrected == ApplyPrefill(Published, response.doc, LockedValues, snapshot.locked)
           placed == PlacedIn(response.doc, response.placed)
<1>1. /\ response.status \in {"submitted", "draft"}
      /\ editor' = [mode |-> mode, placed |-> placed,
                    doc |-> CASE mode = "fill" -> filled
                              [] mode = "correction" -> corrected
                              [] mode = "draft" -> response.doc]
  BY DEF OpenEditor
<1>2. editor'.doc \in {filled, corrected, response.doc} /\ editor'.placed = placed
  BY <1>1
<1>3. response.status # None
  BY <1>1 DEF None
<1>4. /\ Sound(Published) /\ ParseTemplateFields(Published) /\ Fields = Manifest(Published)
      /\ GoodDocument(Published, response.doc) /\ SnapGood(Published, snapshot)
  BY <1>3, TemplateSound DEF CompletenessInv, Staged, Stored
<1>5. Hung(response.doc, placed)
  BY <1>3, <1>4, ShowingPlaced DEF ResponseShows
<1> HIDE DEF placed
<1>6. Hung(filled, placed)
  BY <1>4, <1>5, PrefillShows DEF SnapGood
<1>7. Hung(corrected, placed)
  <2>1. \A tag \in DOMAIN LockedValues :
          /\ tag \in DOMAIN Manifest(Published) /\ Valid(Manifest(Published)[tag], LockedValues[tag])
          /\ ManifestFieldValueMatches(Manifest(Published)[tag], LockedValues[tag])
    BY <1>4 DEF SnapGood, LockedValues
  <2> HIDE DEF LockedValues
  <2> QED BY <1>4, <1>5, <2>1, PrefillShows
<1> HIDE DEF filled, corrected
<1> QED BY <1>2, <1>5, <1>6, <1>7 DEF EditorShows

\* A save of the document that is open notes what the editor has placed.
LEMMA EditorSaveShows ==
  ASSUME CompletenessInv, EditorShows, editor.mode # None, NEW action \in {"save-draft", "submit", "save-correction"},
         NEW reading, RequestEditorSave(action, reading)
  PROVE  OperationShows'
<1> DEFINE placed == PlacedOf(editor.doc, editor.placed)
<1>1. operation'.placed = placed /\ operation'.doc = editor.doc /\ ~operation'.native /\ UNCHANGED template
  BY DEF RequestEditorSave, CanSave
<1>2. template \in DOMAIN Manifests /\ GoodDocument(Published, editor.doc) /\ Hung(editor.doc, editor.placed)
  BY DEF CompletenessInv, Staged, Opened, EditorShows
<1>3. Sound(Published) /\ ParseTemplateFields(Published) /\ Fields = Manifest(Published)
  BY <1>2, TemplateSound
<1>4. Fields' = Fields
  BY <1>1, SameTemplate
<1>5. DOMAIN placed = PictureTags(Fields)
  BY DEF PlacedOf
<1>6. ASSUME NEW tag \in PictureTags(Fields)
      PROVE  placed[tag] \in Placings /\ FoundShows(editor.doc, tag, placed[tag])
  <2>1. placed[tag] = IF Tagged(editor.doc, tag) = {} THEN None ELSE editor.placed[CHOOSE i \in Tagged(editor.doc, tag) : TRUE]
    BY DEF PlacedOf
  <2> HIDE DEF placed
  <2>2. CASE Tagged(editor.doc, tag) = {}
    BY <2>1, <2>2 DEF FoundShows, Placings
  <2>3. CASE Tagged(editor.doc, tag) # {}
    <3>1. PICK picture : picture = editor.placed[CHOOSE i \in Tagged(editor.doc, tag) : TRUE]
      OBVIOUS
    <3>2. picture \in Placings /\ Pictured(editor.doc, FieldControl(editor.doc, tag)) = picture
      BY <1>2, <1>3, <2>3, <3>1, PlacedFound
    <3> QED BY <2>1, <2>3, <3>1, <3>2 DEF FoundShows
  <2> QED BY <2>2, <2>3
<1>7. Illustrated(editor.doc)
  BY <1>2 DEF Hung
<1> HIDE DEF placed
<1> QED BY <1>1, <1>4, <1>5, <1>6, <1>7 DEF OperationShows, Noted

---------------------------------------------------------------------------
(* What saves make of the pictures that are stored *)

\* Values and pictures that are written into a document that shows what was placed.
LEMMA WrittenShows ==
  ASSUME NEW pub, Sound(pub), ParseTemplateFields(pub), ~UnsupportedDates(pub), NEW doc, GoodDocument(pub, doc),
         NEW placed, Showing(Manifest(pub), doc, placed), NEW data, ValidData(pub, data),
         FlattenSupported(doc, DOMAIN Manifest(pub)), NEW pictures, NEW picture, DOMAIN pictures \subseteq {picture},
         DOMAIN pictures # {} => /\ picture \in PictureTags(Manifest(pub)) /\ PlacesOf(doc, picture) # {}
                                 /\ pictures[picture] \in DOMAIN Images,
         NEW new, new = NativeResponseDocument(doc, Manifest(pub), data, pictures), UniqueTags(new)
  PROVE  /\ Illustrated(new) /\ Noted(Manifest(pub), Override(pictures, placed))
         /\ \A tag \in PictureTags(Manifest(pub)) : AllShow(new, tag, Override(pictures, placed)[tag])
<1> DEFINE M == Manifest(pub)
           over == OverlayNativeResponseDocument(doc, M, data, ScalarTags(M))
           noted == Override(pictures, placed)
<1>1. new = OverlayNativeResponsePictures(over, pictures)
  BY DEF NativeResponseDocument
<1>2. Illustrated(doc) /\ DOMAIN placed = PictureTags(M)
      /\ \A tag \in PictureTags(M) : placed[tag] \in Placings /\ AllShow(doc, tag, placed[tag])
  BY DEF Showing
<1>3. Illustrated(over) /\ \A tag \in PictureTags(M) : ShowsSame(over, doc, tag)
  BY <1>2, OverlayShows
<1>4. GoodDocument(pub, over)
  BY OverlayWritten
<1>5. DOMAIN pictures # {} => PlacesOf(over, picture) # {}
  BY PlacesWritten
<1> HIDE DEF over
<1>6. \A tag \in DOMAIN placed : AllShow(over, tag, placed[tag])
  BY <1>2, <1>3 DEF ShowsSame, AllShow
<1>7. Illustrated(new) /\ \A tag \in DOMAIN placed : AllShow(new, tag, noted[tag])
  BY <1>1, <1>3, <1>4, <1>5, <1>6, PicturesShow
<1>8. Noted(M, noted)
  <2>1. /\ \A tag : tag \in DOMAIN noted <=> tag \in DOMAIN pictures \/ tag \in DOMAIN placed
        /\ \A tag \in DOMAIN pictures : noted[tag] = pictures[tag]
        /\ \A tag \in DOMAIN placed \ DOMAIN pictures : noted[tag] = placed[tag]
    BY Overridden
  <2>2. \A tag \in DOMAIN pictures : tag \in PictureTags(M) /\ pictures[tag] \in Placings
    BY DEF Placings
  <2> HIDE DEF noted
  <2> QED BY <1>2, <2>1, <2>2 DEF Noted
<1> QED BY <1>2, <1>7, <1>8

\* A native save notes the picture that it places.
LEMMA NativeSaveShows ==
  ASSUME CompletenessInv, CompletenessInv', ResponseShows, NEW action \in {"save-draft", "submit"},
         NEW changes \in NativeChanges, NEW pictures \in NativeUploads, RequestNativeSave(action, changes, pictures)
  PROVE  OperationShows'
<1> DEFINE stored   == IF response.saved THEN response.data ELSE snapshot.values
           supplied == Override(changes, NativeValues(Fields, stored))
           data     == MergedData(Published, NoData, snapshot, supplied)
           doc      == NativeResponseDocument(response.doc, Fields, data, pictures)
           written  == IF PictureTags(Fields) # {} THEN doc ELSE NoDocument
           placed   == Override(pictures, response.placed)
<1>1. /\ response.status = "draft" /\ method = "native" /\ NativeResponsePictures(Fields, pictures)
      /\ PictureTags(Fields) # {} => /\ CanOverlay(response.doc, Fields) /\ CanPlacePictures(response.doc, Fields, pictures)
                                     /\ ValidResponseDocument(doc, Fields, action = "submit")
      /\ operation' = [NoOperation EXCEPT !.action = action, !.native = TRUE, !.data = data, !.doc = written,
                                          !.placed = placed]
      /\ UNCHANGED template
  BY Zenon DEF RequestNativeSave, CanSave
<1> HIDE DEF supplied
<1>2. response.status # None /\ template \in DOMAIN Manifests /\ ~UnsupportedDates(Published)
  BY <1>1, StatusNames, NativeSound DEF CompletenessInv, Staged
<1>3. /\ Sound(Published) /\ ParseTemplateFields(Published) /\ Fields = Manifest(Published)
      /\ GoodDocument(Published, response.doc) /\ Showing(Fields, response.doc, response.placed)
  BY <1>2, TemplateSound DEF CompletenessInv, Stored, ResponseShows
<1>4. Published' = Published /\ Fields' = Fields
  BY <1>1, SameTemplate
<1>5. /\ operation'.action = action /\ operation'.native = TRUE /\ operation'.data = data /\ operation'.doc = written
      /\ operation'.placed = placed
  <2> HIDE DEF data, written, placed
  <2> QED BY <1>1 DEF NoOperation
<1>6. ValidData(Published, data)
  <2>1. operation'.action # None
    BY <1>5 DEF None
  <2> QED BY <1>4, <1>5, <2>1 DEF CompletenessInv, Locked
<1> HIDE DEF data
<1>7. \A tag \in DOMAIN pictures : tag \in PictureTags(Fields) /\ pictures[tag] \in DOMAIN Images
  BY <1>1 DEF NativeResponsePictures, ValidMedia
<1>8. CASE PictureTags(Fields) # {}
  <2>1. FlattenSupported(response.doc, DOMAIN Manifest(Published))
    BY <1>1, <1>3, <1>8 DEF CanOverlay
  <2>2. PICK picture : DOMAIN pictures \subseteq {picture} /\ (DOMAIN pictures # {} => picture \in DOMAIN pictures)
    BY UploadsGood
  <2>3. DOMAIN pictures # {} => /\ picture \in PictureTags(Manifest(Published)) /\ PlacesOf(response.doc, picture) # {}
                                /\ pictures[picture] \in DOMAIN Images
    <3> SUFFICES ASSUME DOMAIN pictures # {}
                 PROVE  /\ picture \in PictureTags(Manifest(Published)) /\ PlacesOf(response.doc, picture) # {}
                        /\ pictures[picture] \in DOMAIN Images
      OBVIOUS
    <3>1. picture \in PictureTags(Manifest(Published)) /\ Cardinality(PlacesOf(response.doc, picture)) = 1
          /\ pictures[picture] \in DOMAIN Images
      BY <1>1, <1>3, <1>7, <1>8, <2>2 DEF CanPlacePictures
    <3> QED BY <3>1, FS_EmptySet
  <2>4. UniqueTags(doc) /\ Read(doc) # {} /\ written = doc
    <3>1. ValidResponseDocument(doc, Fields, action = "submit") /\ written = doc
      BY <1>1, <1>8
    <3> HIDE DEF doc, written
    <3> QED BY <3>1 DEF ValidResponseDocument, ParseTemplateFields
  <2>5. doc = NativeResponseDocument(response.doc, Manifest(Published), data, pictures)
    BY <1>3
  <2> HIDE DEF doc, written
  <2>6. Read(NoDocument) = {}
    BY DEF NoDocument, Document, Read
  <2>7. /\ Illustrated(doc) /\ Noted(Manifest(Published), placed)
        /\ \A tag \in PictureTags(Manifest(Published)) : AllShow(doc, tag, placed[tag])
    BY <1>2, <1>3, <1>6, <2>1, <2>2, <2>3, <2>4, <2>5, WrittenShows
  <2> HIDE DEF placed
  <2>8. operation'.doc # NoDocument /\ operation'.doc = doc
    BY <1>5, <2>4, <2>6
  <2> QED BY <1>3, <1>4, <1>5, <2>7, <2>8 DEF OperationShows
<1>9. CASE PictureTags(Fields) = {}
  <2>1. written = NoDocument
    BY <1>9
  <2>2. \A tag : tag \in DOMAIN placed <=> tag \in DOMAIN pictures \/ tag \in DOMAIN response.placed
    BY Overridden
  <2> HIDE DEF placed, written
  <2>3. DOMAIN placed = {}
    BY <1>3, <1>7, <1>9, <2>2 DEF Showing
  <2> QED BY <1>4, <1>5, <1>9, <2>1, <2>3 DEF OperationShows, Noted
<1> QED BY <1>8, <1>9

\* A save that ends with a document that shows what it noted.
LEMMA CompletedShows ==
  ASSUME NEW doc, NEW data, Completed(doc, data), Noted(Fields, operation.placed), Illustrated(doc),
         \A tag \in PictureTags(Fields) : AllShow(doc, tag, operation.placed[tag])
  PROVE  ResponseShows' /\ EditorShows' /\ OperationShows'
<1> DEFINE status == IF operation.action = "save-draft" THEN "draft" ELSE "submitted"
<1>1. /\ ValidResponseDocument(doc, Fields, operation.action # "save-draft")
      /\ response' = [status |-> status, doc |-> doc, data |-> data, saved |-> TRUE,
                      placed |-> operation.placed, unread |-> operation.unread]
      /\ editor' = NoEditor /\ operation' = NoOperation /\ UNCHANGED template
  BY Zenon DEF Completed
<1> HIDE DEF status
<1>2. response'.doc = doc /\ response'.placed = operation.placed
  BY <1>1
<1>3. Fields' = Fields
  BY <1>1, SameTemplate
<1>4. Showing(Fields, doc, operation.placed)
  BY <1>1, ValidShowing
<1>5. ResponseShows'
  BY <1>2, <1>3, <1>4 DEF ResponseShows
<1>6. operation'.action = None /\ editor'.mode = None
  BY <1>1, Shapes
<1> QED BY <1>5, <1>6, NothingShown

\* The document server delivers the document.
LEMMA CallbackShows ==
  ASSUME CompletenessInv, OperationShows, Callback
  PROVE  ResponseShows' /\ EditorShows' /\ OperationShows'
<1> DEFINE doc == operation.doc
           again == DataReadAgain(doc, Fields, operation.data, operation.empties, operation.held)
           over == OverlayNativeResponseDocument(doc, Fields, again, operation.held)
<1>1. /\ operation.action # None /\ ~operation.native
      /\ template \in NativeTemplates => CanOverlay(doc, Fields) /\ Completed(over, again)
      /\ template \notin NativeTemplates => Completed(doc, operation.data)
  BY Zenon DEF Callback
<1>2. template \in DOMAIN Manifests
  BY <1>1 DEF CompletenessInv, Staged
<1>3. /\ Sound(Published) /\ ParseTemplateFields(Published) /\ Fields = Manifest(Published)
      /\ GoodDocument(Published, doc) /\ ValidData(Published, operation.data)
      /\ Noted(Fields, operation.placed) /\ Illustrated(doc)
      /\ \A tag \in PictureTags(Fields) : FoundShows(doc, tag, operation.placed[tag])
  BY <1>1, <1>2, TemplateSound DEF CompletenessInv, Locked, Answering, OperationShows
<1>4. CASE template \in NativeTemplates
  <2>1. ~UnsupportedDates(Published) /\ FlattenSupported(doc, DOMAIN Manifest(Published))
    BY <1>1, <1>3, <1>4, NativeSound DEF CanOverlay
  <2>2. ValidData(Published, again)
    BY <1>3, ReadAgain
  <2>3. Completed(over, again) /\ ValidResponseDocument(over, Fields, operation.action # "save-draft")
    <3>1. Completed(over, again)
      BY <1>1, <1>4
    <3> QED BY <3>1, Zenon DEF Completed
  <2>4. over = OverlayNativeResponseDocument(doc, Manifest(Published), again, operation.held)
    BY <1>3
  <2> HIDE DEF again, over, doc
  <2>5. Illustrated(over) /\ \A tag \in PictureTags(Fields) : ShowsSame(over, doc, tag)
    BY <1>3, <2>1, <2>2, <2>4, OverlayShows
  <2>6. ASSUME NEW tag \in PictureTags(Fields) PROVE AllShow(over, tag, operation.placed[tag])
    <3>1. UniqueTags(over) /\ Tagged(over, tag) # {}
      BY <2>3, ValidTagged DEF PictureTags
    <3>2. ShowsSame(over, doc, tag)
      BY <2>5
    <3>3. Tagged(doc, tag) # {}
      BY <3>1, <3>2 DEF ShowsSame
    <3>4. PICK i : i = CHOOSE j \in Tagged(doc, tag) : TRUE
      OBVIOUS
    <3>5. i \in Tagged(doc, tag) /\ FieldControl(doc, tag) = doc.controls[i]
      BY <3>3, <3>4, TaggedOne
    <3>6. Pictured(doc, doc.controls[i]) = operation.placed[tag]
      BY <1>3, <3>3, <3>5 DEF FoundShows
    <3>7. \E j \in Tagged(over, tag) : Pictured(over, over.controls[j]) = operation.placed[tag]
      BY <3>2, <3>5, <3>6 DEF ShowsSame
    <3> QED BY <3>1, <3>7, OneShows
  <2> QED BY <1>3, <2>3, <2>5, <2>6, CompletedShows
<1>5. CASE template \notin NativeTemplates
  <2>1. Completed(doc, operation.data)
    BY <1>1, <1>5
  <2>2. ValidResponseDocument(doc, Fields, operation.action # "save-draft")
    BY <2>1 DEF Completed
  <2> HIDE DEF doc
  <2>3. ASSUME NEW tag \in PictureTags(Fields) PROVE AllShow(doc, tag, operation.placed[tag])
    <3>1. UniqueTags(doc) /\ Tagged(doc, tag) # {}
      BY <2>2, ValidTagged DEF PictureTags
    <3>2. PICK i : i = CHOOSE j \in Tagged(doc, tag) : TRUE
      OBVIOUS
    <3>3. i \in Tagged(doc, tag) /\ FieldControl(doc, tag) = doc.controls[i]
      BY <3>1, <3>2, TaggedOne
    <3>4. \E j \in Tagged(doc, tag) : Pictured(doc, doc.controls[j]) = operation.placed[tag]
      BY <1>3, <3>1, <3>3 DEF FoundShows
    <3> QED BY <3>1, <3>4, OneShows
  <2> QED BY <1>3, <2>1, <2>3, CompletedShows
<1> QED BY <1>4, <1>5

\* A native save is written: without picture fields on the template.
LEMMA ProcessShows ==
  ASSUME CompletenessInv, OperationShows, ProcessNative
  PROVE  ResponseShows' /\ EditorShows' /\ OperationShows'
<1> DEFINE written == NativeResponseDocument(Published, Fields, operation.data, NoData)
           doc == IF operation.doc = NoDocument THEN written ELSE operation.doc
<1>1. operation.native /\ (operation.doc = NoDocument => CanOverlay(Published, Fields)) /\ Completed(doc, operation.data)
  BY Zenon DEF ProcessNative
<1>2. operation.action # None /\ template \in DOMAIN Manifests
  BY <1>1 DEF CompletenessInv, Staged
<1>3. /\ Sound(Published) /\ ParseTemplateFields(Published) /\ Fields = Manifest(Published)
      /\ ValidData(Published, operation.data) /\ ~UnsupportedDates(Published)
  BY <1>1, <1>2, TemplateSound, NativeSound DEF CompletenessInv, Locked, Staged
<1>4. Noted(Fields, operation.placed)
  BY <1>2 DEF OperationShows
<1>5. Illustrated(doc) /\ \A tag \in PictureTags(Fields) : AllShow(doc, tag, operation.placed[tag])
  <2>1. CASE operation.doc = NoDocument
    <3>1. PictureTags(Fields) = {} /\ FlattenSupported(Published, DOMAIN Manifest(Published))
      BY <1>1, <1>2, <1>3, <2>1 DEF CanOverlay, OperationShows
    <3>2. GoodDocument(Published, Published)
      BY <1>3, PublishedGood
    <3>3. Illustrated(Published)
      <4>1. template \in DOMAIN TemplateDocuments
        BY <1>2 DEF Manifests
      <4> QED BY <4>1, TemplatesIllustrated, Zenon DEF Published
    <3>4. PICK over : over = OverlayNativeResponseDocument(Published, Manifest(Published), operation.data, ScalarTags(Manifest(Published)))
      OBVIOUS
    <3>5. Illustrated(over)
      BY <1>3, <3>1, <3>2, <3>3, <3>4, OverlayShows
    <3>6. DOMAIN NoData \subseteq {None} /\ DOMAIN NoData = {}
      BY DEF NoData
    <3>7. written = OverlayNativeResponsePictures(over, NoData)
      BY <1>3, <3>4 DEF NativeResponseDocument
    <3>8. doc = written
      BY <2>1
    <3> HIDE DEF written, doc
    <3>9. OverlayNativeResponsePictures(over, NoData) = over
      BY <3>6, PlacedOne
    <3> QED BY <3>1, <3>5, <3>7, <3>8, <3>9
  <2>2. CASE operation.doc # NoDocument
    <3>1. doc = operation.doc
      BY <2>2
    <3> HIDE DEF doc
    <3> QED BY <1>1, <1>2, <2>2, <3>1 DEF OperationShows
  <2> QED BY <2>1, <2>2
<1> HIDE DEF doc
<1> QED BY <1>1, <1>4, <1>5, CompletedShows

---------------------------------------------------------------------------
(* The theorems *)

\* Every step keeps the invariant.
LEMMA CompletenessNext == CompletenessInv /\ [Next]_vars => CompletenessInv'
<1> SUFFICES ASSUME CompletenessInv, [Next]_vars PROVE CompletenessInv'
  OBVIOUS
<1>1. ASSUME NEW name \in Templates, Publish(name) PROVE CompletenessInv'
  BY <1>1, PublishStep
<1>2. ASSUME NEW prefill \in Prefills, Start(prefill) PROVE CompletenessInv'
  BY <1>2, StartStep
<1>3. CASE SwitchFillMethod
  BY <1>3, SwitchStep
<1>4. ASSUME NEW mode \in {"fill", "draft", "correction"}, OpenEditor(mode) PROVE CompletenessInv'
  BY <1>4, OpenStep
<1>5. CASE CloseEditor
  BY <1>5, CloseStep
<1>6. CASE editor.mode # None /\ Edit
  BY <1>6, EditorStep
<1>7. ASSUME editor.mode # None, NEW action \in {"save-draft", "submit", "save-correction"},
             NEW reading \in Readings(editor.doc), RequestEditorSave(action, reading)
      PROVE  CompletenessInv'
  BY <1>7, EditorSaveStep
<1>8. ASSUME NEW action \in {"save-draft", "submit"}, NEW changes \in NativeChanges, NEW pictures \in NativeUploads,
             RequestNativeSave(action, changes, pictures)
      PROVE  CompletenessInv'
  BY <1>8, NativeSaveStep
<1>9. CASE Callback
  BY <1>9, CallbackStep
<1>10. CASE ProcessNative
  BY <1>10, ProcessStep
<1>11. CASE Fail
  BY <1>11, FailStep
<1>12. CASE UNCHANGED vars
  <2>1. UNCHANGED <<template, method, snapshot, response, editor, operation, count>>
    BY <1>12 DEF vars
  <2>2. Staged'
    BY <2>1 DEF CompletenessInv, Staged
  <2> QED BY <2>1, <2>2, StoredKept, OpenedKept, OperationKept DEF CompletenessInv
<1> QED BY <1>1, <1>2, <1>3, <1>4, <1>5, <1>6, <1>7, <1>8, <1>9, <1>10, <1>11, <1>12 DEF Next

\* The Response keeps its data, whatever becomes of its state.
LEMMA StatusTold ==
  ASSUME CompletenessInv, DataTold, Begun, UNCHANGED template, NEW status, response' = [response EXCEPT !.status = status],
         response.status # None => status # None
  PROVE  DataTold' /\ Begun'
<1>1. DOMAIN response = ResponseNames
  BY DEF CompletenessInv, Staged
<1>2. /\ response'.status = status /\ response'.saved = response.saved /\ response'.doc = response.doc
      /\ response'.data = response.data /\ response'.unread = response.unread
  BY <1>1 DEF ResponseNames
<1> QED BY <1>2, DataKept DEF Begun

\* No save is in progress: nothing is to be told of it.
LEMMA TellingNone ==
  ASSUME operation'.action = None
  PROVE  Telling'
  BY DEF Telling

\* A save that ends: what it wrote is stored.
LEMMA CompletedEnds ==
  ASSUME NEW doc, NEW data, Completed(doc, data)
  PROVE  Telling' /\ Begun'
<1>1. operation' = NoOperation
  BY DEF Completed
<1>2. operation'.action = None
  BY <1>1, Shapes
<1> DEFINE status == IF operation.action = "save-draft" THEN "draft" ELSE "submitted"
<1>3. response' = [status |-> status, doc |-> doc, data |-> data, saved |-> TRUE,
                   placed |-> operation.placed, unread |-> operation.unread]
  BY Zenon DEF Completed
<1>4. status # None
  BY StatusNames
<1> HIDE DEF status
<1>5. response'.status = status
  BY <1>3
<1> QED BY <1>2, <1>4, <1>5, TellingNone DEF Begun

\* Where nothing is saved yet, the document tells the data.
LEMMA TellingStart == Init => TellingInv
<1> SUFFICES ASSUME Init PROVE TellingInv
  OBVIOUS
<1>1. response = NoResponse /\ operation = NoOperation
  BY DEF Init
<1>2. response.saved = FALSE /\ operation.action = None
  BY <1>1, Shapes DEF NoResponse
<1> QED BY <1>2, CompletenessStart DEF TellingInv, Telling, DataTold, Begun

\* Every step keeps it.
LEMMA TellingNext == TellingInv /\ [Next]_vars => TellingInv'
<1> SUFFICES ASSUME TellingInv, [Next]_vars PROVE TellingInv'
  OBVIOUS
<1>a. CompletenessInv /\ Telling /\ DataTold /\ Begun
  BY DEF TellingInv
<1>b. CompletenessInv'
  BY <1>a, CompletenessNext
<1> SUFFICES Telling' /\ DataTold' /\ Begun'
  BY <1>b DEF TellingInv
<1>c. ASSUME UNCHANGED <<template, response, operation>> PROVE Telling' /\ DataTold' /\ Begun'
  BY <1>a, <1>c, TellingKept, DataKept DEF Begun
<1>1. ASSUME NEW name \in Templates, Publish(name) PROVE Telling' /\ DataTold' /\ Begun'
  <2>1. template = None /\ UNCHANGED <<response, operation>>
    BY <1>1 DEF Publish
  <2>2. response.status = None /\ operation.action = None
    BY <1>a, <2>1 DEF CompletenessInv, Staged
  <2>3. ~response.saved
    BY <1>a, <2>2 DEF Begun
  <2> QED BY <2>1, <2>2, <2>3, TellingNone DEF DataTold, Begun
<1>2. ASSUME NEW prefill \in Prefills, Start(prefill) PROVE Telling' /\ DataTold' /\ Begun'
  <2>1. UNCHANGED <<template, operation>>
    BY <1>2 DEF Start
  <2> DEFINE placed == [tag \in PictureTags(Fields) |-> Pictured(Published, FieldControl(Published, tag))]
  <2>2. response' = [NoResponse EXCEPT !.status = "draft", !.doc = Published, !.placed = placed]
    BY <1>2, Zenon DEF Start
  <2> HIDE DEF placed
  <2>3. response'.saved = FALSE
    BY <2>2 DEF NoResponse
  <2> QED BY <1>a, <2>1, <2>3, TellingKept DEF DataTold, Begun
<1>3. CASE SwitchFillMethod
  BY <1>3, <1>c DEF SwitchFillMethod
<1>4. ASSUME NEW mode \in {"fill", "draft", "correction"}, OpenEditor(mode) PROVE Telling' /\ DataTold' /\ Begun'
  BY <1>4, <1>c DEF OpenEditor
<1>5. CASE CloseEditor
  BY <1>5, <1>c DEF CloseEditor
<1>6. CASE editor.mode # None /\ Edit
  BY <1>a, <1>6, <1>c, EditStep DEF CompletenessInv
<1>7. ASSUME editor.mode # None, NEW action \in {"save-draft", "submit", "save-correction"},
             NEW reading \in Readings(editor.doc), RequestEditorSave(action, reading)
      PROVE  Telling' /\ DataTold' /\ Begun'
  <2>1. UNCHANGED template /\ Submitting(action)
    BY <1>7, Zenon DEF RequestEditorSave, CanSave
  <2>2. PICK status : status = IF action = "submit" THEN "submitting" ELSE response.status
    OBVIOUS
  <2>3. response' = [response EXCEPT !.status = status]
    BY <2>1, <2>2 DEF Submitting
  <2> QED BY <1>a, <1>7, <2>1, <2>2, <2>3, StatusNames, StatusTold, EditorSaveTelling
<1>8. ASSUME NEW action \in {"save-draft", "submit"}, NEW changes \in NativeChanges, NEW pictures \in NativeUploads,
             RequestNativeSave(action, changes, pictures)
      PROVE  Telling' /\ DataTold' /\ Begun'
  <2>1. UNCHANGED template /\ Submitting(action)
    BY <1>8, Zenon DEF RequestNativeSave, CanSave
  <2>2. PICK status : status = IF action = "submit" THEN "submitting" ELSE response.status
    OBVIOUS
  <2>3. response' = [response EXCEPT !.status = status]
    BY <2>1, <2>2 DEF Submitting
  <2> QED BY <1>a, <1>b, <1>8, <2>1, <2>2, <2>3, StatusNames, StatusTold, NativeSaveTelling
<1>9. CASE Callback
  <2>1. PICK doc, data : Completed(doc, data)
    BY <1>9, Zenon DEF Callback
  <2> QED BY <1>a, <1>9, <2>1, CompletedEnds, CallbackTold
<1>10. CASE ProcessNative
  <2>1. PICK doc, data : Completed(doc, data)
    BY <1>10, Zenon DEF ProcessNative
  <2> QED BY <1>a, <1>10, <2>1, CompletedEnds, ProcessTold
<1>11. CASE Fail
  <2>1. UNCHANGED template /\ operation' = NoOperation
    BY <1>11 DEF Fail
  <2>2. PICK status : status = IF response.status = "submitting" THEN "draft" ELSE response.status
    OBVIOUS
  <2>3. response' = [response EXCEPT !.status = status]
    BY <1>11, <2>2 DEF Fail
  <2>4. operation'.action = None
    BY <2>1, Shapes
  <2> QED BY <1>a, <2>1, <2>2, <2>3, <2>4, StatusNames, StatusTold, TellingNone
<1>12. CASE UNCHANGED vars
  BY <1>12, <1>c DEF vars
<1> QED BY <1>1, <1>2, <1>3, <1>4, <1>5, <1>6, <1>7, <1>8, <1>9, <1>10, <1>11, <1>12 DEF Next

\* Before anything is published nothing shows anything.
LEMMA ShowingStart == Init => ShowingInv
<1> SUFFICES ASSUME Init PROVE ShowingInv
  OBVIOUS
<1>1. response = NoResponse /\ editor = NoEditor /\ operation = NoOperation
  BY DEF Init
<1>2. response.status = None /\ editor.mode = None /\ operation.action = None
  BY <1>1, Shapes
<1> QED BY <1>2, TellingStart DEF ShowingInv, ResponseShows, EditorShows, OperationShows

\* Every step keeps what the document, the editor and the save show of the pictures.
LEMMA ShowingNext == ShowingInv /\ [Next]_vars => ShowingInv'
<1> SUFFICES ASSUME ShowingInv, [Next]_vars PROVE ShowingInv'
  OBVIOUS
<1>a. TellingInv /\ CompletenessInv /\ ResponseShows /\ EditorShows /\ OperationShows
  BY DEF ShowingInv, TellingInv
<1>b. TellingInv' /\ CompletenessInv'
  BY <1>a, CompletenessNext, TellingNext
<1> SUFFICES ResponseShows' /\ EditorShows' /\ OperationShows'
  BY <1>b DEF ShowingInv
<1>c. UNCHANGED <<template, response>> => ResponseShows'
  BY <1>a, ShowingKept
<1>d. UNCHANGED <<template, operation>> => OperationShows'
  BY <1>a, ShowingKept
<1>e. UNCHANGED editor => EditorShows'
  BY <1>a DEF EditorShows
<1>f. Staged
  BY <1>a DEF CompletenessInv
<1>1. ASSUME NEW name \in Templates, Publish(name) PROVE ResponseShows' /\ EditorShows' /\ OperationShows'
  <2>1. template = None /\ UNCHANGED <<response, editor, operation>>
    BY <1>1 DEF Publish
  <2>2. response.status = None /\ operation.action = None /\ editor.mode = None
    BY <1>f, <2>1 DEF Staged
  <2> QED BY <2>1, <2>2, NothingShown
<1>2. ASSUME NEW prefill \in Prefills, Start(prefill) PROVE ResponseShows' /\ EditorShows' /\ OperationShows'
  <2>1. UNCHANGED <<template, editor, operation>>
    BY <1>2 DEF Start
  <2> QED BY <1>2, <1>a, <1>d, <1>e, <2>1, StartShows
<1>3. CASE SwitchFillMethod
  BY <1>3, <1>c, <1>d, <1>e DEF SwitchFillMethod
<1>4. ASSUME NEW mode \in {"fill", "draft", "correction"}, OpenEditor(mode)
      PROVE  ResponseShows' /\ EditorShows' /\ OperationShows'
  <2>1. UNCHANGED <<template, response, operation>>
    BY <1>4 DEF OpenEditor
  <2> QED BY <1>4, <1>a, <1>c, <1>d, <2>1, OpenShows
<1>5. CASE CloseEditor
  <2>1. editor' = NoEditor /\ UNCHANGED <<template, response, operation>>
    BY <1>5 DEF CloseEditor
  <2>2. editor'.mode = None
    BY <2>1, Shapes
  <2> QED BY <1>c, <1>d, <2>1, <2>2, NothingShown
<1>6. CASE editor.mode # None /\ Edit
  <2>1. UNCHANGED <<template, response, operation>> /\ Hung(editor'.doc, editor'.placed)
    BY <1>6, <1>a, EditStep, EditShows DEF CompletenessInv
  <2> QED BY <1>c, <1>d, <2>1 DEF EditorShows
<1>7. ASSUME editor.mode # None, NEW action \in {"save-draft", "submit", "save-correction"},
             NEW reading \in Readings(editor.doc), RequestEditorSave(action, reading)
      PROVE  ResponseShows' /\ EditorShows' /\ OperationShows'
  <2>1. UNCHANGED <<template, editor>> /\ Submitting(action)
    BY <1>7, Zenon DEF RequestEditorSave, CanSave
  <2>2. PICK status : status = IF action = "submit" THEN "submitting" ELSE response.status
    OBVIOUS
  <2>3. response' = [response EXCEPT !.status = status] /\ response.status # None
    BY <1>7, <1>f, <2>1, <2>2 DEF Submitting, Staged
  <2>4. ResponseShows'
    BY <1>a, <1>f, <2>1, <2>3, StatusShows
  <2>5. OperationShows'
    BY <1>7, <1>a, EditorSaveShows
  <2> QED BY <1>e, <2>1, <2>4, <2>5
<1>8. ASSUME NEW action \in {"save-draft", "submit"}, NEW changes \in NativeChanges, NEW pictures \in NativeUploads,
             RequestNativeSave(action, changes, pictures)
      PROVE  ResponseShows' /\ EditorShows' /\ OperationShows'
  <2>1. UNCHANGED <<template, editor>> /\ Submitting(action) /\ response.status = "draft"
    BY <1>8, Zenon DEF RequestNativeSave, CanSave
  <2>2. PICK status : status = IF action = "submit" THEN "submitting" ELSE response.status
    OBVIOUS
  <2>3. response' = [response EXCEPT !.status = status] /\ response.status # None
    BY <2>1, <2>2, StatusNames DEF Submitting
  <2>4. ResponseShows'
    BY <1>a, <1>f, <2>1, <2>3, StatusShows
  <2>5. OperationShows'
    BY <1>8, <1>a, <1>b, NativeSaveShows
  <2> QED BY <1>e, <2>1, <2>4, <2>5
<1>9. CASE Callback
  BY <1>9, <1>a, CallbackShows
<1>10. CASE ProcessNative
  BY <1>10, <1>a, ProcessShows
<1>11. CASE Fail
  <2>1. UNCHANGED <<template, editor>> /\ operation' = NoOperation /\ operation.action # None
    BY <1>11 DEF Fail
  <2>2. PICK status : status = IF response.status = "submitting" THEN "draft" ELSE response.status
    OBVIOUS
  <2>3. response' = [response EXCEPT !.status = status] /\ response.status # None
    BY <1>11, <1>f, <2>1, <2>2 DEF Fail, Staged
  <2>4. operation'.action = None
    BY <2>1, Shapes
  <2>5. ResponseShows'
    BY <1>a, <1>f, <2>1, <2>3, StatusShows
  <2> QED BY <1>e, <2>1, <2>4, <2>5, NothingShown
<1>12. CASE UNCHANGED vars
  BY <1>12, <1>c, <1>d, <1>e DEF vars
<1> QED BY <1>1, <1>2, <1>3, <1>4, <1>5, <1>6, <1>7, <1>8, <1>9, <1>10, <1>11, <1>12 DEF Next

\* After every save the stored document shows the data and the pictures that are stored with it, for any
\* number of edits, copies, saves and failures on each of the templates: what the plugin reads, what the
\* callback reads again and what the overlay writes (documents/native-eligibility.ts) never part.
THEOREM DocumentTellsDataHolds == Spec => []DocumentTellsData
<1>1. ShowingInv => DocumentTellsData
  <2> SUFFICES ASSUME ShowingInv, response.saved PROVE DocumentTellsData
    BY DEF DocumentTellsData
  <2>1. DataTold /\ response.status # None /\ ResponseShows
    BY DEF ShowingInv, TellingInv, Begun
  <2>2. Showing(Fields, response.doc, response.placed)
    BY <2>1 DEF ResponseShows
  <2>3. ASSUME NEW tag \in PictureTags(Fields)
        PROVE  Pictured(response.doc, FieldControl(response.doc, tag)) = response.placed[tag]
    <3>1. Tagged(response.doc, tag) # {} /\ AllShow(response.doc, tag, response.placed[tag])
      BY <2>2 DEF Showing, PictureTags
    <3>2. PICK i : i = CHOOSE j \in Tagged(response.doc, tag) : TRUE
      OBVIOUS
    <3>3. i \in Tagged(response.doc, tag) /\ FieldControl(response.doc, tag) = response.doc.controls[i]
      BY <3>1, <3>2, TaggedOne
    <3> QED BY <3>1, <3>3 DEF AllShow
  <2> QED BY <2>1, <2>3 DEF DataTold, DocumentTellsData
<1> QED BY <1>1, ShowingStart, ShowingNext, PTL DEF Spec

\* A document that was submitted or corrected shows an answer in every required field, for any number of
\* edits, saves and failures on each of the templates: what the checks of a submission (responses/data.ts,
\* documents/native-eligibility.ts) accept is never lost between the plugin, the callback and the overlay.
\* Fields that were not listed where the callback cannot look for them are excepted, as in the property.
THEOREM SubmittedCompleteHolds == Spec => []SubmittedComplete
<1>1. CompletenessInv => SubmittedComplete
  BY DEF CompletenessInv
<1> QED BY <1>1, CompletenessStart, CompletenessNext, PTL DEF Spec
================================================================================
