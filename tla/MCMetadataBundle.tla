-------------------------- MODULE MCMetadataBundle --------------------------
(* Instances of MetadataBundle for TLC.                                      *)
EXTENDS MetadataBundle

Doc(locale, name, description, image, attributes, properties) ==
  [scheme |-> "http", locale |-> locale, name |-> name, description |-> description,
   image |-> image, attributes |-> attributes, properties |-> properties]

\* Texts and properties without an image: a document that says everything or nothing.
Text(locale, name, full) == Doc(locale, name, full, "none", ~full, IF full THEN Keys ELSE {})
Texts(locale, names) == {Text(locale, name, full) : name \in names, full \in BOOLEAN}
Merged ==
  {<<d, e>> : d \in Texts("en", {"text"}), e \in Texts("fr", {"text", "blank", "null"})}
    \cup {<<d, e, f>> : d \in {Text("en", "text", FALSE), Text("en", "blank", TRUE), Text("en", "null", TRUE)},
                        e \in Texts("fr", {"text"}), f \in Texts("de", {"null"})}

\* One document with an image of each kind.
Image(locale, image) == Doc(locale, "text", TRUE, image, TRUE, {})
Inherits(locale) == Doc(locale, "null", FALSE, "none", FALSE, {})

Pictured == {
  <<Image("en", "http"), Inherits("fr")>>,
  <<Image("en", "http"), Image("fr", "data")>>,
  <<Image("en", "not text"), Inherits("fr")>>,
  <<Image("en", "ipfs"), Doc("fr", "text", TRUE, "blank", FALSE, {})>>,
  <<Image("en", "other")>>,
  \* the default's locale again, and another one twice
  <<Image("en", "blank"), Doc("en", "text", TRUE, "ar", FALSE, {})>>,
  <<Image("en", "blank"), Image("fr", "blank"), Image("fr", "blank")>>,
  \* a locale and a token URI that are not fetched
  <<Image("en", "http"), [Image("fr", "http") EXCEPT !.scheme = "other"]>>,
  <<[Image(Null, "http") EXCEPT !.scheme = "data"]>>,
  <<[Image(Null, "ipns") EXCEPT !.scheme = "public ipfs gateway"]>> }

TwoRuns == 1..2
\* One run, on documents that are merged.
OneRun == 1..1
MergedOnly == << Merged >>

\* A run on an image, then one on anything.
ImageThenAny == << {<<Image(Null, "http")>>}, Pictured \cup Merged >>
=============================================================================
