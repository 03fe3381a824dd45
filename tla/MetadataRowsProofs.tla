-------------------------- MODULE MetadataRowsProofs --------------------------
(* What the rows of MetadataBundle say, and which image the bucket holds, for *)
(* any runs, bundles, names and rounds.                                      *)
EXTENDS MetadataBundleProofs

-----------------------------------------------------------------------------
(* The rows of a bundle whose first n - 1 documents have been merged.       *)

\* The documents before the n-th that have a row.
HasText(bundle, n) == \E j \in 1..(n - 1) : ~Skips(bundle, j) /\ bundle[j].name = "text"
HasRow(bundle, k) ==
  ~Skips(bundle, k) /\ (bundle[k].name = "text" \/ (bundle[k].name = "null" /\ HasText(bundle, k)))
WithRow(bundle, n) == {k \in 1..(n - 1) : HasRow(bundle, k)}
Owners(bundle, n, p) == {k \in WithRow(bundle, n) : p \in bundle[k].properties}

\* What the row of document k says when the first row is of document base.
DescriptionOf(bundle, k, base) ==
  IF bundle[k].description THEN k ELSE IF bundle[base].description THEN base ELSE 0
PictureOf(bundle, k, base) ==
  CASE bundle[k].image = "blank" -> 0
    [] bundle[k].image = "none"  -> IF bundle[base].image \in {"none", "blank"} THEN 0 ELSE base
    [] OTHER                     -> k
RowSays(bundle, row, base) ==
  /\ row.description = DescriptionOf(bundle, row.document, base)
  /\ row.image = PictureOf(bundle, row.document, base)
  /\ row.attributes \in {0, row.document}

Placed(bundle, inserts, n) ==
  /\ \A i \in 1..Len(inserts) : inserts[i].document \in WithRow(bundle, n)
  /\ \A k \in WithRow(bundle, n) : \E i \in 1..Len(inserts) : inserts[i].document = k
  /\ \A i, j \in 1..Len(inserts) : i < j => inserts[i].document < inserts[j].document
\* A property is the last owner's, in every row.
PropertiesAre(bundle, inserts, n) ==
  \A i \in 1..Len(inserts) : \A p \in Keys :
    /\ inserts[i].properties[p] \in Owners(bundle, n, p) \cup {0}
    /\ \A k \in Owners(bundle, n, p) : k <= inserts[i].properties[p]
Merged(bundle, inserts, n) ==
  /\ Placed(bundle, inserts, n)
  /\ \A i \in 1..Len(inserts) : RowSays(bundle, inserts[i], inserts[1].document)
  /\ PropertiesAre(bundle, inserts, n)

\* One more row, for document k: the others keep all but their properties.
Extended(inserts, document, k, after) ==
  /\ after \in Seq(Row) /\ Len(after) = Len(inserts) + 1
  /\ \A i \in 1..Len(inserts) :
       /\ after[i].document = inserts[i].document /\ after[i].description = inserts[i].description
       /\ after[i].image = inserts[i].image /\ after[i].attributes = inserts[i].attributes
       /\ after[i].cached = inserts[i].cached
  /\ LET row == after[Len(inserts) + 1]
     IN /\ row.document = k
        /\ row.description = IF document.description THEN k ELSE Fallback(inserts, "description")
        /\ row.image = ImageOf(inserts, document, k)
        /\ row.attributes \in {0, k}
  /\ \A i \in 1..(Len(inserts) + 1) : \A p \in Keys :
       after[i].properties[p] = IF p \in document.properties THEN k
                                ELSE IF inserts = <<>> THEN 0 ELSE inserts[1].properties[p]

LEMMA InsertExtends ==
  ASSUME NEW inserts \in Seq(Row), NEW document \in Documents, NEW k \in Nat
  PROVE  /\ Extended(inserts, document, k, Insert(inserts, document, k))
         /\ ~Insert(inserts, document, k)[Len(inserts) + 1].cached
<1> DEFINE after == Insert(inserts, document, k)
           properties == [p \in Keys |-> IF p \in document.properties THEN k
                                         ELSE IF inserts = <<>> THEN 0 ELSE inserts[1].properties[p]]
           row == [document |-> k,
                   description |-> IF document.description THEN k ELSE Fallback(inserts, "description"),
                   image |-> ImageOf(inserts, document, k), cached |-> FALSE,
                   attributes |-> IF document.attributes THEN k ELSE 0,
                   properties |-> properties]
           others == [j \in DOMAIN inserts |-> [inserts[j] EXCEPT !.properties = properties]]
<1>1. after \in Seq(Row) /\ Len(after) = Len(inserts) + 1
  BY InsertType
<1>2. after = Append(others, row)
  BY DEF Insert
<1>3. \A p \in Keys : properties[p] = IF p \in document.properties THEN k
                                     ELSE IF inserts = <<>> THEN 0 ELSE inserts[1].properties[p]
  OBVIOUS
<1>4. /\ row.document = k /\ row.image = ImageOf(inserts, document, k) /\ row.cached = FALSE
      /\ row.description = IF document.description THEN k ELSE Fallback(inserts, "description")
      /\ row.attributes \in {0, k} /\ row.properties = properties
  OBVIOUS
<1> HIDE DEF properties, row
<1>5. \A j \in 1..Len(inserts) : others[j] = [inserts[j] EXCEPT !.properties = properties]
  OBVIOUS
<1>6. \A j \in 1..Len(inserts) :
        /\ others[j].document = inserts[j].document /\ others[j].description = inserts[j].description
        /\ others[j].image = inserts[j].image /\ others[j].attributes = inserts[j].attributes
        /\ others[j].cached = inserts[j].cached /\ others[j].properties = properties
  <2> TAKE j \in 1..Len(inserts)
  <2>1. inserts[j] \in Row
    OBVIOUS
  <2>2. others[j] = [inserts[j] EXCEPT !.properties = properties]
    BY <1>5
  <2> HIDE DEF others
  <2> QED BY <2>1, <2>2 DEF Row
<1>7. Len(others) = Len(inserts) /\ DOMAIN others = 1..Len(inserts)
  BY DEF others
<1> HIDE DEF others, after
<1>8. /\ \A i \in 1..Len(inserts) : after[i] = others[i]
      /\ after[Len(inserts) + 1] = row
  BY <1>2, <1>7, <1>1
<1>9. \A i \in 1..(Len(inserts) + 1) : after[i].properties = properties
  <2> TAKE i \in 1..(Len(inserts) + 1)
  <2>1. CASE i \in 1..Len(inserts)
    BY <2>1, <1>6, <1>8
  <2>2. CASE i = Len(inserts) + 1
    BY <2>2, <1>4, <1>8
  <2> QED BY <2>1, <2>2
<1>10. ~after[Len(inserts) + 1].cached
  BY <1>4, <1>8
<1>11. Extended(inserts, document, k, after)
  BY <1>1, <1>3, <1>4, <1>6, <1>8, <1>9 DEF Extended
<1> QED BY <1>10, <1>11 DEF after

\* The row is marked once its images are uploaded.
LEMMA MarkExtends ==
  ASSUME NEW inserts \in Seq(Row), NEW document \in Documents, NEW k \in Nat, NEW longer,
         Extended(inserts, document, k, longer)
  PROVE  /\ Extended(inserts, document, k, [longer EXCEPT ![Len(longer)].cached = TRUE])
         /\ [longer EXCEPT ![Len(longer)].cached = TRUE][Len(inserts) + 1].cached
<1> DEFINE n == Len(longer)
           row == [longer[n] EXCEPT !.cached = TRUE]
           after == [longer EXCEPT ![n].cached = TRUE]
<1>1. longer \in Seq(Row) /\ n = Len(inserts) + 1 /\ n \in 1..n /\ Len(inserts) \in Nat
  BY DEF Extended
<1>2. longer[n] \in Row
  BY <1>1
<1>3. /\ row.document = longer[n].document /\ row.description = longer[n].description
      /\ row.image = longer[n].image /\ row.attributes = longer[n].attributes
      /\ row.properties = longer[n].properties /\ row.cached
  BY <1>2 DEF Row
<1>4. after = [longer EXCEPT ![n] = row]
  OBVIOUS
<1>5. after \in Seq(Row)
  BY <1>1, MarkedType
<1>6. /\ Len(after) = n /\ after[n] = row
      /\ \A i \in 1..n : i # n => after[i] = longer[i]
  <2> HIDE DEF row
  <2> QED BY <1>1, <1>4
<1> HIDE DEF row, after
<1>7. /\ \A i \in 1..Len(inserts) : after[i] = longer[i]
      /\ after[Len(inserts) + 1] = row
  BY <1>1, <1>6
<1>8. \A i \in 1..n : after[i].properties = longer[i].properties
  BY <1>3, <1>6
<1>9. Extended(inserts, document, k, after)
  BY <1>1, <1>3, <1>5, <1>6, <1>7, <1>8 DEF Extended
<1>10. after[Len(inserts) + 1].cached
  BY <1>3, <1>7
<1> QED BY <1>9, <1>10 DEF after, n

\* There is a row exactly if a document with a text for its name has been merged.
LEMMA RowsHaveText ==
  ASSUME NEW bundle \in Seq(Documents), NEW inserts \in Seq(Row), NEW n \in 1..(Len(bundle) + 1),
         Placed(bundle, inserts, n)
  PROVE  /\ inserts # <<>> <=> HasText(bundle, n)
         /\ inserts # <<>> => /\ 1 \in 1..Len(inserts) /\ inserts[1] \in Row
                              /\ inserts[1].document \in WithRow(bundle, n)
<1>1. ASSUME inserts # <<>>
      PROVE  /\ 1 \in 1..Len(inserts) /\ inserts[1] \in Row
             /\ inserts[1].document \in WithRow(bundle, n)
  BY <1>1 DEF Placed
<1>2. ASSUME inserts # <<>> PROVE HasText(bundle, n)
  <2> DEFINE k == inserts[1].document
  <2>1. k \in 1..(n - 1) /\ HasRow(bundle, k)
    BY <1>1, <1>2 DEF WithRow
  <2> HIDE DEF k
  <2> QED BY <2>1 DEF HasRow, HasText
<1>3. ASSUME HasText(bundle, n) PROVE inserts # <<>>
  <2>1. PICK j \in 1..(n - 1) : ~Skips(bundle, j) /\ bundle[j].name = "text"
    BY <1>3 DEF HasText
  <2>2. j \in WithRow(bundle, n)
    BY <2>1 DEF WithRow, HasRow
  <2> QED BY <2>2 DEF Placed
<1> QED BY <1>1, <1>2, <1>3

\* A document that is passed over has no row.
LEMMA MergedPasses ==
  ASSUME NEW bundle \in Seq(Documents), NEW inserts \in Seq(Row), NEW k \in 1..Len(bundle),
         Merged(bundle, inserts, k), ~Kept(bundle, inserts, k)
  PROVE  Merged(bundle, inserts, k + 1)
<1>1. inserts # <<>> <=> HasText(bundle, k)
  BY RowsHaveText DEF Merged
<1>2. ~HasRow(bundle, k)
  BY <1>1 DEF Kept, Named, HasRow
<1>3. WithRow(bundle, k + 1) = WithRow(bundle, k)
  BY <1>2 DEF WithRow
<1> QED BY <1>3 DEF Merged, Placed, PropertiesAre, Owners

\* A document that is kept adds its row, whose values fall back to the first row's.
LEMMA MergedExtends ==
  ASSUME NEW bundle \in Seq(Documents), NEW inserts \in Seq(Row), NEW k \in 1..Len(bundle),
         Merged(bundle, inserts, k), Kept(bundle, inserts, k),
         NEW after, Extended(inserts, bundle[k], k, after)
  PROVE  Merged(bundle, after, k + 1)
<1> DEFINE m == Len(inserts)
           row == after[m + 1]
           base == after[1].document
<1>1. /\ m \in Nat /\ Len(after) = m + 1 /\ after \in Seq(Row)
      /\ bundle[k] \in Documents /\ k \in Nat /\ k >= 1
  BY DEF Extended
<1>2. \A i \in 1..m :
        /\ after[i].document = inserts[i].document /\ after[i].description = inserts[i].description
        /\ after[i].image = inserts[i].image /\ after[i].attributes = inserts[i].attributes
  BY DEF Extended
<1>3. /\ row.document = k
      /\ row.description = IF bundle[k].description THEN k ELSE Fallback(inserts, "description")
      /\ row.image = ImageOf(inserts, bundle[k], k)
      /\ row.attributes \in {0, k}
  BY DEF Extended
<1>4. \A i \in 1..(m + 1), p \in Keys :
        after[i].properties[p] = IF p \in bundle[k].properties THEN k
                                 ELSE IF inserts = <<>> THEN 0 ELSE inserts[1].properties[p]
  BY DEF Extended
<1> HIDE DEF row, base
<1>5. Placed(bundle, inserts, k)
  BY DEF Merged
<1>6. /\ inserts # <<>> <=> HasText(bundle, k)
      /\ inserts # <<>> => 1 \in 1..m /\ inserts[1].document \in WithRow(bundle, k)
  BY <1>5, RowsHaveText
<1>7. HasRow(bundle, k)
  BY <1>6 DEF Kept, Named, HasRow
<1>8. WithRow(bundle, k + 1) = WithRow(bundle, k) \cup {k} /\ \A j \in WithRow(bundle, k) : j \in Nat /\ j < k
  BY <1>7 DEF WithRow
<1>9. \A i \in 1..(m + 1) : i \in 1..m \/ i = m + 1
  BY <1>1
<1>10. Placed(bundle, after, k + 1)
  <2>1. \A i \in 1..(m + 1) : after[i].document \in WithRow(bundle, k + 1)
    BY <1>2, <1>3, <1>5, <1>8, <1>9 DEF Placed, row
  <2>2. \A j \in WithRow(bundle, k + 1) : \E i \in 1..(m + 1) : after[i].document = j
    <3> TAKE j \in WithRow(bundle, k + 1)
    <3>1. CASE j \in WithRow(bundle, k)
      <4>1. PICK i \in 1..m : inserts[i].document = j
        BY <1>5, <3>1 DEF Placed
      <4>2. i \in 1..(m + 1) /\ after[i].document = j
        BY <1>1, <1>2, <4>1
      <4> QED BY <4>2
    <3>2. CASE j = k
      <4>1. m + 1 \in 1..(m + 1)
        BY <1>1
      <4> QED BY <1>3, <3>2, <4>1 DEF row
    <3> QED BY <1>8, <3>1, <3>2
  <2>3. \A i, j \in 1..(m + 1) : i < j => after[i].document < after[j].document
    <3> SUFFICES ASSUME NEW i \in 1..(m + 1), NEW j \in 1..(m + 1), i < j
                 PROVE  after[i].document < after[j].document
      OBVIOUS
    <3>1. i \in 1..m
      BY <1>1
    <3>2. CASE j \in 1..m
      BY <1>2, <1>5, <3>1, <3>2 DEF Placed
    <3>3. CASE j = m + 1
      <4>1. after[i].document \in WithRow(bundle, k)
        BY <1>2, <1>5, <3>1 DEF Placed
      <4> QED BY <1>3, <1>8, <3>3, <4>1 DEF row
    <3> QED BY <1>9, <3>2, <3>3
  <2> QED BY <1>1, <2>1, <2>2, <2>3 DEF Placed
<1>11. base = IF inserts = <<>> THEN k ELSE inserts[1].document
  BY <1>1, <1>2, <1>3, <1>6 DEF base, row
<1>12. \A i \in 1..(m + 1) : RowSays(bundle, after[i], base)
  <2>1. ASSUME NEW i \in 1..m PROVE RowSays(bundle, after[i], base)
    <3>1. RowSays(bundle, inserts[i], inserts[1].document) /\ base = inserts[1].document
      BY <1>11 DEF Merged
    <3> QED BY <1>2, <3>1 DEF RowSays
  <2>2. RowSays(bundle, row, base)
    <3>1. CASE inserts = <<>>
      <4>1. Fallback(inserts, "description") = 0 /\ Fallback(inserts, "image") = 0 /\ base = k
        BY <1>11, <3>1 DEF Fallback
      <4>2. row.description = DescriptionOf(bundle, k, base)
        BY <1>3, <4>1 DEF DescriptionOf
      <4>3. row.image = PictureOf(bundle, k, base)
        BY <1>3, <4>1 DEF PictureOf, ImageOf
      <4> QED BY <1>3, <4>2, <4>3 DEF RowSays
    <3>2. CASE inserts # <<>>
      <4>1. RowSays(bundle, inserts[1], inserts[1].document) /\ base = inserts[1].document
        BY <1>6, <1>11, <3>2 DEF Merged
      <4>2. /\ Fallback(inserts, "description") = IF bundle[base].description THEN base ELSE 0
            /\ Fallback(inserts, "image") = IF bundle[base].image \in {"none", "blank"} THEN 0 ELSE base
        BY <3>2, <4>1 DEF Fallback, RowSays, DescriptionOf, PictureOf
      <4>3. row.description = DescriptionOf(bundle, k, base)
        BY <1>3, <4>2 DEF DescriptionOf
      <4>4. row.image = PictureOf(bundle, k, base)
        BY <1>3, <4>2 DEF PictureOf, ImageOf
      <4> QED BY <1>3, <4>3, <4>4 DEF RowSays
    <3> QED BY <3>1, <3>2
  <2> QED BY <1>9, <2>1, <2>2 DEF row
<1>13. PropertiesAre(bundle, after, k + 1)
  <2> SUFFICES ASSUME NEW i \in 1..(m + 1), NEW p \in Keys
               PROVE  /\ after[i].properties[p] \in Owners(bundle, k + 1, p) \cup {0}
                      /\ \A j \in Owners(bundle, k + 1, p) : j <= after[i].properties[p]
    BY <1>1 DEF PropertiesAre
  <2>1. /\ Owners(bundle, k + 1, p) = Owners(bundle, k, p) \cup (IF p \in bundle[k].properties THEN {k} ELSE {})
        /\ \A j \in Owners(bundle, k, p) : j \in Nat /\ j < k
    BY <1>8 DEF Owners
  <2>2. CASE p \in bundle[k].properties
    <3>1. after[i].properties[p] = k
      BY <1>4, <2>2
    <3> QED BY <1>1, <2>1, <2>2, <3>1
  <2>3. CASE p \notin bundle[k].properties /\ inserts = <<>>
    <3>1. after[i].properties[p] = 0
      BY <1>4, <2>3
    <3>2. Owners(bundle, k, p) = {}
      <4>1. WithRow(bundle, k) = {}
        BY <1>5, <2>3 DEF Placed
      <4> QED BY <4>1 DEF Owners
    <3> QED BY <2>1, <2>3, <3>1, <3>2
  <2>4. CASE p \notin bundle[k].properties /\ inserts # <<>>
    <3>1. after[i].properties[p] = inserts[1].properties[p]
      BY <1>4, <2>4
    <3>2. /\ inserts[1].properties[p] \in Owners(bundle, k, p) \cup {0}
          /\ \A j \in Owners(bundle, k, p) : j <= inserts[1].properties[p]
      BY <1>6, <2>4 DEF Merged, PropertiesAre
    <3> QED BY <2>1, <2>4, <3>1, <3>2
  <2> QED BY <2>2, <2>3, <2>4
<1> QED BY <1>1, <1>10, <1>12, <1>13 DEF Merged, base

\* A locale that gives a row has properties of its own.
LocalizedProperties ==
  \E i \in DOMAIN rows.inserts \ {1} : \E p \in Keys : p \in rows.bundle[rows.inserts[i].document].properties

\* What has been merged to its end is what RowsFallBack says, and its properties what
\* PropertiesOverrideDefault says as long as there are none of a locale's own.
LEMMA MergedFallsBack ==
  ASSUME rows.bundle \in Seq(Documents), rows.inserts \in Seq(Row),
         Merged(rows.bundle, rows.inserts, Len(rows.bundle) + 1)
  PROVE  RowsFallBack /\ (PropertiesOverrideDefault <=> ~LocalizedProperties)
<1> DEFINE bundle == rows.bundle
           inserts == rows.inserts
           documents == {inserts[i].document : i \in DOMAIN inserts}
           base == inserts[1].document
           fetched == {k \in DOMAIN bundle : k = 1 \/ bundle[k].locale # bundle[1].locale}
           Has(k) == \/ bundle[k].name = "text"
                     \/ bundle[k].name = "null" /\ \E j \in fetched : j < k /\ bundle[j].name = "text"
           n == Len(bundle) + 1
<1>1. /\ DOMAIN bundle = 1..Len(bundle) /\ DOMAIN inserts = 1..Len(inserts) /\ Len(bundle) \in Nat
      /\ bundle \in Seq(Documents) /\ inserts \in Seq(Row)
      /\ Placed(bundle, inserts, n) /\ PropertiesAre(bundle, inserts, n)
      /\ \A i \in 1..Len(inserts) : RowSays(bundle, inserts[i], base)
  BY DEF Merged
<1> HIDE DEF bundle, inserts
<1>2. \A k \in 1..Len(bundle) : k \in fetched <=> ~Skips(bundle, k)
  BY <1>1 DEF Skips
<1>3. \A k \in fetched : Has(k) <=> HasRow(bundle, k)
  <2> SUFFICES ASSUME NEW k \in fetched PROVE Has(k) <=> HasRow(bundle, k)
    OBVIOUS
  <2>1. k \in 1..Len(bundle) /\ ~Skips(bundle, k)
    BY <1>1, <1>2
  <2>2. HasText(bundle, k) <=> \E j \in fetched : j < k /\ bundle[j].name = "text"
    <3>1. ASSUME HasText(bundle, k) PROVE \E j \in fetched : j < k /\ bundle[j].name = "text"
      <4>1. PICK j \in 1..(k - 1) : ~Skips(bundle, j) /\ bundle[j].name = "text"
        BY <3>1 DEF HasText
      <4>2. j \in fetched /\ j < k
        BY <1>1, <1>2, <2>1, <4>1
      <4> QED BY <4>1, <4>2
    <3>2. ASSUME NEW j \in fetched, j < k, bundle[j].name = "text" PROVE HasText(bundle, k)
      <4>1. j \in 1..(k - 1) /\ ~Skips(bundle, j)
        BY <1>1, <1>2, <2>1, <3>2
      <4> QED BY <3>2, <4>1 DEF HasText
    <3> QED BY <3>1, <3>2
  <2> HIDE DEF fetched
  <2> QED BY <2>1, <2>2 DEF HasRow
<1>4. documents = {k \in fetched : Has(k)}
  <2>1. \A k : k \in WithRow(bundle, n) <=> k \in fetched /\ HasRow(bundle, k)
    BY <1>1, <1>2 DEF WithRow, HasRow
  <2>2. \A k : k \in documents <=> k \in WithRow(bundle, n)
    <3> HIDE DEF n
    <3> QED BY <1>1 DEF Placed
  <2> HIDE DEF documents, fetched, Has
  <2>3. \A k : k \in documents <=> k \in fetched /\ Has(k)
    BY <1>3, <2>1, <2>2
  <2> QED BY <2>3
<1>5. \A i, j \in DOMAIN inserts : i < j => inserts[i].document < inserts[j].document
  BY <1>1 DEF Placed
<1>6. ASSUME NEW i \in DOMAIN inserts
      PROVE  LET k == inserts[i].document
             IN /\ inserts[i].description = IF bundle[k].description THEN k
                                            ELSE IF bundle[base].description THEN base ELSE 0
                /\ inserts[i].image = IF bundle[k].image = "blank" THEN 0
                                      ELSE IF bundle[k].image \notin {"none", "blank"} THEN k
                                      ELSE IF bundle[base].image \notin {"none", "blank"} THEN base ELSE 0
                /\ inserts[i].attributes \in {0, k}
  <2>1. RowSays(bundle, inserts[i], base)
    BY <1>1
  <2> HIDE DEF base
  <2> QED BY <2>1 DEF RowSays, DescriptionOf, PictureOf
<1>7. RowsFallBack
  BY <1>4, <1>5, <1>6 DEF RowsFallBack, bundle, inserts
<1> DEFINE Shown(i, p) == inserts[i].properties[p]
           DocHas(i, p) == p \in bundle[inserts[i].document].properties
<1>8. \A i \in 1..Len(inserts) : inserts[i].document \in Nat \ {0} /\ HasRow(bundle, inserts[i].document)
  BY <1>1 DEF Placed, WithRow
<1>9. \A i, j \in 1..Len(inserts), p \in Keys : DocHas(j, p) => inserts[j].document <= Shown(i, p)
  <2> SUFFICES ASSUME NEW i \in 1..Len(inserts), NEW j \in 1..Len(inserts), NEW p \in Keys, DocHas(j, p)
               PROVE  inserts[j].document <= Shown(i, p)
    OBVIOUS
  <2> HIDE DEF n
  <2>1. inserts[j].document \in Owners(bundle, n, p)
    BY <1>1 DEF Placed, Owners
  <2> QED BY <1>1, <2>1 DEF PropertiesAre
<1>10. \A i \in 1..Len(inserts), p \in Keys :
         Shown(i, p) = 0 \/ \E j \in 1..Len(inserts) : inserts[j].document = Shown(i, p) /\ DocHas(j, p)
  <2> SUFFICES ASSUME NEW i \in 1..Len(inserts), NEW p \in Keys, Shown(i, p) # 0
               PROVE  \E j \in 1..Len(inserts) : inserts[j].document = Shown(i, p) /\ DocHas(j, p)
    OBVIOUS
  <2> HIDE DEF n
  <2>1. Shown(i, p) \in Owners(bundle, n, p)
    BY <1>1 DEF PropertiesAre
  <2>2. PICK j \in 1..Len(inserts) : inserts[j].document = Shown(i, p)
    BY <1>1, <2>1 DEF Placed, Owners
  <2> QED BY <2>1, <2>2 DEF Owners
<1>11. PropertiesOverrideDefault <=>
         \A i \in 1..Len(inserts), p \in Keys :
           Shown(i, p) = IF DocHas(i, p) THEN inserts[i].document ELSE IF DocHas(1, p) THEN base ELSE 0
  BY <1>1 DEF PropertiesOverrideDefault, bundle, inserts
<1>12. LocalizedProperties <=> \E i \in 1..Len(inserts), p \in Keys : i # 1 /\ DocHas(i, p)
  BY <1>1 DEF LocalizedProperties, bundle, inserts
<1>13. \A i \in 1..Len(inserts) : 1 \in 1..Len(inserts) /\ (i # 1 => base < inserts[i].document)
  BY <1>1 DEF Placed
<1> HIDE DEF Shown, DocHas
\* Without them, what a row shows can only be the first row's.
<1>14. ASSUME ~LocalizedProperties, NEW i \in 1..Len(inserts), NEW p \in Keys
       PROVE  Shown(i, p) = IF DocHas(i, p) THEN inserts[i].document ELSE IF DocHas(1, p) THEN base ELSE 0
  <2>1. \A j \in 1..Len(inserts) : DocHas(j, p) => j = 1
    BY <1>12, <1>14
  <2>2. CASE DocHas(1, p)
    <3>1. Shown(i, p) # 0
      BY <1>8, <1>9, <1>13, <2>2
    <3>2. Shown(i, p) = base
      BY <1>10, <2>1, <3>1
    <3> QED BY <2>1, <2>2, <3>2
  <2>3. CASE ~DocHas(1, p)
    <3>1. Shown(i, p) = 0 /\ ~DocHas(i, p)
      BY <1>10, <2>1, <2>3
    <3> QED BY <2>3, <3>1
  <2> QED BY <2>2, <2>3
\* With one, the first row shows a document that is not its own.
<1>15. ASSUME LocalizedProperties PROVE ~PropertiesOverrideDefault
  <2>1. PICK i \in 1..Len(inserts), p \in Keys : i # 1 /\ DocHas(i, p)
    BY <1>12, <1>15
  <2>2. 1 \in 1..Len(inserts) /\ base < inserts[i].document /\ inserts[i].document <= Shown(1, p)
    BY <1>9, <1>13, <2>1
  <2>3. base \in Nat /\ inserts[i].document \in Nat /\ Shown(1, p) \in Nat
    BY <1>8, <1>10, <2>2
  <2>4. Shown(1, p) # base /\ Shown(1, p) # 0
    BY <2>2, <2>3
  <2> QED BY <1>11, <2>2, <2>4
<1> QED BY <1>7, <1>11, <1>14, <1>15

-----------------------------------------------------------------------------
(* The invariant.  As in MetadataBundleProofs, what a run holds is said of its *)
(* record, and what it finds of the directory and the bucket at hand.        *)

Outputting == {"transform", "encode", "upload"}

\* Whatever overlaps, a run has merged the documents before the one at hand, and
\* has an image in hand only for a document that gives a row.
Merging(v) ==
  /\ v.pc \in {"idle", "fetch"} => v.inserts = <<>>
  /\ v.pc \notin Outputting => v.output = "png"
  /\ v.pc \in {"document"} \cup Imaging =>
       v.at \in 1..(Len(v.bundle) + 1) /\ Merged(v.bundle, v.inserts, v.at)
  /\ v.pc \in Imaging => Kept(v.bundle, v.inserts, v.at)

\* Both objects are the last image that the rows speak of.
LastImage(inserts, r, round, objects) ==
  \A i \in DOMAIN inserts :
    inserts[i].cached /\ (\A j \in DOMAIN inserts : j > i => ~inserts[j].cached) =>
      \A output \in Outputs :
        objects[output] = [run |-> r, round |-> round, document |-> inserts[i].image]

\* The image in hand is followed from the file to the bucket.
InHand(r, v) ==
  [run |-> r, round |-> v.round, document |-> ImageOf(v.inserts, v.bundle[v.at], v.at)]
ImageFollowed(r, v, dir, objects) ==
  /\ v.pc \in Imaging \ {"response"} => dir.image.of = InHand(r, v)
  /\ v.pc = "encode" => v.read = InHand(r, v)
  /\ v.pc = "upload" => dir[v.output] = InHand(r, v)
  /\ v.output = "thumb" => objects["png"] = InHand(r, v)
  /\ v.output = "png" => LastImage(v.inserts, r, v.round, objects)

\* Runs start in their order, so that a run that has ended with an older one still
\* under way was overlapped.
InOrder ==
  \A q, r \in Runs : q < r /\ run[r].pc # "idle" =>
    run[q].pc # "idle" /\ (Active(run[q]) => run[r].overlapped)

Unbothered(r) == Active(run[r]) /\ ~run[r].overlapped
RowsInv ==
  /\ \A r \in Runs : Merging(run[r])
  /\ \A r \in Runs : Unbothered(r) => ImageFollowed(r, run[r], files, bucket)
  /\ InOrder
  /\ Merged(rows.bundle, rows.inserts, Len(rows.bundle) + 1)
  /\ rows.inserts # <<>> => rows.run \in Runs /\ run[rows.run].pc = "done"
  /\ BucketMatches

\* Nothing has been merged before the first document.
LEMMA NothingMerged ==
  ASSUME NEW bundle PROVE Merged(bundle, <<>>, 1)
<1>1. WithRow(bundle, 1) = {} /\ Len(<<>>) = 0
  BY DEF WithRow
<1> QED BY <1>1 DEF Merged, Placed, PropertiesAre

LEMMA InitMerged ==
  ASSUME Init PROVE RowsInv
<1>1. \A r \in Runs : run[r].pc = "idle" /\ run[r].inserts = <<>> /\ run[r].output = "png"
  BY DEF Init
<1>2. rows.bundle = <<>> /\ rows.inserts = <<>> /\ Len(<<>>) + 1 = 1
  BY DEF Init
<1>3. Merged(rows.bundle, rows.inserts, Len(rows.bundle) + 1)
  BY <1>2, NothingMerged
<1> QED BY <1>1, <1>2, <1>3 DEF RowsInv, Merging, Unbothered, Active, InOrder, BucketMatches,
                                Imaging, Outputting

\* A step of run r that writes no rows: what the bucket holds is of no interest to a
\* run that has ended, since one of both has overlapped the other.
LEMMA OneStepMerges ==
  ASSUME IInv, RowsInv, NEW r \in Runs, Active(run[r]), NEW v, run' = [run EXCEPT ![r] = v],
         v.pc # "idle", v.overlapped = run[r].overlapped, Merging(v), UNCHANGED rows,
         ~v.overlapped /\ Active(v) => ImageFollowed(r, v, files', bucket')
  PROVE  RowsInv'
<1>1. \A q \in Runs : run'[q] = IF q = r THEN v ELSE run[q]
  BY DEF IInv, RunsOK
<1>2. run[r].pc \notin {"idle", "done"}
  BY DEF Active
<1>3. \A q \in Runs : /\ Merging(run'[q])
                      /\ run'[q].pc = "idle" <=> run[q].pc = "idle"
                      /\ run'[q].overlapped = run[q].overlapped
                      /\ Active(run'[q]) => Active(run[q])
  BY <1>1, <1>2 DEF RowsInv
<1>4. \A q \in Runs : Unbothered(q)' => ImageFollowed(q, run'[q], files', bucket')
  <2> SUFFICES ASSUME NEW q \in Runs, Active(run'[q]), ~run'[q].overlapped
               PROVE  ImageFollowed(q, run'[q], files', bucket')
    BY DEF Unbothered
  <2>1. q = r
    BY <1>3 DEF IInv, AloneOK
  <2> QED BY <1>1, <2>1
<1>5. InOrder'
  <2>1. \A p, q \in Runs : p < q /\ run'[q].pc # "idle" =>
          run'[p].pc # "idle" /\ (Active(run'[p]) => run'[q].overlapped)
    BY <1>3 DEF RowsInv, InOrder
  <2> QED BY <2>1 DEF InOrder
<1>6. rows'.inserts # <<>> => rows'.run \in Runs /\ run'[rows'.run].pc = "done"
  BY <1>1, <1>2 DEF RowsInv
<1>7. BucketMatches'
  <2> SUFFICES ASSUME NEW q \in Runs, rows.run = q, ~run[q].overlapped, rows.inserts # <<>>,
                      \A p \in Runs : p > q => run[p].pc = "idle"
               PROVE  FALSE
    BY <1>3 DEF BucketMatches, At
  <2>1. run[q].pc = "done"
    BY DEF RowsInv
  <2>2. q # r /\ ~(r > q) /\ q \in Nat /\ r \in Nat
    BY <1>2, <2>1, MetadataBundleAssumption
  <2> QED BY <2>1, <2>2 DEF RowsInv, InOrder
<1>8. Merged(rows.bundle, rows.inserts, Len(rows.bundle) + 1)'
  BY DEF RowsInv
<1> QED BY <1>3, <1>4, <1>5, <1>6, <1>7, <1>8 DEF RowsInv

\* A run that drops what it holds, for another round or for good.
LEMMA DropMerges ==
  ASSUME IInv, RowsInv, NEW r \in Runs, Active(run[r]), UNCHANGED rows,
         (\E missed \in BOOLEAN : RoundFails(r, missed)) \/ End(r, "done") \/ End(r, "failed")
  PROVE  RowsInv'
<1> DEFINE v == run'[r]
<1>1. run[r] \in RunRecords
  BY DEF IInv, RunsOK
<1>2. run' = [run EXCEPT ![r] = v]
  BY DEF RoundFails, End, IInv, RunsOK
<1>3. /\ v.pc \in {"fetch", "failed", "done"} /\ v.inserts = <<>> /\ v.output = "png"
      /\ v.overlapped = run[r].overlapped
  <2>1. ASSUME NEW missed \in BOOLEAN, RoundFails(r, missed)
        PROVE  /\ v.pc \in {"fetch", "failed", "done"} /\ v.inserts = <<>> /\ v.output = "png"
               /\ v.overlapped = run[r].overlapped
    BY <1>1, <2>1 DEF RoundFails, IInv, RunsOK, RunRecords
  <2>2. ASSUME NEW pc \in {"done", "failed"}, End(r, pc)
        PROVE  /\ v.pc \in {"fetch", "failed", "done"} /\ v.inserts = <<>> /\ v.output = "png"
               /\ v.overlapped = run[r].overlapped
    BY <1>1, <2>2 DEF End, IInv, RunsOK, RunRecords
  <2> QED BY <2>1, <2>2
<1> HIDE DEF v
<1>4. Merging(v)
  BY <1>3 DEF Merging, Imaging
<1>5. ImageFollowed(r, v, files', bucket')
  BY <1>3 DEF ImageFollowed, LastImage, Imaging
<1> QED BY <1>2, <1>3, <1>4, <1>5, OneStepMerges

-----------------------------------------------------------------------------
(* One lemma per action, or group of actions with the same effect.          *)

\* The run that starts is overlapped by whoever is under way, and overlaps it.
LEMMA StartMerges ==
  ASSUME IInv, RowsInv, NEW r \in Runs, Start(r) PROVE RowsInv'
<1> DEFINE others == {q \in Runs : Live(q)}
<1>1. \A q \in Runs : q \in others <=> Active(run[q])
  BY DEF Live, Active
<1>2. /\ \A q \in Runs : run'[q] =
           IF q = r THEN [run[q] EXCEPT !.pc = "fetch", !.overlapped = others # {}]
           ELSE [run[q] EXCEPT !.overlapped = run[q].overlapped \/ q \in others]
      /\ run[r].pc = "idle" /\ (\A q \in 1..(r - 1) : run[q].pc # "idle")
      /\ UNCHANGED <<files, bucket, rows>>
  BY DEF Start, At
<1> HIDE DEF others
<1>3. \A q \in Runs : run[q] \in RunRecords /\ Merging(run[q])
  BY DEF IInv, RunsOK, RowsInv
<1>4. \A q \in Runs \ {r} : /\ run'[q].pc = run[q].pc /\ run'[q].output = run[q].output
                            /\ run'[q].bundle = run[q].bundle /\ run'[q].at = run[q].at
                            /\ run'[q].inserts = run[q].inserts
                            /\ run'[q].overlapped = (run[q].overlapped \/ q \in others)
  <2> TAKE q \in Runs \ {r}
  <2> DEFINE b == run[q].overlapped \/ q \in others
  <2>1. run'[q] = [run[q] EXCEPT !.overlapped = b] /\ run[q] \in RunRecords
    BY <1>2, <1>3
  <2> HIDE DEF b
  <2>2. /\ run'[q].pc = run[q].pc /\ run'[q].output = run[q].output
        /\ run'[q].bundle = run[q].bundle /\ run'[q].at = run[q].at
        /\ run'[q].inserts = run[q].inserts /\ run'[q].overlapped = b
    BY <2>1 DEF RunRecords
  <2> QED BY <2>2 DEF b
<1>5. /\ run'[r].pc = "fetch" /\ run'[r].inserts = <<>> /\ run'[r].output = "png"
      /\ run'[r].overlapped = (others # {})
  <2> DEFINE b == others # {}
  <2>1. run'[r] = [run[r] EXCEPT !.pc = "fetch", !.overlapped = b] /\ run[r] \in RunRecords
    BY <1>2, <1>3
  <2>2. run[r].inserts = <<>> /\ run[r].output = "png"
    BY <1>2, <1>3 DEF Merging, Outputting
  <2> HIDE DEF b
  <2>3. /\ run'[r].pc = "fetch" /\ run'[r].inserts = <<>> /\ run'[r].output = "png"
        /\ run'[r].overlapped = b
    BY <2>1, <2>2 DEF RunRecords
  <2> QED BY <2>3 DEF b
<1>6. \A q \in Runs : Merging(run'[q])
  <2>1. ASSUME NEW q \in Runs \ {r} PROVE Merging(run'[q])
    BY <1>3, <1>4 DEF Merging
  <2>2. Merging(run'[r])
    BY <1>5 DEF Merging, Imaging
  <2> QED BY <2>1, <2>2
<1>7. ASSUME NEW q \in Runs, Unbothered(q)' PROVE ImageFollowed(q, run'[q], files', bucket')
  <2>1. q = r
    BY <1>1, <1>4, <1>7 DEF Unbothered, Active
  <2> QED BY <1>5, <2>1 DEF ImageFollowed, LastImage, Imaging
<1>8. InOrder'
  <2> SUFFICES ASSUME NEW p \in Runs, NEW q \in Runs, p < q, run'[q].pc # "idle"
               PROVE  run'[p].pc # "idle" /\ (Active(run'[p]) => run'[q].overlapped)
    BY DEF InOrder
  <2>1. CASE q = r
    <3>1. p # r /\ p \in 1..(r - 1)
      BY <2>1, MetadataBundleAssumption
    <3>2. run'[p].pc = run[p].pc /\ run[p].pc # "idle"
      BY <1>2, <1>4, <3>1
    <3>3. ASSUME Active(run'[p]) PROVE run'[r].overlapped
      <4>1. p \in others
        BY <1>1, <3>2, <3>3 DEF Active
      <4>2. others # {}
        BY <4>1
      <4> QED BY <1>5, <4>2
    <3> QED BY <2>1, <3>2, <3>3
  <2>2. CASE q # r
    <3>1. run[q].pc # "idle" /\ run[p].pc # "idle" /\ (Active(run[p]) => run[q].overlapped)
      BY <1>4, <2>2 DEF RowsInv, InOrder
    <3>2. p # r
      BY <1>2, <3>1
    <3> QED BY <1>4, <2>2, <3>1, <3>2 DEF Active
  <2> QED BY <2>1, <2>2
<1>9. rows'.inserts # <<>> => rows'.run \in Runs /\ run'[rows'.run].pc = "done"
  BY <1>2, <1>4 DEF RowsInv
<1>10. BucketMatches'
  <2>1. ASSUME NEW q \in Runs, rows.run = q, ~run'[q].overlapped, rows.inserts # <<>>,
               \A p \in Runs : p > q => run'[p].pc = "idle"
        PROVE  ~run[q].overlapped /\ \A p \in Runs : p > q => run[p].pc = "idle"
    <3>1. q # r
      BY <1>2, <2>1 DEF RowsInv
    <3>2. ~run[q].overlapped
      BY <1>4, <2>1, <3>1
    <3>3. \A p \in Runs : p > q => run[p].pc = "idle"
      BY <1>2, <1>4, <2>1
    <3> QED BY <3>2, <3>3
  <2>2. BucketMatches
    BY DEF RowsInv
  <2>3. rows' = rows /\ bucket' = bucket
    BY <1>2
  <2> SUFFICES ASSUME NEW q \in Runs, rows.run = q, ~run'[q].overlapped,
                      \A p \in Runs : p > q => run'[p].pc = "idle",
                      NEW i \in DOMAIN rows.inserts, rows.inserts[i].cached,
                      \A j \in DOMAIN rows.inserts : j > i => ~rows.inserts[j].cached,
                      NEW output \in Outputs
               PROVE  bucket[output] =
                        [run |-> q, round |-> rows.round, document |-> rows.inserts[i].image]
    BY <2>3 DEF BucketMatches, At
  <2>4. rows.inserts # <<>>
    OBVIOUS
  <2> QED BY <2>1, <2>2, <2>4 DEF BucketMatches, At
<1>11. Merged(rows.bundle, rows.inserts, Len(rows.bundle) + 1)'
  BY <1>2 DEF RowsInv
<1>12. \A q \in Runs : Unbothered(q)' => ImageFollowed(q, run[q], files, bucket)'
  BY <1>7 DEF ImageFollowed, InHand, LastImage
<1>13. \A q \in Runs : Merging(run[q])'
  BY <1>6 DEF Merging
<1> QED BY <1>8, <1>9, <1>10, <1>11, <1>12, <1>13 DEF RowsInv

\* A timeout changes nothing that a run has in hand.
LEMMA TimeOutMerges ==
  ASSUME IInv, RowsInv, NEW r \in Runs, TimeOut(r) PROVE RowsInv'
<1> DEFINE v == [run[r] EXCEPT !.timedOut = TRUE]
<1>1. /\ run' = [run EXCEPT ![r] = v] /\ UNCHANGED <<files, bucket, rows>>
      /\ run[r] \in RunRecords /\ Active(run[r]) /\ Merging(run[r])
  BY DEF TimeOut, Live, Active, IInv, RunsOK, RowsInv
<1>2. /\ v.pc = run[r].pc /\ v.output = run[r].output /\ v.bundle = run[r].bundle
      /\ v.at = run[r].at /\ v.inserts = run[r].inserts /\ v.overlapped = run[r].overlapped
      /\ v.read = run[r].read /\ v.round = run[r].round
  BY <1>1 DEF RunRecords
<1> HIDE DEF v
<1>3. Merging(v) /\ v.pc # "idle"
  BY <1>1, <1>2 DEF Merging, Active
<1>4. ~v.overlapped => ImageFollowed(r, v, files, bucket)
  BY <1>1, <1>2 DEF RowsInv, Unbothered, ImageFollowed, InHand, LastImage
<1> QED BY <1>1, <1>2, <1>3, <1>4, OneStepMerges

\* What is fetched has not been merged yet.
LEMMA FetchMerges ==
  ASSUME IInv, RowsInv, NEW r \in Runs, Fetch(r) \/ FetchFails(r) PROVE RowsInv'
<1>1. /\ run[r].pc = "fetch" /\ Active(run[r]) /\ run[r] \in RunRecords /\ UNCHANGED rows
      /\ run[r].inserts = <<>> /\ run[r].output = "png"
  BY DEF Fetch, FetchFails, At, Active, IInv, RunsOK, RowsInv, Merging, Outputting
<1>2. CASE RoundFails(r, FALSE) \/ End(r, "failed")
  BY <1>1, <1>2, DropMerges
<1>3. ASSUME NEW bundle \in Bundles[r],
             run' = [run EXCEPT ![r] = [@ EXCEPT !.pc = "document", !.bundle = bundle, !.at = 1]]
      PROVE  RowsInv'
  <2> DEFINE v == [run[r] EXCEPT !.pc = "document", !.bundle = bundle, !.at = 1]
  <2>1. run' = [run EXCEPT ![r] = v]
    BY <1>3
  <2>2. /\ v.pc = "document" /\ v.bundle = bundle /\ v.at = 1 /\ v.inserts = <<>>
        /\ v.output = "png" /\ v.overlapped = run[r].overlapped
    BY <1>1 DEF RunRecords
  <2>3. bundle \in Seq(Documents) /\ 1 \in 1..(Len(bundle) + 1)
    BY MetadataBundleAssumption
  <2> HIDE DEF v
  <2>4. Merging(v)
    BY <2>2, <2>3, NothingMerged DEF Merging, Imaging
  <2>5. ImageFollowed(r, v, files', bucket')
    BY <2>2 DEF ImageFollowed, LastImage, Imaging
  <2> QED BY <1>1, <2>1, <2>2, <2>4, <2>5, OneStepMerges
<1> QED BY <1>2, <1>3 DEF Fetch, FetchFails

\* The image of the document at hand, and the file that has it.
LEMMA InHandIsMine ==
  ASSUME NEW r \in Runs PROVE Mine(r) = InHand(r, run[r])
BY DEF Mine, InHand

LEMMA FilesKeepImage ==
  ASSUME IInv, NEW r \in Runs
  PROVE  /\ \A dir \in Directories : \A open : WriteFile(dir, r, open).image.of = Mine(r)
         /\ files # Null /\ files.image # Null =>
              \A cut : CloseFile(r, cut).image.of = files.image.of
<1>1. ASSUME NEW dir \in Directories, NEW open
      PROVE  WriteFile(dir, r, open).image.of = Mine(r)
  <2> DEFINE image == [of |-> Mine(r), open |-> Writing(dir) \cup open, torn |-> Writing(dir) # {}]
  <2>1. WriteFile(dir, r, open) = [dir EXCEPT !.image = image] /\ image.of = Mine(r)
    BY DEF WriteFile
  <2> HIDE DEF image
  <2> QED BY <2>1 DEF Directories
<1>2. ASSUME files # Null, files.image # Null, NEW cut
      PROVE  CloseFile(r, cut).image.of = files.image.of
  <2>1. files \in Directories /\ files.image \in Images
    BY <1>2 DEF IInv, FilesOK, Directories
  <2> DEFINE closed == [files.image EXCEPT !.open = @ \ {r}, !.torn = @ \/ cut]
  <2>2. closed.of = files.image.of
    BY <2>1 DEF Images
  <2>3. CloseFile(r, cut) \in {files, [files EXCEPT !.image = closed]}
    BY <2>1 DEF CloseFile, Directories, Images
  <2> HIDE DEF closed
  <2> QED BY <2>1, <2>2, <2>3 DEF Directories
<1> QED BY <1>1, <1>2

\* A run goes on with its image in the file, and with the same objects in the bucket.
LEMMA GotoMerges ==
  ASSUME IInv, RowsInv, NEW r \in Runs, run[r].pc \in {"document"} \cup Imaging,
         NEW pc \in {"response", "body", "transform"}, Goto(r, pc),
         Kept(run[r].bundle, run[r].inserts, run[r].at),
         run[r].output = "png", UNCHANGED <<bucket, rows>>,
         ~run[r].overlapped /\ pc # "response" => files'.image.of = Mine(r)
  PROVE  RowsInv'
<1> DEFINE v == [run[r] EXCEPT !.pc = pc]
<1>1. /\ run' = [run EXCEPT ![r] = v] /\ run[r] \in RunRecords /\ Active(run[r])
      /\ Merging(run[r])
  BY DEF Goto, Active, Imaging, IInv, RunsOK, RowsInv
<1>2. /\ v.pc = pc /\ v.output = run[r].output /\ v.bundle = run[r].bundle
      /\ v.at = run[r].at /\ v.inserts = run[r].inserts /\ v.overlapped = run[r].overlapped
      /\ v.round = run[r].round
  BY <1>1 DEF RunRecords
<1> HIDE DEF v
<1>3. Merging(v) /\ v.pc # "idle"
  BY <1>1, <1>2 DEF Merging, Imaging
<1>4. ASSUME ~v.overlapped PROVE ImageFollowed(r, v, files', bucket')
  <2>1. ImageFollowed(r, run[r], files, bucket)
    BY <1>1, <1>2, <1>4 DEF RowsInv, Unbothered
  <2>2. InHand(r, v) = Mine(r)
    BY <1>2 DEF InHand, Mine
  <2>3. LastImage(v.inserts, r, v.round, bucket)
    BY <1>2, <2>1 DEF ImageFollowed
  <2> QED BY <1>2, <1>4, <2>2, <2>3 DEF ImageFollowed
<1> QED BY <1>1, <1>2, <1>3, <1>4, OneStepMerges

\* A document that is passed over, and one whose row has no image to cache.
LEMMA NextDocumentMerges ==
  ASSUME IInv, RowsInv, NEW r \in Runs, run[r].pc = "document",
         NEW k, k = run[r].at, k <= Len(run[r].bundle), UNCHANGED <<bucket, rows>>,
         NEW inserts, Merged(run[r].bundle, inserts, k + 1),
         LastImage(run[r].inserts, r, run[r].round, bucket) =>
           LastImage(inserts, r, run[r].round, bucket),
         run' = [run EXCEPT ![r] = [run[r] EXCEPT !.at = k + 1, !.inserts = inserts]]
  PROVE  RowsInv'
<1> DEFINE v == [run[r] EXCEPT !.at = k + 1, !.inserts = inserts]
<1>1. /\ run' = [run EXCEPT ![r] = v] /\ run[r] \in RunRecords /\ Active(run[r])
      /\ Merging(run[r])
  BY DEF Active, IInv, RunsOK, RowsInv
<1>2. /\ v.pc = "document" /\ v.output = run[r].output /\ v.bundle = run[r].bundle
      /\ v.at = k + 1 /\ v.inserts = inserts /\ v.overlapped = run[r].overlapped
      /\ v.round = run[r].round
  BY <1>1 DEF RunRecords
<1>3. run[r].output = "png" /\ k + 1 \in 1..(Len(run[r].bundle) + 1)
  BY <1>1 DEF Merging, Outputting, RunRecords
<1> HIDE DEF v
<1>4. Merging(v)
  BY <1>2, <1>3 DEF Merging, Imaging
<1>5. ASSUME ~v.overlapped PROVE ImageFollowed(r, v, files', bucket')
  <2>1. ImageFollowed(r, run[r], files, bucket)
    BY <1>1, <1>2, <1>5 DEF RowsInv, Unbothered
  <2>2. LastImage(v.inserts, r, v.round, bucket)
    BY <1>2, <1>3, <2>1 DEF ImageFollowed
  <2> QED BY <1>2, <1>3, <2>2 DEF ImageFollowed, Imaging
<1> QED BY <1>1, <1>2, <1>4, <1>5, OneStepMerges

\* A row that is not marked leaves the last image as it is.
LEMMA UnmarkedKeepsLast ==
  ASSUME NEW inserts \in Seq(Row), NEW document, NEW k, NEW after,
         Extended(inserts, document, k, after), ~after[Len(inserts) + 1].cached,
         NEW r, NEW round, NEW objects, LastImage(inserts, r, round, objects)
  PROVE  LastImage(after, r, round, objects)
<1> DEFINE m == Len(inserts)
<1>1. m \in Nat /\ Len(after) = m + 1 /\ DOMAIN after = 1..(m + 1) /\ DOMAIN inserts = 1..m
  BY DEF Extended
<1>2. \A i \in 1..m : after[i].cached = inserts[i].cached /\ after[i].image = inserts[i].image
  BY DEF Extended
<1> SUFFICES ASSUME NEW i \in DOMAIN after, after[i].cached,
                    \A j \in DOMAIN after : j > i => ~after[j].cached, NEW output \in Outputs
             PROVE  objects[output] = [run |-> r, round |-> round, document |-> after[i].image]
  BY DEF LastImage
<1>3. i \in 1..m
  <2>1. i # m + 1
    OBVIOUS
  <2> QED BY <1>1, <2>1
<1>4. inserts[i].cached /\ \A j \in DOMAIN inserts : j > i => ~inserts[j].cached
  <2>1. ASSUME NEW j \in 1..m, j > i PROVE ~inserts[j].cached
    <3>1. j \in DOMAIN after
      BY <1>1
    <3>2. ~after[j].cached
      BY <2>1, <3>1
    <3> QED BY <1>2, <3>2
  <2>2. inserts[i].cached
    BY <1>2, <1>3
  <2> QED BY <1>1, <2>1, <2>2
<1>5. objects[output] = [run |-> r, round |-> round, document |-> inserts[i].image]
  BY <1>1, <1>3, <1>4 DEF LastImage
<1> QED BY <1>2, <1>3, <1>5

\* A document gives no row, a row, or an image to look for first.
LEMMA DocumentMerges ==
  ASSUME IInv, RowsInv, NEW r \in Runs, Document(r) PROVE RowsInv'
<1> DEFINE bundle == run[r].bundle
           k == run[r].at
           inserts == run[r].inserts
<1>1. /\ run[r].pc = "document" /\ Active(run[r]) /\ run[r] \in RunRecords
      /\ inserts \in Seq(Row) /\ bundle \in Seq(Documents) /\ k \in 1..Len(bundle)
      /\ UNCHANGED <<bucket, rows>>
  BY DEF Document, At, Active, IInv, RunsOK, AtRight, RunRecords
<1>2. Merged(bundle, inserts, k) /\ run[r].output = "png"
  BY <1>1 DEF RowsInv, Merging, Outputting
<1>3. bundle[k] \in Documents /\ k \in Nat /\ k <= Len(bundle)
  BY <1>1
<1>4. CASE ~Kept(bundle, inserts, k) /\ run' = [run EXCEPT ![r].at = @ + 1]
  <2>1. run' = [run EXCEPT ![r] = [run[r] EXCEPT !.at = k + 1, !.inserts = inserts]]
    BY <1>1, <1>4 DEF RunRecords
  <2> HIDE DEF bundle, k, inserts
  <2>2. Merged(bundle, inserts, k + 1)
    BY <1>1, <1>2, <1>4, MergedPasses
  <2> USE DEF bundle, k, inserts
  <2> QED BY <1>1, <1>3, <2>1, <2>2, NextDocumentMerges
<1>5. CASE /\ Kept(bundle, inserts, k)
           /\ run' = [run EXCEPT ![r].at = @ + 1, ![r].inserts = Insert(@, bundle[k], k)]
  <2> DEFINE after == Insert(inserts, bundle[k], k)
  <2>1. run' = [run EXCEPT ![r] = [run[r] EXCEPT !.at = k + 1, !.inserts = after]]
    BY <1>1, <1>5 DEF RunRecords, IInv, RunsOK
  <2> HIDE DEF bundle, k, inserts
  <2>2. Extended(inserts, bundle[k], k, after) /\ ~after[Len(inserts) + 1].cached
    BY <1>1, <1>3, InsertExtends
  <2> HIDE DEF after
  <2>3. Merged(bundle, after, k + 1)
    BY <1>1, <1>2, <1>5, <2>2, MergedExtends
  <2>4. \A round, objects : LastImage(inserts, r, round, objects) => LastImage(after, r, round, objects)
    BY <1>1, <2>2, UnmarkedKeepsLast
  <2> USE DEF bundle, k, inserts
  <2> QED BY <1>1, <1>3, <2>1, <2>3, <2>4, NextDocumentMerges
<1>6. CASE Kept(bundle, inserts, k) /\ files' = WriteFile(Made, r, {}) /\ Goto(r, "transform")
  BY <1>1, <1>2, <1>6, MadeType, FilesKeepImage, GotoMerges
<1>7. CASE Kept(bundle, inserts, k) /\ Goto(r, "response")
  BY <1>1, <1>2, <1>7, GotoMerges
<1>8. CASE RoundFails(r, FALSE)
  BY <1>1, <1>8, DropMerges
<1> HIDE DEF bundle, k, inserts
<1> QED BY <1>4, <1>5, <1>6, <1>7, <1>8 DEF Document, bundle, k, inserts

\* What a run that is imaging has in hand; alone, it finds its image in the file.
LEMMA ImagingFacts ==
  ASSUME IInv, RowsInv, NEW r \in Runs, run[r].pc \in Imaging
  PROVE  /\ Active(run[r]) /\ run[r] \in RunRecords
         /\ run[r].at \in 1..Len(run[r].bundle) /\ run[r].bundle \in Seq(Documents)
         /\ run[r].inserts \in Seq(Row) /\ Merged(run[r].bundle, run[r].inserts, run[r].at)
         /\ Kept(run[r].bundle, run[r].inserts, run[r].at)
         /\ run[r].pc \notin Outputting => run[r].output = "png"
         /\ ~run[r].overlapped => /\ ImageFollowed(r, run[r], files, bucket)
                                  /\ Ready(r, run[r], files)
<1>1. run[r] \in RunRecords /\ Merging(run[r]) /\ AtRight(run[r]) /\ Active(run[r])
  BY DEF IInv, RunsOK, RowsInv, Active, Imaging
<1> QED BY <1>1 DEF RunRecords, Merging, AtRight, RowsInv, Unbothered, IInv, AloneOK

\* The file that is opened, written and closed is the run's own.
LEMMA DownloadMerges ==
  ASSUME IInv, RowsInv, NEW r \in Runs,
         Response(r) \/ ResponseFails(r) \/ BodyEnds(r) \/ BodyFails(r)
  PROVE  RowsInv'
<1>1. /\ run[r].pc \in {"response", "body"} /\ run[r].pc \in Imaging /\ run[r].pc \notin Outputting
      /\ UNCHANGED <<bucket, rows>>
  BY DEF Response, ResponseFails, BodyEnds, BodyFails, At, Imaging, Outputting
<1>2. /\ Active(run[r]) /\ Kept(run[r].bundle, run[r].inserts, run[r].at) /\ run[r].output = "png"
      /\ ~run[r].overlapped => ImageFollowed(r, run[r], files, bucket) /\ Ready(r, run[r], files)
  BY <1>1, ImagingFacts
<1>3. CASE RoundFails(r, FALSE) \/ RoundFails(r, TRUE) \/ End(r, "failed")
  BY <1>1, <1>2, <1>3, DropMerges
<1>4. CASE files # Null /\ files' = WriteFile(files, r, {r}) /\ Goto(r, "body")
  <2>1. files \in Directories
    BY <1>4 DEF IInv, FilesOK
  <2>2. files'.image.of = Mine(r)
    BY <1>4, <2>1, FilesKeepImage
  <2> QED BY <1>1, <1>2, <1>4, <2>2, GotoMerges
<1>5. CASE run[r].pc = "body" /\ files' = CloseFile(r, FALSE) /\ Goto(r, "transform")
  <2>1. ASSUME ~run[r].overlapped PROVE files'.image.of = Mine(r)
    <3>1. files.image.of = InHand(r, run[r]) /\ files # Null /\ files.image # Null
      BY <1>2, <1>5, <2>1 DEF ImageFollowed, Ready, Imaging
    <3> QED BY <1>5, <3>1, FilesKeepImage, InHandIsMine
  <2> QED BY <1>1, <1>2, <1>5, <2>1, GotoMerges
<1> QED BY <1>3, <1>4, <1>5 DEF Response, ResponseFails, BodyEnds, BodyFails, At

\* Alone, what is read is the run's own image, and what is written is what was read.
LEMMA TransformMerges ==
  ASSUME IInv, RowsInv, NEW r \in Runs, TransformReads(r) \/ TransformFails(r) \/ TransformWrites(r)
  PROVE  RowsInv'
<1>1. /\ run[r].pc \in {"transform", "encode"} /\ run[r].pc \in Imaging
      /\ UNCHANGED <<bucket, rows>>
  BY DEF TransformReads, TransformFails, TransformWrites, At, Imaging
<1>2. /\ Active(run[r]) /\ run[r] \in RunRecords /\ run[r].output \in Outputs
      /\ ~run[r].overlapped => ImageFollowed(r, run[r], files, bucket) /\ Ready(r, run[r], files)
  BY <1>1, ImagingFacts DEF RunRecords
<1>3. CASE RoundFails(r, FALSE) \/ RoundFails(r, TRUE)
  BY <1>1, <1>2, <1>3, DropMerges
<1>4. ASSUME NEW read, NEW pc \in {"encode", "upload"},
             run' = [run EXCEPT ![r].read = read, ![r].pc = pc],
             ~run[r].overlapped => /\ files'.image.of = InHand(r, run[r])
                                   /\ pc = "encode" => read = InHand(r, run[r])
                                   /\ pc = "upload" => files'[run[r].output] = InHand(r, run[r])
      PROVE  RowsInv'
  <2> DEFINE v == [run[r] EXCEPT !.read = read, !.pc = pc]
  <2>1. run' = [run EXCEPT ![r] = v]
    BY <1>4 DEF IInv, RunsOK
  <2>2. /\ v.pc = pc /\ v.output = run[r].output /\ v.bundle = run[r].bundle
        /\ v.at = run[r].at /\ v.inserts = run[r].inserts /\ v.overlapped = run[r].overlapped
        /\ v.read = read /\ v.round = run[r].round
    BY <1>2 DEF RunRecords
  <2> HIDE DEF v
  <2>3. Merging(run[r])
    BY DEF RowsInv
  <2>4. Merging(v) /\ v.pc # "idle"
    BY <1>1, <2>2, <2>3 DEF Merging, Imaging, Outputting
  <2>5. ASSUME ~v.overlapped PROVE ImageFollowed(r, v, files', bucket')
    <3>1. InHand(r, v) = InHand(r, run[r])
      BY <2>2 DEF InHand
    <3>2. ImageFollowed(r, run[r], files, bucket)
      BY <1>2, <2>2, <2>5
    <3>3. /\ v.output = "thumb" => bucket["png"] = InHand(r, v)
          /\ v.output = "png" => LastImage(v.inserts, r, v.round, bucket)
      BY <2>2, <3>1, <3>2 DEF ImageFollowed
    <3> QED BY <1>1, <1>4, <2>2, <2>5, <3>1, <3>3 DEF ImageFollowed
  <2> QED BY <1>1, <1>2, <2>1, <2>2, <2>4, <2>5, OneStepMerges
<1>5. CASE TransformReads(r)
  <2> DEFINE image == IF files = Null THEN Null ELSE files.image
             whole == image # Null /\ image.open = {} /\ ~image.torn
  <2>1. /\ run[r].pc = "transform" /\ files' = files
        /\ \/ whole /\ run' = [run EXCEPT ![r].read = image.of, ![r].pc = "encode"]
           \/ ~whole /\ run' = [run EXCEPT ![r].read = Torn, ![r].pc = "encode"]
           \/ RoundFails(r, TRUE)
    BY <1>5 DEF TransformReads, At
  <2>2. ~run[r].overlapped => whole /\ image = files.image /\ image.of = InHand(r, run[r])
    BY <1>2, <2>1 DEF Ready, ImageFollowed, Imaging
  <2> HIDE DEF whole, image
  <2> QED BY <1>3, <1>4, <2>1, <2>2
<1>6. CASE /\ files # Null
           /\ files' = [files EXCEPT ![run[r].output] = run[r].read]
           /\ run' = [run EXCEPT ![r].read = Null, ![r].pc = "upload"]
           /\ run[r].pc = "encode"
  <2>1. files \in Directories
    BY <1>6 DEF IInv, FilesOK
  <2>2. files'.image = files.image /\ files'[run[r].output] = run[r].read
    BY <1>2, <1>6, <2>1 DEF Directories, Outputs
  <2>3. ~run[r].overlapped => /\ files.image.of = InHand(r, run[r])
                              /\ run[r].read = InHand(r, run[r])
    BY <1>2, <1>6 DEF ImageFollowed, Imaging
  <2> QED BY <1>4, <1>6, <2>2, <2>3
<1> QED BY <1>3, <1>5, <1>6 DEF TransformFails, TransformWrites, At

\* The row that is marked is the last one, and both objects are its image.
LEMMA MarkedIsLast ==
  ASSUME NEW inserts \in Seq(Row), NEW document, NEW k, NEW after,
         Extended(inserts, document, k, after), after[Len(inserts) + 1].cached,
         NEW r, NEW round, NEW objects,
         \A output \in Outputs :
           objects[output] = [run |-> r, round |-> round, document |-> ImageOf(inserts, document, k)]
  PROVE  LastImage(after, r, round, objects)
<1> DEFINE n == Len(inserts) + 1
<1>1. DOMAIN after = 1..n /\ n \in Nat /\ n \in 1..n /\ after[n].image = ImageOf(inserts, document, k)
  BY DEF Extended
<1> SUFFICES ASSUME NEW i \in 1..n, \A j \in 1..n : j > i => ~after[j].cached, NEW output \in Outputs
             PROVE  objects[output] = [run |-> r, round |-> round, document |-> after[i].image]
  BY <1>1 DEF LastImage
<1>2. i = n
  BY <1>1
<1> QED BY <1>1, <1>2

\* First the image is uploaded, then the thumbnail, and the row is marked.
LEMMA UploadMerges ==
  ASSUME IInv, BucketInv, RowsInv, NEW r \in Runs, Upload(r) \/ UploadFails(r) PROVE RowsInv'
<1> DEFINE k == run[r].at
           bundle == run[r].bundle
           inserts == run[r].inserts
           output == run[r].output
           longer == Insert(inserts, bundle[k], k)
           after == [longer EXCEPT ![Len(longer)].cached = TRUE]
           missing == files = Null \/ (files # Null /\ files[output] = Null)
<1>1. run[r].pc = "upload" /\ run[r].pc \in Imaging /\ UNCHANGED rows
  BY DEF Upload, UploadFails, At, Imaging
<1>2. /\ Active(run[r]) /\ run[r] \in RunRecords /\ output \in Outputs
      /\ k \in 1..Len(bundle) /\ bundle \in Seq(Documents) /\ inserts \in Seq(Row)
      /\ Merged(bundle, inserts, k) /\ Kept(bundle, inserts, k)
      /\ ~run[r].overlapped => ImageFollowed(r, run[r], files, bucket) /\ Ready(r, run[r], files)
  BY <1>1, ImagingFacts DEF RunRecords
<1>3. bundle[k] \in Documents /\ k \in Nat /\ k + 1 \in 1..(Len(bundle) + 1)
  BY <1>2
<1>4. CASE RoundFails(r, FALSE) \/ RoundFails(r, TRUE)
  BY <1>1, <1>2, <1>4, DropMerges
<1> DEFINE image == InHand(r, run[r])
<1>5. CASE /\ bucket' = [bucket EXCEPT ![output] = files[output]]
           /\ output = "png" /\ run' = [run EXCEPT ![r].output = "thumb", ![r].pc = "transform"]
           /\ UNCHANGED files
  <2> DEFINE v == [run[r] EXCEPT !.output = "thumb", !.pc = "transform"]
  <2>1. run' = [run EXCEPT ![r] = v]
    BY <1>5 DEF IInv, RunsOK
  <2>2. /\ v.pc = "transform" /\ v.output = "thumb" /\ v.bundle = bundle
        /\ v.at = k /\ v.inserts = inserts /\ v.overlapped = run[r].overlapped
        /\ v.round = run[r].round
    BY <1>2 DEF RunRecords
  <2> HIDE DEF v
  <2>3. Merging(v)
    BY <1>2, <1>3, <2>2 DEF Merging, Outputting
  <2>4. ASSUME ~v.overlapped PROVE ImageFollowed(r, v, files', bucket')
    <3>1. InHand(r, v) = image
      BY <2>2 DEF InHand
    <3>2. files.image.of = image /\ files[output] = image
      BY <1>1, <1>2, <2>2, <2>4 DEF ImageFollowed, Imaging
    <3>3. bucket'["png"] = image
      BY <1>2, <1>5, <3>2 DEF BucketInv, BucketType, Outputs
    <3> HIDE DEF image
    <3> QED BY <1>5, <2>2, <3>1, <3>2, <3>3 DEF ImageFollowed
  <2> QED BY <1>1, <1>2, <2>1, <2>2, <2>3, <2>4, OneStepMerges
<1>6. CASE /\ bucket' = [bucket EXCEPT ![output] = files[output]]
           /\ output = "thumb"
           /\ run' = [run EXCEPT ![r] =
                [@ EXCEPT !.output = "png", !.pc = "document", !.at = k + 1, !.inserts = after]]
  <2> DEFINE v == [run[r] EXCEPT !.output = "png", !.pc = "document", !.at = k + 1,
                                 !.inserts = after]
  <2>1. run' = [run EXCEPT ![r] = v]
    BY <1>6
  <2>2. /\ v.pc = "document" /\ v.output = "png" /\ v.bundle = bundle
        /\ v.at = k + 1 /\ v.inserts = after /\ v.overlapped = run[r].overlapped
        /\ v.round = run[r].round
    BY <1>2 DEF RunRecords
  <2> HIDE DEF v
  <2>3. Extended(inserts, bundle[k], k, after) /\ after[Len(inserts) + 1].cached
    <3> HIDE DEF bundle, k, inserts
    <3>1. Extended(inserts, bundle[k], k, longer)
      BY <1>2, <1>3, InsertExtends
    <3> HIDE DEF longer
    <3> QED BY <1>2, <1>3, <3>1, MarkExtends
  <2>4. Merged(bundle, after, k + 1)
    <3> HIDE DEF bundle, k, inserts, after
    <3> QED BY <1>2, <2>3, MergedExtends
  <2> HIDE DEF after
  <2>5. Merging(v)
    BY <1>3, <2>2, <2>4 DEF Merging, Imaging
  <2>6. ASSUME ~v.overlapped PROVE ImageFollowed(r, v, files', bucket')
    <3>1. files[output] = image /\ bucket["png"] = image
      BY <1>1, <1>2, <1>6, <2>2, <2>6 DEF ImageFollowed
    <3>2. \A o \in Outputs : bucket'[o] = image
      BY <1>6, <3>1 DEF BucketInv, BucketType, Outputs
    <3>3. image = [run |-> r, round |-> run[r].round, document |-> ImageOf(inserts, bundle[k], k)]
      BY DEF InHand
    <3>4. LastImage(after, r, run[r].round, bucket')
      <4> HIDE DEF image, bundle, k, inserts
      <4> QED BY <1>2, <2>3, <3>2, <3>3, MarkedIsLast
    <3> QED BY <2>2, <3>4 DEF ImageFollowed, Imaging
  <2> QED BY <1>1, <1>2, <2>1, <2>2, <2>5, <2>6, OneStepMerges
<1> HIDE DEF missing, after
<1>7. CASE ~missing /\ bucket' = [bucket EXCEPT ![output] = files[output]] /\ Uploaded(r)
  <2>1. output = "png" => UNCHANGED files
    BY <1>7 DEF Uploaded, Removes
  <2> QED BY <1>5, <1>6, <1>7, <2>1 DEF Uploaded, after
<1> QED BY <1>4, <1>7 DEF Upload, UploadFails, missing

\* What is written has been merged to its end; alone, its last image is in the bucket.
LEMMA WriteMerges ==
  ASSUME IInv, RowsInv, NEW r \in Runs, Write(r) PROVE RowsInv'
<1>1. /\ run[r].pc = "document" /\ Active(run[r]) /\ run[r].at > Len(run[r].bundle)
      /\ UNCHANGED bucket
  BY DEF Write, At, Active
<1>2. CASE UNCHANGED rows /\ (End(r, "failed") \/ End(r, "done"))
  BY <1>1, <1>2, DropMerges
<1>3. CASE /\ End(r, "done")
           /\ rows' = [run |-> r, round |-> run[r].round, bundle |-> run[r].bundle,
                       inserts |-> run[r].inserts]
  <2> DEFINE bundle == run[r].bundle
             inserts == run[r].inserts
             v == run'[r]
  <2>1. run[r] \in RunRecords /\ Merging(run[r])
    BY DEF IInv, RunsOK, RowsInv
  <2>2. Merged(bundle, inserts, Len(bundle) + 1) /\ run[r].output = "png"
    <3>1. /\ Len(bundle) \in Nat /\ run[r].at \in 1..(Len(bundle) + 1)
          /\ Merged(bundle, inserts, run[r].at) /\ run[r].output = "png"
      BY <1>1, <2>1 DEF Merging, Outputting, RunRecords
    <3>2. run[r].at = Len(bundle) + 1
      BY <1>1, <3>1
    <3> QED BY <3>1, <3>2
  <2>3. /\ v.pc = "done" /\ v.inserts = <<>> /\ v.output = "png" /\ v.overlapped = run[r].overlapped
        /\ \A q \in Runs \ {r} : run'[q] = run[q]
    BY <1>3, <2>1 DEF End, IInv, RunsOK, RunRecords
  <2> HIDE DEF v
  <2>4. \A q \in Runs : run'[q] = IF q = r THEN v ELSE run[q]
    BY <2>3 DEF v
  <2>5. \A q \in Runs : Merging(run'[q])
    BY <2>3, <2>4 DEF RowsInv, Merging, Imaging
  <2>6. \A q \in Runs : ~Unbothered(q)'
    BY <1>1, <2>3, <2>4 DEF Unbothered, Active, IInv, AloneOK
  <2>7. InOrder'
    <3>1. \A q \in Runs : /\ run'[q].pc = "idle" <=> run[q].pc = "idle"
                          /\ run'[q].overlapped = run[q].overlapped
                          /\ Active(run'[q]) => Active(run[q])
      BY <1>1, <2>3, <2>4 DEF Active
    <3> QED BY <3>1 DEF RowsInv, InOrder
  <2>8. BucketMatches'
    <3> SUFFICES ASSUME ~run[r].overlapped PROVE LastImage(inserts, r, run[r].round, bucket)
      BY <1>1, <1>3, <2>3, <2>4 DEF BucketMatches, LastImage
    <3>1. ImageFollowed(r, run[r], files, bucket)
      BY <1>1 DEF RowsInv, Unbothered
    <3> QED BY <2>2, <3>1 DEF ImageFollowed
  <2>9. rows'.inserts # <<>> => rows'.run \in Runs /\ run'[rows'.run].pc = "done"
    BY <1>3, <2>3, <2>4
  <2>10. Merged(rows.bundle, rows.inserts, Len(rows.bundle) + 1)'
    <3>1. rows'.bundle = bundle /\ rows'.inserts = inserts
      BY <1>3
    <3> HIDE DEF bundle, inserts
    <3> QED BY <2>2, <3>1
  <2>11. \A q \in Runs : Merging(run[q])'
    BY <2>5 DEF Merging
  <2> QED BY <2>6, <2>7, <2>8, <2>9, <2>10, <2>11 DEF RowsInv
<1> QED BY <1>2, <1>3 DEF Write

\* A directory that is made under a run that is alone was there already.
LEMMA ReprocessMerges ==
  ASSUME IInv, RowsInv, ReprocessImages PROVE RowsInv'
<1>1. UNCHANGED <<run, bucket, rows>> /\ files' = Made
  BY DEF ReprocessImages
<1>2. ASSUME NEW r \in Runs, Unbothered(r)
      PROVE  ImageFollowed(r, run[r], files', bucket)
  <2>1. ImageFollowed(r, run[r], files, bucket) /\ Ready(r, run[r], files)
    BY <1>2 DEF RowsInv, IInv, AloneOK, Unbothered
  <2>2. CASE run[r].pc \in Imaging
    <3>1. files' = files
      BY <1>1, <2>1, <2>2, MadeType DEF Ready
    <3> QED BY <2>1, <3>1
  <2>3. CASE run[r].pc \notin Imaging
    BY <2>1, <2>3 DEF ImageFollowed, Imaging
  <2> QED BY <2>2, <2>3
<1>3. \A r \in Runs : Unbothered(r)' => ImageFollowed(r, run[r], files, bucket)'
  BY <1>1, <1>2 DEF Unbothered, ImageFollowed, InHand, LastImage
<1>4. BucketMatches'
  BY <1>1 DEF RowsInv, BucketMatches, At
<1>5. InOrder' /\ \A r \in Runs : Merging(run[r])'
  BY <1>1 DEF RowsInv, InOrder, Merging
<1> QED BY <1>1, <1>3, <1>4, <1>5 DEF RowsInv

\* Whoever dies had not written.
LEMMA KillMerges ==
  ASSUME IInv, RowsInv, Kill PROVE RowsInv'
<1>1. UNCHANGED <<bucket, rows>>
  BY DEF Kill
<1>2. \A q \in Runs : /\ Merging(run'[q]) /\ ~Active(run'[q])
                      /\ run'[q].pc = "idle" <=> run[q].pc = "idle"
                      /\ run[q].pc = "done" => run'[q].pc = "done"
                      /\ run'[q].overlapped = run[q].overlapped
  <2> TAKE q \in Runs
  <2>1. run[q] \in RunRecords /\ Merging(run[q])
    BY DEF IInv, RunsOK, RowsInv
  <2>2. CASE ~Active(run[q])
    BY <2>1, <2>2 DEF Kill, Live, Active
  <2>3. CASE Active(run[q])
    <3> DEFINE v == [run[q] EXCEPT !.pc = "failed", !.round = 0, !.bundle = <<>>, !.at = 0,
                                   !.inserts = <<>>, !.read = Null, !.output = "png"]
    <3>1. run'[q] = v
      BY <2>3 DEF Kill, Live, Active
    <3>2. v.pc = "failed" /\ v.output = "png" /\ v.overlapped = run[q].overlapped
      BY <2>1 DEF RunRecords
    <3> HIDE DEF v
    <3> QED BY <2>3, <3>1, <3>2 DEF Active, Merging, Imaging
  <2> QED BY <2>2, <2>3
<1>3. BucketMatches'
  BY <1>1, <1>2 DEF RowsInv, BucketMatches, At
<1>4. InOrder' /\ \A r \in Runs : Merging(run[r])'
  BY <1>2 DEF RowsInv, InOrder, Merging
<1>5. \A r \in Runs : ~Unbothered(r)'
  BY <1>2 DEF Unbothered, Active
<1>6. /\ Merged(rows.bundle, rows.inserts, Len(rows.bundle) + 1)'
      /\ rows'.inserts # <<>> => rows'.run \in Runs /\ run'[rows'.run].pc = "done"
  BY <1>1, <1>2 DEF RowsInv
<1> QED BY <1>3, <1>4, <1>5, <1>6 DEF RowsInv

LEMMA NextMerges ==
  ASSUME IInv, BucketInv, RowsInv, [Next]_vars PROVE RowsInv'
<1>1. CASE UNCHANGED vars
  <2>1. run' = run /\ files' = files /\ bucket' = bucket /\ rows' = rows
    BY <1>1 DEF vars
  <2>2. /\ \A r \in Runs : Merging(run[r])'
        /\ \A r \in Runs : Unbothered(r)' => ImageFollowed(r, run[r], files, bucket)'
    BY <2>1 DEF RowsInv, Merging, Unbothered, ImageFollowed, InHand, LastImage
  <2>3. InOrder' /\ BucketMatches'
    BY <2>1 DEF RowsInv, InOrder, BucketMatches, At
  <2> QED BY <2>1, <2>2, <2>3 DEF RowsInv
<1>2. CASE ReprocessImages \/ Kill
  BY <1>2, ReprocessMerges, KillMerges
<1>3. ASSUME NEW r \in Runs,
             \/ Start(r) \/ TimeOut(r) \/ Fetch(r) \/ FetchFails(r) \/ Document(r)
             \/ Response(r) \/ ResponseFails(r) \/ BodyEnds(r) \/ BodyFails(r)
             \/ TransformReads(r) \/ TransformFails(r) \/ TransformWrites(r)
             \/ Upload(r) \/ UploadFails(r) \/ Write(r)
      PROVE  RowsInv'
  BY <1>3, StartMerges, TimeOutMerges, FetchMerges, DocumentMerges, DownloadMerges,
     TransformMerges, UploadMerges, WriteMerges
<1> QED BY <1>1, <1>2, <1>3 DEF Next

\* In every state the two invariants of MetadataBundleProofs hold, and this one: rows
\* are merged as far as the documents have been handled, and images are followed from
\* the file to the bucket (metadata-helpers.ts:89-252, image-cache.ts:34-147).
THEOREM RowsInvariant == Spec => [](IInv /\ BucketInv /\ RowsInv)
BY InitOK, NextKeeps, BucketInit, NextHeld, InitMerged, NextMerges, PTL DEF Spec

LEMMA RowsAreMerged ==
  ASSUME BucketInv, RowsInv PROVE RowsFallBack /\ (PropertiesOverrideDefault <=> ~LocalizedProperties)
<1>1. rows.bundle \in Seq(Documents) /\ rows.inserts \in Seq(Row)
  BY DEF BucketInv, RowsType
<1> QED BY <1>1, MergedFallsBack DEF RowsInv

\* Whatever a token's documents say, a row shows what its own says and falls back to
\* the first row's where it says nothing (metadata-helpers.ts:97-118, 172-223).
THEOREM RowsFallBackAlways == Spec => []RowsFallBack
BY RowsInvariant, RowsAreMerged, PTL

\* The comment at metadata-helpers.ts:224-225 is kept exactly as long as no locale that
\* gives a row has properties of its own: one that has is enough for the array it shares
\* with the default (226) to show its value in the default's row.
THEOREM OnlyTheDefaultMayHaveProperties ==
  Spec => [](PropertiesOverrideDefault <=> ~LocalizedProperties)
BY RowsInvariant, RowsAreMerged, PTL

\* However many runs of a token there are, both objects of the bucket are the last
\* image of the rows that a run has written when no other overlapped it
\* (image-cache.ts:123-147).
THEOREM BucketIsTheRows == Spec => []BucketMatches
<1>1. RowsInv => BucketMatches
  BY DEF RowsInv
<1> QED BY RowsInvariant, <1>1, PTL

=============================================================================
