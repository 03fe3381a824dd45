--------------------------- MODULE MetadataBundle ---------------------------
(***************************************************************************)
(* One token's metadata and images: a run of its job fetches a document per *)
(* locale, merges each with the default (metadata-helpers.ts), puts images   *)
(* through a temporary directory into a bucket (image-cache.ts) and stores   *)
(* the rows.  A run that has timed out goes on beside the token's next one,  *)
(* in the same directory and on the same objects of the bucket.              *)
(*                                                                          *)
(* A value is known by the document it comes from: a row holds positions in   *)
(* the bundle, 0 for none, and an image its run, round and document.  The     *)
(* statements of the write and what becomes of a failed run are TokenJob's.   *)
(***************************************************************************)
EXTENDS Integers, Sequences

CONSTANTS
  Runs,         \* runs of the token's job, in the order they start: 1..n
  Keys,         \* names of properties
  Locales,
  Bundles,      \* [Runs -> the bundles its hosts may answer with]
  MaxRounds,    \* METADATA_MAX_IMMEDIATE_URI_RETRIES
  Torn,         \* what is in a file half written
  Null          \* no file, no object; undefined

\* The scheme of a URI, as far as it decides what becomes of it.
Schemes == {"http", "public ipfs gateway", "ipfs", "ipns", "ar", "data", "other"}
\* What a document says.  A name of another type than text counts as its text; a
\* blank image hides the default's.
Documents ==
  [scheme : Schemes, locale : Locales \cup {Null}, name : {"text", "blank", "null"},
   description : BOOLEAN, image : {"none", "blank", "not text"} \cup Schemes,
   attributes : BOOLEAN, properties : SUBSET Keys]

ASSUME MetadataBundleAssumption ==
  /\ \A r \in Runs : r \in Nat \ {0} /\ 1..r \subseteq Runs
  /\ \A r \in Runs : Bundles[r] \subseteq Seq(Documents) \ {<<>>}
  /\ MaxRounds \in Nat \ {0}

VARIABLES
  run,      \* [Runs -> where it is and what it holds]
  files,    \* the directory of the token: `image` and what is made of it; or Null
  bucket,   \* the objects of the token: its image and thumbnail
  rows      \* the token's metadata, the run that wrote it and from what

vars == <<run, files, bucket, rows>>

Outputs == {"png", "thumb"}
Contents == [run : Runs, round : Nat, document : Nat]
PCs == {"idle", "fetch", "document", "response", "body", "transform", "encode", "upload",
        "done", "failed"}
Row == [document : Nat, description : Nat, image : Nat, cached : BOOLEAN, attributes : Nat,
        properties : [Keys -> Nat]]

RunRecords ==
  [pc : PCs, round : 0..(MaxRounds - 1), bundle : Seq(Documents), at : Nat, inserts : Seq(Row),
   output : Outputs, read : Contents \cup {Null, Torn},
   timedOut : BOOLEAN, overlapped : BOOLEAN, missed : BOOLEAN]
\* The file `image`: whose it is, who has it open, and whether it is spoilt.
Images == [of : Contents, open : SUBSET Runs, torn : BOOLEAN]
Directories ==
  [image : {Null} \cup Images, png : Contents \cup {Null, Torn}, thumb : Contents \cup {Null, Torn}]

ASSUME NullAssumption == Null \notin Images \cup Directories \cup Contents \cup {Torn}

\* The shape of the state; a run makes no more rounds than it may.
TypeOK ==
  /\ run \in [Runs -> RunRecords]
  /\ files \in {Null} \cup Directories
  /\ bucket \in [Outputs -> Contents \cup {Null, Torn}]
  /\ rows \in [run : Runs \cup {Null}, round : Nat, bundle : Seq(Documents), inserts : Seq(Row)]

-----------------------------------------------------------------------------
(* URIs.                                                                    *)

\* getFetchableMetadataUrl(): throws for anything but these.
Fetchable(scheme) == scheme \in {"http", "public ipfs gateway", "ipfs", "ipns", "ar"}

\* getTokenUri() asks for the host of the token's URI before anything is fetched.
ChecksHost(bundle) == Fetchable(bundle[1].scheme)

\* getMetadataFromUri(), and processImageCache() for an image: data: is read where
\* it stands.
Readable(scheme) == Fetchable(scheme) \/ scheme = "data"

-----------------------------------------------------------------------------
(* parseMetadataForInsertion().                                             *)

\* Mutant: a blank name falls back to the default's too.
BlankFallsBack(inserts, document) ==
  document.name = "text" \/ (inserts # <<>> /\ document.name \in {"null", "blank"})

\* `metadata.name ?? default`, which must not be blank.
Named(inserts, document) ==
  document.name = "text" \/ (document.name = "null" /\ inserts # <<>>)

\* The first row is the one to fall back to, whichever document it is from.
Fallback(inserts, field) == IF inserts = <<>> THEN 0 ELSE inserts[1][field]

ImageOf(inserts, document, k) ==
  CASE document.image = "none"  -> Fallback(inserts, "image")
    [] document.image = "blank" -> 0
    [] OTHER                    -> k

\* One more row.  Its properties are the first row's array: what it overrides is
\* overridden in every row.
Insert(inserts, document, k) ==
  LET properties == [p \in Keys |-> IF p \in document.properties THEN k
                                    ELSE IF inserts = <<>> THEN 0 ELSE inserts[1].properties[p]]
      row == [document |-> k,
              description |-> IF document.description THEN k ELSE Fallback(inserts, "description"),
              image |-> ImageOf(inserts, document, k), cached |-> FALSE,
              attributes |-> IF document.attributes THEN k ELSE 0,
              properties |-> properties]
  IN Append([j \in DOMAIN inserts |-> [inserts[j] EXCEPT !.properties = properties]], row)

\* Does its image go to the cache?  Text does, and what is not is text once it is
\* in the first row.
Cached(bundle, inserts, k) ==
  LET i == ImageOf(inserts, bundle[k], k) IN i # 0 /\ (i = k => bundle[k].image # "not text")

-----------------------------------------------------------------------------
(* A run.                                                                   *)

Live(r) == run[r].pc \notin {"idle", "done", "failed"}
At(r, pc) == run[r].pc = pc

\* Run r goes on at pc, or ends there with nothing in hand.
Goto(r, pc) == run' = [run EXCEPT ![r].pc = pc]
End(r, pc) ==
  run' = [run EXCEPT ![r] = [@ EXCEPT !.pc = pc, !.round = 0, !.bundle = <<>>, !.at = 0,
                                      !.inserts = <<>>, !.read = Null, !.output = "png"]]

\* Work(): a run is under way, or one that has timed out is.
Start(r) ==
  /\ At(r, "idle")
  /\ \A q \in 1..(r - 1) : ~At(q, "idle") /\ (Live(q) => run[q].timedOut)
  /\ LET others == {q \in Runs : Live(q)}
     IN run' = [q \in Runs |->
          IF q = r THEN [run[q] EXCEPT !.pc = "fetch", !.overlapped = others # {}]
          ELSE [run[q] EXCEPT !.overlapped = @ \/ q \in others]]
  /\ UNCHANGED <<files, bucket, rows>>

\* A run outlives its timeout; for the last one it makes no difference.
TimeOut(r) ==
  /\ Live(r) /\ ~run[r].timedOut /\ \E q \in Runs : At(q, "idle")
  /\ run' = [run EXCEPT ![r].timedOut = TRUE]
  /\ UNCHANGED <<files, bucket, rows>>

\* Mutant: there is no end to the rounds.
NewRound(r, missed) ==
  run' = [run EXCEPT ![r] =
    [@ EXCEPT !.round = @ + 1, !.missed = @ \/ missed, !.pc = "fetch", !.bundle = <<>>,
              !.at = 0, !.inserts = <<>>, !.read = Null, !.output = "png"]]

\* An error that an immediate retry may cure, while there are any left; was it a
\* file that was missing or spoilt?
RoundFails(r, missed) ==
  LET next == run[r].round + 1
  IN run' = [run EXCEPT ![r] =
       [run[r] EXCEPT !.round = IF next < MaxRounds THEN next ELSE 0,
                      !.pc = IF next < MaxRounds THEN "fetch" ELSE "failed",
                      !.missed = run[r].missed \/ missed, !.bundle = <<>>, !.at = 0,
                      !.inserts = <<>>, !.read = Null, !.output = "png"]]

\* The default's locale is not fetched again.
Skips(bundle, k) == k > 1 /\ bundle[k].locale = bundle[1].locale

\* The document of the token's URI, the default, and one for each other locale.
Fetch(r) ==
  /\ At(r, "fetch")
  /\ \E bundle \in Bundles[r] :
       LET readable == \A k \in DOMAIN bundle : Skips(bundle, k) \/ Readable(bundle[k].scheme)
       IN \/ ~ChecksHost(bundle) /\ run[r].round = 0 /\ End(r, "failed")
          \/ ChecksHost(bundle) /\ ~readable /\ RoundFails(r, FALSE)
          \/ /\ ChecksHost(bundle) /\ readable
             /\ run' = [run EXCEPT ![r] = [@ EXCEPT !.pc = "document", !.bundle = bundle, !.at = 1]]
  /\ UNCHANGED <<files, bucket, rows>>

\* A timeout or what is no metadata is retried; a busy host and an answer of
\* another kind are not.
FetchFails(r) ==
  /\ At(r, "fetch")
  /\ RoundFails(r, FALSE) \/ End(r, "failed")
  /\ UNCHANGED <<files, bucket, rows>>

-----------------------------------------------------------------------------
(* processImageCache().                                                     *)

\* The image of the document at hand, in this round.
Mine(r) ==
  [run |-> r, round |-> run[r].round,
   document |-> ImageOf(run[r].inserts, run[r].bundle[run[r].at], run[r].at)]

\* Its URI: an object's text is none.
SchemeOf(r) ==
  LET image == run[r].bundle[Mine(r).document].image
  IN IF image = "not text" THEN "other" ELSE image

EmptyDirectory == [image |-> Null, png |-> Null, thumb |-> Null]
\* mkdirSync({ recursive })
Made == IF files = Null THEN EmptyDirectory ELSE files

\* Who has the file `image` open.
Writing(dir) == IF dir.image = Null THEN {} ELSE dir.image.open

\* Mutant: what is there is kept.
KeepFile(dir, r, open) ==
  IF dir.image # Null THEN dir
  ELSE [dir EXCEPT !.image = [of |-> Mine(r), open |-> open, torn |-> FALSE]]

\* Opened to write, the file is emptied; who has it open goes on writing into it.
WriteFile(dir, r, open) ==
  [dir EXCEPT !.image = [of |-> Mine(r), open |-> Writing(dir) \cup open, torn |-> Writing(dir) # {}]]

\* Does the document give a row?
Kept(bundle, inserts, k) == ~Skips(bundle, k) /\ Named(inserts, bundle[k])

\* The next document: without a name it is passed over, without an image to cache
\* it is a row.  For an image the directory is made, and a data: image is written,
\* unless it is no image by its type.
Document(r) ==
  LET bundle == run[r].bundle
      k == run[r].at
      inserts == run[r].inserts
  IN /\ At(r, "document") /\ k <= Len(bundle)
     /\ \/ /\ ~Kept(bundle, inserts, k)
           /\ run' = [run EXCEPT ![r].at = @ + 1]
           /\ UNCHANGED files
        \/ /\ Kept(bundle, inserts, k) /\ ~Cached(bundle, inserts, k)
           /\ run' = [run EXCEPT ![r].at = @ + 1, ![r].inserts = Insert(@, bundle[k], k)]
           /\ UNCHANGED files
        \/ /\ Kept(bundle, inserts, k) /\ Cached(bundle, inserts, k)
           /\ \/ SchemeOf(r) = "data" /\ files' = WriteFile(Made, r, {}) /\ Goto(r, "transform")
              \/ Fetchable(SchemeOf(r)) /\ files' = Made /\ Goto(r, "response")
              \/ ~Fetchable(SchemeOf(r)) /\ files' = Made /\ RoundFails(r, FALSE)
  /\ UNCHANGED <<bucket, rows>>

\* downloadImage(): the file is opened when the response is there.
Response(r) ==
  /\ At(r, "response")
  /\ \/ files = Null /\ UNCHANGED files /\ RoundFails(r, TRUE)
     \/ files # Null /\ files' = WriteFile(files, r, {r}) /\ Goto(r, "body")
  /\ UNCHANGED <<bucket, rows>>

\* As for a document: a timeout is retried, a status or a size is not.
ResponseFails(r) ==
  /\ At(r, "response")
  /\ RoundFails(r, FALSE) \/ End(r, "failed")
  /\ UNCHANGED <<files, bucket, rows>>

\* Run r closes the file, if it is still there; what it wrote may be cut short.
CloseFile(r, cut) ==
  IF files # Null /\ r \in Writing(files)
  THEN [files EXCEPT !.image.open = @ \ {r}, !.image.torn = @ \/ cut]
  ELSE files

BodyEnds(r) ==
  /\ At(r, "body")
  /\ files' = CloseFile(r, FALSE)
  /\ Goto(r, "transform")
  /\ UNCHANGED <<bucket, rows>>

BodyFails(r) ==
  /\ At(r, "body")
  /\ files' = CloseFile(r, TRUE)
  /\ RoundFails(r, FALSE) \/ End(r, "failed")
  /\ UNCHANGED <<bucket, rows>>

\* transformImage(): a file half written may be read as it stands.
TransformReads(r) ==
  /\ At(r, "transform")
  /\ LET image == IF files = Null THEN Null ELSE files.image
         whole == image # Null /\ image.open = {} /\ ~image.torn
     IN \/ whole /\ run' = [run EXCEPT ![r].read = image.of, ![r].pc = "encode"]
        \/ image # Null /\ ~whole /\ run' = [run EXCEPT ![r].read = Torn, ![r].pc = "encode"]
        \/ ~whole /\ RoundFails(r, TRUE)
  /\ UNCHANGED <<files, bucket, rows>>

\* What was fetched is no image.
TransformFails(r) ==
  /\ At(r, "transform")
  /\ RoundFails(r, FALSE)
  /\ UNCHANGED <<files, bucket, rows>>

TransformWrites(r) ==
  /\ At(r, "encode")
  /\ \/ files = Null /\ UNCHANGED files /\ RoundFails(r, TRUE)
     \/ /\ files # Null
        /\ files' = [files EXCEPT ![run[r].output] = run[r].read]
        /\ run' = [run EXCEPT ![r].read = Null, ![r].pc = "upload"]
  /\ UNCHANGED <<bucket, rows>>

\* Mutant: the directory is removed after either upload.
RemovesEachTime(output) == TRUE

\* The directory is removed after the thumbnail's upload.
Removes(output) == output = "thumb"

\* On from an upload: to the thumbnail, or to the row the image is for.
Uploaded(r) ==
  LET k == run[r].at
      inserts == Insert(run[r].inserts, run[r].bundle[k], k)
  IN /\ files' = IF Removes(run[r].output) THEN Null ELSE files
     /\ \/ /\ run[r].output = "png"
           /\ run' = [run EXCEPT ![r].output = "thumb", ![r].pc = "transform"]
        \/ /\ run[r].output = "thumb"
           /\ run' = [run EXCEPT ![r] =
                [@ EXCEPT !.output = "png", !.pc = "document", !.at = k + 1,
                          !.inserts = [inserts EXCEPT ![Len(inserts)].cached = TRUE]]]

Upload(r) ==
  /\ At(r, "upload")
  /\ LET output == run[r].output
         missing == files = Null \/ (files # Null /\ files[output] = Null)
     IN \/ missing /\ UNCHANGED <<files, bucket>> /\ RoundFails(r, TRUE)
        \/ ~missing /\ bucket' = [bucket EXCEPT ![output] = files[output]] /\ Uploaded(r)
  /\ UNCHANGED rows

\* Mutant: an image that cannot be uploaded is passed over.
UploadPassedOver(r) ==
  /\ At(r, "upload")
  /\ Uploaded(r)
  /\ UNCHANGED <<bucket, rows>>

UploadFails(r) ==
  /\ At(r, "upload")
  /\ RoundFails(r, FALSE)
  /\ UNCHANGED <<files, bucket, rows>>

-----------------------------------------------------------------------------
(* The rows.                                                                *)

\* UNIQUE (token_id, l10n_locale); the absent ones are distinct.
DistinctLocales(bundle, inserts) ==
  \A i, j \in DOMAIN inserts :
    LET locale(n) == bundle[inserts[n].document].locale
    IN i # j /\ locale(i) # Null => locale(i) # locale(j)

\* updateProcessedTokenWithMetadata(): one transaction.
Write(r) ==
  LET bundle == run[r].bundle
      inserts == run[r].inserts
  IN /\ At(r, "document") /\ run[r].at > Len(bundle)
     /\ \/ ~DistinctLocales(bundle, inserts) /\ End(r, "failed") /\ UNCHANGED rows
        \/ /\ DistinctLocales(bundle, inserts) /\ End(r, "done")
           /\ rows' = [run |-> r, round |-> run[r].round, bundle |-> bundle, inserts |-> inserts]
  /\ UNCHANGED <<files, bucket>>

\* reprocessTokenImageCache(), for POST /cache-images: the URL it asks for is the text
\* of an object, so that it fails once it has made the directory.
ReprocessImages ==
  /\ \E i \in DOMAIN rows.inserts :
       LET image == rows.inserts[i].image
       IN image # 0 /\ Fetchable(rows.bundle[image].image)
  /\ files' = Made
  /\ UNCHANGED <<run, bucket, rows>>

\* The process dies: its files stay as they are.
Kill ==
  /\ \E r \in Runs : Live(r)
  /\ run' = [r \in Runs |->
       IF Live(r) THEN [run[r] EXCEPT !.pc = "failed", !.round = 0, !.bundle = <<>>, !.at = 0,
                                      !.inserts = <<>>, !.read = Null, !.output = "png"]
       ELSE run[r]]
  /\ files' = IF files = Null \/ Writing(Made) = {} THEN files
              ELSE [files EXCEPT !.image.open = {}, !.image.torn = TRUE]
  /\ UNCHANGED <<bucket, rows>>

-----------------------------------------------------------------------------
Init ==
  /\ run = [r \in Runs |-> [pc |-> "idle", round |-> 0, bundle |-> <<>>, at |-> 0, inserts |-> <<>>,
                            output |-> "png", read |-> Null, timedOut |-> FALSE,
                            overlapped |-> FALSE, missed |-> FALSE]]
  /\ files = Null
  /\ bucket = [o \in Outputs |-> Null]
  /\ rows = [run |-> Null, round |-> 0, bundle |-> <<>>, inserts |-> <<>>]

Next ==
  \/ \E r \in Runs :
       \/ Start(r) \/ TimeOut(r) \/ Fetch(r) \/ FetchFails(r) \/ Document(r)
       \/ Response(r) \/ ResponseFails(r) \/ BodyEnds(r) \/ BodyFails(r)
       \/ TransformReads(r) \/ TransformFails(r) \/ TransformWrites(r)
       \/ Upload(r) \/ UploadFails(r) \/ Write(r)
  \/ ReprocessImages
  \/ Kill

Spec == Init /\ [][Next]_vars

-----------------------------------------------------------------------------
(* Properties.                                                              *)

\* A row shows what its document says, and for what it does not say what the first
\* row's document says: its description and image, never its attributes.  A document
\* has a row if its name is text, or null with a row to take it from; a blank name
\* has none, and the default's locale no second one (metadata-helpers.ts:97-118,
\* 172-223).
RowsFallBack ==
  LET bundle == rows.bundle
      inserts == rows.inserts
      documents == {inserts[i].document : i \in DOMAIN inserts}
      base == inserts[1].document
      fetched == {k \in DOMAIN bundle : k = 1 \/ bundle[k].locale # bundle[1].locale}
      HasRow(k) == \/ bundle[k].name = "text"
                   \/ bundle[k].name = "null" /\ \E j \in fetched : j < k /\ bundle[j].name = "text"
      Said(k, says(_)) == IF says(bundle[k]) THEN k ELSE IF says(bundle[base]) THEN base ELSE 0
      Described(d) == d.description
      Pictured(d) == d.image \notin {"none", "blank"}
  IN /\ documents = {k \in fetched : HasRow(k)}
     /\ \A i, j \in DOMAIN inserts : i < j => inserts[i].document < inserts[j].document
     /\ \A i \in DOMAIN inserts :
          LET k == inserts[i].document
          IN /\ inserts[i].description = Said(k, Described)
             /\ inserts[i].image = IF bundle[k].image = "blank" THEN 0 ELSE Said(k, Pictured)
             /\ inserts[i].attributes \in {0, k}

\* metadata-helpers.ts:224-225: "Localized properties only override their default. All
\* others have to fall back to default values": a row shows its own document's property
\* if it has one of that name, otherwise the first row's document's, and never another
\* locale's.
PropertiesOverrideDefault ==
  \A i \in DOMAIN rows.inserts : \A p \in Keys :
    LET own == rows.inserts[i].document
        base == rows.inserts[1].document
        Has(k) == p \in rows.bundle[k].properties
    IN rows.inserts[i].properties[p] = IF Has(own) THEN own ELSE IF Has(base) THEN base ELSE 0

\* Once a run that no other overlapped has written its rows, and until the next one
\* starts, both objects of the bucket are the last image those rows speak of, as the
\* run's last round fetched it: no rest of a round, run or process that failed, no
\* image beside the thumbnail of another (image-cache.ts:123-147).
BucketMatches ==
  \A r \in Runs :
    rows.run = r /\ ~run[r].overlapped /\ (\A q \in Runs : q > r => At(q, "idle")) =>
      \A i \in DOMAIN rows.inserts :
        rows.inserts[i].cached /\ (\A j \in DOMAIN rows.inserts : j > i => ~rows.inserts[j].cached) =>
          \A output \in Outputs :
            bucket[output] = [run |-> r, round |-> rows.round, document |-> rows.inserts[i].image]

\* A run finds a file of its own missing or spoilt only when another run of the token
\* was under way beside it (image-cache.ts:125-126, 147).
FailsOnlyIfOverlapped ==
  \A r \in Runs : run[r].missed => run[r].overlapped

\* When a row names a cached image and thumbnail, both objects are there, whatever
\* failed, overlapped or was killed on the way (image-cache.ts:135-151).
CachedImagesExist ==
  \A i \in DOMAIN rows.inserts :
    rows.inserts[i].cached => \A output \in Outputs : bucket[output] # Null

=============================================================================
