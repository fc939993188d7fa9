---------------------------- MODULE GalleryBuild ----------------------------
(***************************************************************************)
(* How a build makes the gallery out of the photos: the scan               *)
(* (publisher-core), the plan, the files of the photos under output/photos *)
(* (publisher-pipeline/src/image_ops.rs, build_local_gallery_with_fault)   *)
(* and the verification of both.                                           *)
(*                                                                         *)
(* A photo is read three times: its digest is taken by the scan, it is     *)
(* decoded for the preview, and it is copied for the download.  The folder *)
(* belongs to the photographer, who may save a file between any two.  The  *)
(* files made are named by the digest of the scan and are never removed.   *)
(*                                                                         *)
(* A photo is decoded and turned upright before its width and height are   *)
(* taken; the download is a copy of the file and is measured as it lies.   *)
(*                                                                         *)
(* Staging, journal, backup and installation of gallery.json and           *)
(* state.json are LocalPublication's; here they are the one step of        *)
(* Commit.  A digest stands for its content.                               *)
(***************************************************************************)
EXTENDS Naturals

CONSTANTS
    Photo,     \* relative paths in the source folder
    Image,     \* contents that can be decoded
    Damaged,   \* a content that cannot
    Missing,   \* no such file
    Raw,       \* width and height of a content, as its header tells them
    Upright,   \* ... and of a decoded image, turned as its EXIF data says
    MaxStops,  \* bound: the builds that are cut off
    MaxRaces   \* bound: the files saved while a build is running

ASSUME BuildAssumption ==
    /\ Damaged \notin Image /\ Missing \notin Image \cup {Damaged}
    /\ DOMAIN Raw = Image \cup {Damaged} /\ DOMAIN Upright = Image
    /\ \A c \in Image : Upright[c] # Missing
    /\ MaxStops \in Nat /\ MaxRaces \in Nat

VARIABLES
    source,     \* the folder
    previews,   \* photos/preview: what the preview of that name shows
    downloads,  \* photos/download: what the file of that name contains
    published,  \* the photos of gallery.json and state.json
    at,         \* the step of the build, or how the last one ended
    scanned,    \* the photos that the scan has found
    unseen,     \* those that it has still to look at
    todo,       \* the additions and updates of the plan that are left
    decoded,    \* the photo in process_image, decoded
    measured,   \* dimensions_cache: the sizes of the photos processed
    stops,      \* bound
    races       \* history and bound: the files saved while a build was running

assets == <<previews, downloads>>
build == <<scanned, unseen, todo, decoded, measured>>
buildVars == <<source, assets, published, at, build, stops, races>>
-----------------------------------------------------------------------------

FileContent == Image \cup {Damaged}
Found == [Photo -> FileContent \cup {Missing}]
NoGallery == [x \in {} |-> Missing]
Nothing == [x \in Photo |-> Missing]
Sizes == {Upright[c] : c \in Image}

\* Additions and updates of plan_sync.
Changed(old, new) ==
    {x \in Photo : new[x] # Missing /\ (old = NoGallery \/ old[x] # new[x])}
\* Mutant of Removed: only what is left is compared.
RemovedNever(old, new) == {}

\* Its removals, which only matter as a reason to build.
Removed(old, new) ==
    {x \in Photo : old # NoGallery /\ old[x] # Missing /\ new[x] = Missing}

\* The digests that a gallery names.
Named(gallery) == {gallery[x] : x \in DOMAIN gallery} \ {Missing}

\* verify_gallery_assets: both files are there and readable, and the download
\* is what its name says.  Nothing says what a preview shows.
Verifies(gallery) ==
    \A c \in Named(gallery) : previews[c] # Missing /\ downloads[c] = c

\* ... and the width and height that the gallery gives a photo are those of
\* its download.  A build has measured the photos that it has processed; it
\* reads the sizes of the others, and of all previews, from the files, and so
\* a gallery that was published has the size of every download.
SizesAgree ==
    \A x \in Photo :
        measured[x] # Missing => measured[x] = Raw[downloads[scanned[x]]]

Ended == {"idle", "refused", "failed"}
Running == at \notin Ended

BuildTypeOK ==
    /\ source \in Found
    /\ previews \in [FileContent -> Image \cup {Missing}]
    /\ downloads \in [FileContent -> FileContent \cup {Missing}]
    /\ published \in Found \cup {NoGallery}
    /\ at \in Ended \cup {"scan", "process", "copy", "preview"}
    /\ scanned \in Found
    /\ unseen \subseteq Photo
    /\ todo \subseteq {x \in Photo : scanned[x] # Missing}
    /\ decoded \in [photo : Photo \cup {Missing}, image : Image \cup {Missing}]
    /\ measured \in [Photo -> Sizes \cup {Missing}]
    /\ at \in {"copy", "preview"} => decoded.photo \in todo /\ decoded.image \in Image
    /\ stops \in 0 .. MaxStops
    /\ races \in 0 .. MaxRaces

-----------------------------------------------------------------------------
(* The photographer.                                                       *)

Save(x) ==
    /\ \E c \in (FileContent \cup {Missing}) \ {source[x]} :
          source' = [source EXCEPT ![x] = c]
    /\ IF Running THEN races < MaxRaces /\ races' = races + 1
       ELSE races' = races
    /\ UNCHANGED <<assets, published, at, build, stops>>

-----------------------------------------------------------------------------
(* A build.                                                                *)

EndBuild(next) ==
    /\ at' = next
    /\ scanned' = Nothing
    /\ unseen' = {}
    /\ todo' = {}
    /\ decoded' = [photo |-> Missing, image |-> Missing]
    /\ measured' = Nothing

\* recover_publication verifies the files of the active gallery; a gallery
\* that does not verify ends every build here.
Start ==
    /\ ~Running
    /\ IF Verifies(published)
       THEN /\ at' = "scan"
            /\ unseen' = Photo
            /\ UNCHANGED <<scanned, todo, decoded, measured>>
       ELSE EndBuild("refused")
    /\ UNCHANGED <<source, assets, published, stops, races>>

\* scan_dir: one file after the other.
ScanFile(x) ==
    /\ at = "scan" /\ x \in unseen
    /\ scanned' = [scanned EXCEPT ![x] = source[x]]
    /\ unseen' = unseen \ {x}
    /\ UNCHANGED <<source, assets, published, at, todo, decoded, measured,
                   stops, races>>

\* Nothing to do, or a generation is begun.
MakePlan ==
    /\ at = "scan" /\ unseen = {}
    /\ IF /\ published # NoGallery
          /\ Changed(published, scanned) = {}
          /\ Removed(published, scanned) = {}
       THEN EndBuild("idle")
       ELSE /\ todo' = Changed(published, scanned)
            /\ at' = "process"
            /\ UNCHANGED <<scanned, unseen, decoded, measured>>
    /\ UNCHANGED <<source, assets, published, stops, races>>

\* Mutant of Decode: an image that cannot be decoded is taken as it is.
DecodeAnything(x) ==
    /\ at = "process" /\ x \in todo
    /\ IF source[x] # Missing
       THEN /\ decoded' = [photo |-> x, image |-> source[x]]
            /\ at' = "copy"
            /\ UNCHANGED <<scanned, unseen, todo, measured>>
       ELSE EndBuild("failed")
    /\ UNCHANGED <<source, assets, published, stops, races>>

\* process_image decodes the file of a photo, as it is by now.
Decode(x) ==
    /\ at = "process" /\ x \in todo
    /\ IF source[x] \in Image
       THEN /\ decoded' = [photo |-> x, image |-> source[x]]
            /\ at' = "copy"
            /\ UNCHANGED <<scanned, unseen, todo, measured>>
       ELSE EndBuild("failed")
    /\ UNCHANGED <<source, assets, published, stops, races>>

\* Mutant of FileName: the file keeps the name that the photo had.
OldName(x) ==
    IF published # NoGallery /\ published[x] # Missing
    THEN published[x] ELSE scanned[x]

\* Both files are named by the digest of the scan.
FileName(x) == scanned[x]

\* safe_copy puts the file, as it is by now, in the place of another one.
Copy ==
    /\ at = "copy"
    /\ LET x == decoded.photo
       IN  IF source[x] = Missing THEN EndBuild("failed") /\ UNCHANGED downloads
           ELSE /\ downloads' = [downloads EXCEPT ![FileName(x)] = source[x]]
                /\ at' = "preview"
                /\ UNCHANGED build
    /\ UNCHANGED <<source, previews, published, stops, races>>

\* A preview that exists is kept, or one is made of the decoded image.  The
\* sizes go to the dimensions_cache.
MakePreview ==
    /\ at = "preview"
    /\ LET x == decoded.photo
       IN  /\ previews' = IF previews[FileName(x)] # Missing THEN previews
                          ELSE [previews EXCEPT ![FileName(x)] = decoded.image]
           /\ todo' = todo \ {x}
           /\ measured' = [measured EXCEPT ![x] = Upright[decoded.image]]
    /\ decoded' = [photo |-> Missing, image |-> Missing]
    /\ at' = "process"
    /\ UNCHANGED <<source, downloads, published, scanned, unseen, stops, races>>

\* Mutant of Stage: a photo that was in the gallery is not verified again.
StageUnverified ==
    /\ at = "process" /\ todo = {}
    /\ published' = scanned
    /\ EndBuild("idle")
    /\ UNCHANGED <<source, assets, stops, races>>

\* The gallery is written, verified and published.
Stage ==
    /\ at = "process" /\ todo = {}
    /\ IF Verifies(scanned) /\ SizesAgree
       THEN published' = scanned /\ EndBuild("idle")
       ELSE published' = published /\ EndBuild("failed")
    /\ UNCHANGED <<source, assets, stops, races>>

\* The process is killed; its lock is removed by hand.
Stop ==
    /\ stops < MaxStops
    /\ Running
    /\ stops' = stops + 1
    /\ EndBuild("idle")
    /\ UNCHANGED <<source, assets, published, races>>

-----------------------------------------------------------------------------

BuildInit ==
    /\ source \in Found
    /\ previews = [c \in FileContent |-> Missing]
    /\ downloads = [c \in FileContent |-> Missing]
    /\ published = NoGallery
    /\ at = "idle"
    /\ scanned = Nothing
    /\ unseen = {}
    /\ todo = {}
    /\ decoded = [photo |-> Missing, image |-> Missing]
    /\ measured = Nothing
    /\ stops = 0
    /\ races = 0

BuildStep ==
    \/ Start \/ MakePlan \/ Copy \/ MakePreview \/ Stage
    \/ \E x \in Photo : ScanFile(x) \/ Decode(x)

BuildNext == BuildStep \/ Stop \/ \E x \in Photo : Save(x)

BuildSpec == BuildInit /\ [][BuildNext]_buildVars

\* A build runs to its end, and the user starts another one.
FairBuilds == BuildSpec /\ WF_buildVars(BuildStep)

-----------------------------------------------------------------------------
(* Properties.                                                             *)

\* As long as no photo is saved while a build runs, every preview and every
\* download is of the content in its name, after whatever was interrupted,
\* and so no build is ever turned away for the gallery that is active.
AssetsAreTheirContent ==
    races = 0 =>
        /\ \A c \in FileContent : /\ previews[c] \in {c, Missing}
                                   /\ downloads[c] \in {c, Missing}
        /\ at # "refused"

\* Also beside a photographer at work, no step leaves an active gallery that
\* the next build would refuse, but one: the copy of a photo that was saved
\* after the scan, under a digest that the active gallery names already (a
\* photo renamed, or there twice).
BrokenOnlyByARace ==
    [][(Verifies(published) /\ ~Verifies(published)') =>
          /\ at = "copy"
          /\ source[decoded.photo] # scanned[decoded.photo]
          /\ scanned[decoded.photo] \in Named(published)]_buildVars

\* The photos that the camera has not turned, or that are square.
AsItLies == {c \in Image : Upright[c] = Raw[c]}

\* When the folder comes to rest with photos that can be decoded and lie as
\* they are shown, repeating the build publishes exactly what is in it, and
\* keeps it.
CatchesUp ==
    ([](races = 0) /\ <>[][source' = source]_source
              /\ <>[](\A x \in Photo : source[x] \in AsItLies \cup {Missing}))
        => <>[](published = source)

\* The same of every photo that can be decoded, which is not so: the size of
\* a photo that is turned never agrees with that of its download ("gallery
\* asset dimensions mismatch"), and no build that has to process it ends well.
DecodableCatchesUp ==
    ([](races = 0) /\ <>[][source' = source]_source
              /\ <>[](\A x \in Photo : source[x] # Damaged))
        => <>[](published = source)

\* What recover_publication demands of the active gallery ("download asset
\* hash mismatch") before any build may begin.
HealedByRecovery == at # "refused"
=============================================================================
