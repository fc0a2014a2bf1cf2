------------------------------ MODULE Showcase ------------------------------
(***************************************************************************)
(* What a salon shows: the photo of a professional, whose hours are        *)
(* replaced as a whole (professionals.service.ts), the logo and the        *)
(* gallery (tenants.service.ts). Images are files on a disk, and rows that *)
(* name them: a request writes the two one after the other, and its        *)
(* process may stop in between.                                            *)
(***************************************************************************)
EXTENDS Integers, FiniteSets

CONSTANTS
    Uploads,        \* requests in progress at once
    Files,          \* names of image files, each used once
    MaxGallery,     \* MAX_GALLERY_IMAGES
    WorkingWeeks,   \* sets of intervals a professional may be given, one weekday's
    NoFile, NoUpload

Logo == "logo.webp"
Interval == [from : Nat, to : Nat]
Overlap(i, j) == i # j /\ i.from < j.to /\ j.from < i.to

\* hasOverlappingIntervals and the order of the bounds are checked before the transaction.
\* Assumed of the constants by whoever instantiates the module.
ShowcaseAssumption ==
    /\ \A week \in WorkingWeeks : /\ week \subseteq Interval
                                  /\ \A i, j \in week : i.from < i.to /\ ~Overlap(i, j)
    /\ NoFile \notin Files /\ Logo \notin Files \cup {NoFile} /\ MaxGallery \in Nat

VARIABLES
    disk,       \* files there are; the logo has one fixed name
    photo,      \* photoUrl of the professional
    logo,       \* the logo's row has a URL
    gallery,    \* the TenantGalleryImage rows
    spare,      \* names not given to a file yet
    hours,      \* WorkingHours rows: an interval, and the request that inserted it
    upload,     \* upload[u]: a request and what it has read
    dropped,    \* history: gallery files unlinked
    crossed     \* history: what two requests, or a stopped one, left: logo, gallery, hours

showcaseVars == <<disk, photo, logo, gallery, spare, hours, upload, dropped, crossed>>

NoWork == [op |-> "idle", old |-> NoFile, new |-> NoFile, saw |-> {}]

TypeOK ==
    /\ disk \subseteq Files \cup {Logo} /\ gallery \subseteq Files
    /\ photo \in Files \cup {NoFile}
    /\ \A u \in Uploads : upload[u].op = "idle" => upload[u] = NoWork

Working(op) == {u \in Uploads : upload[u].op = op}
Does(u, op, old, new) ==
    upload' = [upload EXCEPT ![u] = [NoWork EXCEPT !.op = op, !.old = old, !.new = new]]
Ends(u) == upload' = [upload EXCEPT ![u] = NoWork]

-----------------------------------------------------------------------------
(* The photo: read, write the file, name it in the row, delete the one that was read *)

PhotoStart(u, f) ==
    /\ upload[u] = NoWork /\ f \in spare \cup {NoFile}
    /\ Does(u, IF f = NoFile THEN "photoRow" ELSE "photoFile", photo, f)
    /\ spare' = spare \ {f}
    /\ UNCHANGED <<disk, photo, logo, gallery, hours, dropped, crossed>>

PhotoFile(u) ==
    /\ upload[u].op = "photoFile"
    /\ disk' = disk \cup {upload[u].new}
    /\ Does(u, "photoRow", upload[u].old, upload[u].new)
    /\ UNCHANGED <<photo, logo, gallery, spare, hours, dropped, crossed>>

\* removePhoto writes null.
PhotoRow(u) ==
    /\ upload[u].op = "photoRow"
    /\ photo' = upload[u].new
    /\ Does(u, "photoDelete", upload[u].old, NoFile)
    /\ UNCHANGED <<disk, logo, gallery, spare, hours, dropped, crossed>>

\* The file to delete, were the row looked at again for it.
ReplacedNow(u) == photo
Replaced(u) == upload[u].old

PhotoDelete(u) ==
    /\ upload[u].op = "photoDelete"
    /\ disk' = disk \ {Replaced(u)}
    /\ Ends(u)
    /\ UNCHANGED <<photo, logo, gallery, spare, hours, dropped, crossed>>

-----------------------------------------------------------------------------
(* The logo, one file under one name: written before its row, removed before it *)

Alone(u) == Working("logoSet") \cup Working("logoClear") \subseteq {u}

LogoFile(u, op) ==
    /\ upload[u] = NoWork
    /\ disk' = IF op = "logoSet" THEN disk \cup {Logo} ELSE disk \ {Logo}
    /\ Does(u, op, NoFile, NoFile)
    /\ crossed' = IF Alone(u) THEN crossed ELSE crossed \cup {"logo"}
    /\ UNCHANGED <<photo, logo, gallery, spare, hours, dropped>>

LogoRow(u) ==
    /\ upload[u].op \in {"logoSet", "logoClear"}
    /\ logo' = (upload[u].op = "logoSet")
    /\ crossed' = IF Alone(u) /\ Logo \in disk THEN crossed \ {"logo"} ELSE crossed
    /\ Ends(u)
    /\ UNCHANGED <<disk, photo, gallery, spare, hours, dropped>>

-----------------------------------------------------------------------------
(* The gallery: counted, then the file, then the row; removed, the file first *)

GalleryCount(u, f) ==
    /\ upload[u] = NoWork /\ f \in spare /\ Cardinality(gallery) < MaxGallery
    /\ Does(u, "galleryFile", NoFile, f)
    /\ spare' = spare \ {f}
    /\ UNCHANGED <<disk, photo, logo, gallery, hours, dropped, crossed>>

GalleryFile(u) ==
    /\ upload[u].op = "galleryFile"
    /\ disk' = disk \cup {upload[u].new}
    /\ Does(u, "galleryRow", NoFile, upload[u].new)
    /\ UNCHANGED <<photo, logo, gallery, spare, hours, dropped, crossed>>

GalleryRow(u) ==
    /\ upload[u].op = "galleryRow"
    /\ gallery' = gallery \cup {upload[u].new}
    /\ Ends(u)
    /\ UNCHANGED <<disk, photo, logo, spare, hours, dropped, crossed>>

GalleryUnlink(u, f) ==
    /\ upload[u] = NoWork /\ f \in gallery
    /\ disk' = disk \ {f}
    /\ dropped' = dropped \cup {f}
    /\ Does(u, "galleryDelete", f, NoFile)
    /\ UNCHANGED <<photo, logo, gallery, spare, hours, crossed>>

GalleryDelete(u) ==
    /\ upload[u].op = "galleryDelete"
    /\ gallery' = gallery \ {upload[u].old}
    /\ Ends(u)
    /\ UNCHANGED <<disk, photo, logo, spare, hours, dropped, crossed>>

-----------------------------------------------------------------------------
(* The hours: a transaction that deletes the rows it sees and inserts its own *)

HoursDelete(u) ==
    /\ upload[u] = NoWork
    /\ upload' = [upload EXCEPT ![u] = [NoWork EXCEPT !.op = "hours", !.saw = hours]]
    /\ UNCHANGED <<disk, photo, logo, gallery, spare, hours, dropped, crossed>>

\* What is left of the rows when the request commits.
Left(u) == hours \ upload[u].saw

\* One that committed since was not seen; its rows stay, next to these.
HoursCommit(u, week) ==
    /\ upload[u].op = "hours"
    /\ hours' = Left(u) \cup {<<u, i>> : i \in week}
    /\ crossed' = CASE Working("hours") # {u} -> crossed \cup {"hours"}
                    [] Working("hours") = {u} /\ Left(u) = {} -> crossed \ {"hours"}
                    [] OTHER -> crossed
    /\ upload' = [v \in Uploads |-> IF v = u THEN NoWork
                                   ELSE [upload[v] EXCEPT !.saw = @ \ upload[u].saw]]
    /\ UNCHANGED <<disk, photo, logo, gallery, spare, dropped>>

-----------------------------------------------------------------------------

\* The process of a request stops: what it did to disk and rows stays.
Stop(u) ==
    /\ upload[u] # NoWork
    /\ crossed' = IF upload[u].op = "logoClear" THEN crossed \cup {"logo"} ELSE crossed
    /\ Ends(u)
    /\ UNCHANGED <<disk, photo, logo, gallery, spare, hours, dropped>>

Init ==
    /\ disk = {} /\ photo = NoFile /\ logo = FALSE /\ gallery = {} /\ spare = Files
    /\ hours = {}
    /\ upload = [u \in Uploads |-> NoWork]
    /\ dropped = {} /\ crossed = {}

Next ==
    \/ \E u \in Uploads :
         \/ PhotoFile(u) \/ PhotoRow(u) \/ PhotoDelete(u) \/ LogoRow(u) \/ GalleryFile(u)
         \/ GalleryRow(u) \/ GalleryDelete(u) \/ HoursDelete(u) \/ Stop(u)
         \/ \E f \in Files \cup {NoFile} : PhotoStart(u, f)
         \/ \E f \in Files : GalleryCount(u, f) \/ GalleryUnlink(u, f)
         \/ \E op \in {"logoSet", "logoClear"} : LogoFile(u, op)
         \/ \E week \in WorkingWeeks : HoursCommit(u, week)

Spec == Init /\ [][Next]_showcaseVars

-----------------------------------------------------------------------------
(* Properties *)

\* What a page shows is on the disk, wherever a request stops or another passes it: a photo
\* always, the logo unless two requests about it crossed or its removal is under way or stopped
\* before the row was written, an image of the gallery until someone removes it (the file goes before
\* the row).
ShownFilesExist ==
    /\ photo # NoFile => photo \in disk
    /\ logo => Logo \in disk \/ Working("logoClear") # {} \/ "logo" \in crossed
    /\ gallery \subseteq disk \cup dropped

\* The intervals of a professional never overlap unless two requests replaced them at once: the
\* check is on the request's own intervals, and the second does not delete the first one's rows.
HoursOverlapOnlyIfRaced ==
    (\E x, y \in hours : Overlap(x[2], y[2])) => "hours" \in crossed
=============================================================================
