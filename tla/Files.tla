-------------------------------- MODULE Files --------------------------------
(* The files of one professional (uploads.service, local-storage.service):  *)
(* his photo, the two sides of his identity document, his other documents.  *)
(* A file is stored under a name nothing had before.                        *)
EXTENDS Service

CONSTANTS FileIds           \* names of files, in the order they are taken

ASSUME FilesAssumption == FileIds \subseteq Nat \ {0}

VARIABLES
    stored,         \* files in the storage
    taken,          \* names used so far
    photo,          \* ProfessionalProfile.photo, 0 for none
    front, back,    \* identityFrontUrl, identityBackUrl
    documents,      \* Document: the file of each row
    parted          \* history: files that a failure or a stale write parted from their URL

fileVars == <<stored, taken, photo, front, back, documents, parted>>

Urls == FileIds \cup {0}

FilesTypeOK ==
    /\ stored \subseteq taken /\ taken \subseteq FileIds
    /\ {photo, front, back} \subseteq Urls
    /\ documents \subseteq taken /\ parted \subseteq taken

FilesInit ==
    /\ stored = {} /\ taken = {} /\ photo = 0 /\ front = 0 /\ back = 0
    /\ documents = {} /\ parted = {}

(* What is asked for by its URL: the photo, a side of the identity document *)
GetPhotoFile == {photo} \ {0}
GetIdentityFile(side) == {IF side = "front" THEN front ELSE back} \ {0}
GetIdentityFiles == GetIdentityFile("front") \cup GetIdentityFile("back")

(* LocalStorageService.upload, delete: a file that is gone is no error *)
Stores(f) == f \in Fresh(FileIds, taken) /\ stored' = stored \cup {f} /\ taken' = taken \cup {f}

Removes(files) == stored' = stored \ files /\ UNCHANGED taken

(* A handler holds the files it has deleted ("old") or stored ("new") until *)
(* it has written their URLs.                                               *)
Tasks == {"photo", "deletePhoto", "identity", "approval", "document", "deleteDocument"}

InHand(h) ==
    IF call[h].op \in Tasks /\ call[h].at # "old" THEN call[h].old \cup call[h].new ELSE {}

Task(op, old) == [op |-> op, at |-> "old", old |-> old, new |-> {}]

(* The storage or the database fails, the account is removed meanwhile, or  *)
(* the server stops: the handler goes no further.                           *)
CutShort(h) ==
    /\ Offered("outage") /\ Ends(h, Tasks)
    /\ parted' = parted \cup InHand(h)
    /\ UNCHANGED <<stored, taken, photo, front, back, documents>>

(* URLs are written over whatever the row names by now. *)
Overwrites(h, urls) == parted' = parted \cup (urls \ call[h].old)

-----------------------------------------------------------------------------
(* uploadPhoto, and adminUploadPhoto: read, delete, store, write            *)

PhotoReads(h) ==
    /\ Takes(h, Task("photo", GetPhotoFile))
    /\ UNCHANGED fileVars

PhotoDeletesOld(h) ==
    /\ call[h].op = "photo" /\ call[h].at = "old"
    /\ Removes(call[h].old)
    /\ GoesOn(h, "photo", [call[h] EXCEPT !.at = "new"])
    /\ UNCHANGED <<photo, front, back, documents, parted>>

PhotoStores(h) ==
    /\ call[h].op = "photo" /\ call[h].at = "new"
    /\ \E f \in FileIds : Stores(f) /\ GoesOn(h, "photo", [call[h] EXCEPT !.at = "save", !.new = {f}])
    /\ UNCHANGED <<photo, front, back, documents, parted>>

PhotoSaves(h) ==
    /\ call[h].op = "photo" /\ call[h].at = "save" /\ Ends(h, {"photo"})
    /\ \E f \in call[h].new : photo' = f
    /\ Overwrites(h, GetPhotoFile)
    /\ UNCHANGED <<stored, taken, front, back, documents>>

(* deletePhoto *)
DeletePhotoReads(h) ==
    /\ Takes(h, Task("deletePhoto", GetPhotoFile))
    /\ photo # 0 /\ UNCHANGED fileVars

DeletePhotoFile(h) ==
    /\ call[h].op = "deletePhoto" /\ call[h].at = "old"
    /\ Removes(call[h].old)
    /\ GoesOn(h, "deletePhoto", [call[h] EXCEPT !.at = "save"])
    /\ UNCHANGED <<photo, front, back, documents, parted>>

DeletePhotoSaves(h) ==
    /\ call[h].op = "deletePhoto" /\ call[h].at = "save" /\ Ends(h, {"deletePhoto"})
    /\ photo' = 0 /\ Overwrites(h, GetPhotoFile)
    /\ UNCHANGED <<stored, taken, front, back, documents>>

-----------------------------------------------------------------------------
(* uploadIdentity: the two old files go one after the other, the two new    *)
(* ones are stored, and the profile is written                              *)

IdentityReads(h) ==
    /\ Takes(h, Task("identity", GetIdentityFiles))
    /\ UNCHANGED fileVars

(* What is left of a deletion cut between the two files has its URL still.  *)
IdentityDeletesOld(h) ==
    /\ call[h].op = "identity" /\ call[h].at = "old"
    /\ \/ /\ Removes(call[h].old)
          /\ GoesOn(h, "identity", [call[h] EXCEPT !.at = "front"])
          /\ UNCHANGED parted
       \/ /\ Offered("outage") /\ Ends(h, {"identity"})
          /\ \E f \in call[h].old : Removes({f}) /\ parted' = parted \cup {f}
    /\ UNCHANGED <<photo, front, back, documents>>

IdentityStores(h) ==
    /\ call[h].op = "identity"
    /\ \E f \in FileIds :
         /\ Stores(f)
         /\ \/ call[h].at = "front" /\ GoesOn(h, "identity", [call[h] EXCEPT !.at = "back", !.new = {f}])
            \/ call[h].at = "back"  /\ GoesOn(h, "identity", [call[h] EXCEPT !.at = "save", !.new = @ \cup {f}])
    /\ UNCHANGED <<photo, front, back, documents, parted>>

(* A profile written with the front that was read *)
IdentitySavesBack(h) ==
    /\ call[h].op = "identity" /\ call[h].at = "save" /\ Ends(h, {"identity"})
    /\ \E b \in call[h].new : (\A f \in call[h].new : f <= b) /\ back' = b
    /\ Overwrites(h, GetIdentityFile("back"))
    /\ UNCHANGED <<stored, taken, photo, front, documents>>

(* The back was stored last. *)
IdentitySaves(h) ==
    /\ call[h].op = "identity" /\ call[h].at = "save" /\ Ends(h, {"identity"})
    /\ \E f, b \in call[h].new : f < b /\ front' = f /\ back' = b
    /\ Overwrites(h, GetIdentityFiles)
    /\ UNCHANGED <<stored, taken, photo, documents>>

(* An approval erases the two it read at its start (_deleteIdentityFiles):  *)
(* what cannot be deleted is let go (allSettled), and the URLs are cleared  *)
(* all the same.                                                            *)
ApprovalReads(h) ==
    /\ Takes(h, Task("approval", GetIdentityFiles))
    /\ UNCHANGED fileVars

DeleteIdentityFiles(h) ==
    /\ call[h].op = "approval" /\ call[h].at = "old"
    /\ \E files \in SUBSET call[h].old :
         /\ files = call[h].old \/ Offered("outage")
         /\ Removes(files) /\ parted' = parted \cup (call[h].old \ files)
    /\ GoesOn(h, "approval", [call[h] EXCEPT !.at = "save"])
    /\ UNCHANGED <<photo, front, back, documents>>

IdentityCleared(h) ==
    /\ call[h].op = "approval" /\ call[h].at = "save" /\ Ends(h, {"approval"})
    /\ IF call[h].old = {} THEN UNCHANGED <<front, back, parted>>
       ELSE front' = 0 /\ back' = 0 /\ Overwrites(h, GetIdentityFiles)
    /\ UNCHANGED <<stored, taken, photo, documents>>

-----------------------------------------------------------------------------
(* uploadDocument: stored, then a row; deleteDocument: the file, then the   *)
(* row                                                                      *)
DocumentStores(h) ==
    /\ \E f \in FileIds : Stores(f) /\ Takes(h, [op |-> "document", at |-> "save", old |-> {}, new |-> {f}])
    /\ UNCHANGED <<photo, front, back, documents, parted>>

DocumentSaves(h) ==
    /\ Ends(h, {"document"}) /\ documents' = documents \cup call[h].new
    /\ UNCHANGED <<stored, taken, photo, front, back, parted>>

DeleteDocumentFile(h, f) ==
    /\ Takes(h, [op |-> "deleteDocument", at |-> "save", old |-> {f}, new |-> {}])
    /\ f \in documents /\ Removes({f})
    /\ UNCHANGED <<photo, front, back, documents, parted>>

DeleteDocument(h) ==
    /\ Ends(h, {"deleteDocument"}) /\ documents' = documents \ call[h].old
    /\ UNCHANGED <<stored, taken, photo, front, back, parted>>

-----------------------------------------------------------------------------
FilesNext ==
    \E h \in Handlers :
        \/ CutShort(h)
        \/ PhotoReads(h) \/ PhotoDeletesOld(h) \/ PhotoStores(h) \/ PhotoSaves(h)
        \/ DeletePhotoReads(h) \/ DeletePhotoFile(h) \/ DeletePhotoSaves(h)
        \/ IdentityReads(h) \/ IdentityDeletesOld(h) \/ IdentityStores(h) \/ IdentitySaves(h)
        \/ ApprovalReads(h) \/ DeleteIdentityFiles(h) \/ IdentityCleared(h)
        \/ DocumentStores(h) \/ DocumentSaves(h) \/ DeleteDocument(h)
        \/ \E f \in FileIds : DeleteDocumentFile(h, f)

FilesSpec == FilesInit /\ ServiceInit /\ [][FilesNext]_<<fileVars, serviceVars>>

-----------------------------------------------------------------------------
(* A file is in the storage exactly when a URL names it - the photo, a side *)
(* of the identity document, a document - but for the files a handler that  *)
(* has not written yet holds, and for those that were parted: by a failure  *)
(* or a stop between the file and the row (the old file is gone and its URL *)
(* stays, the new file stays without a URL), by a deletion at the approval  *)
(* that failed, or by a handler that wrote over a URL it had not read.  The *)
(* next upload or deletion of a photo heals its URL, and an identity file   *)
(* without a URL is one that no approval will erase (uploads.service,       *)
(* admin.service _deleteIdentityFiles).                                     *)
FilesMatchUrls ==
    LET named == GetPhotoFile \cup GetIdentityFiles \cup documents
        settled == parted \cup UNION {InHand(h) : h \in Handlers}
    IN named \ settled = stored \ settled
=============================================================================
