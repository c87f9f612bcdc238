------------------------------ MODULE Assets ------------------------------
(***************************************************************************)
(* Uploaded images: the record UploadedAsset beside the file at the        *)
(* provider, the documents that show an image, and the job that deletes    *)
(* what no document has taken, or has left.  Each kind of document takes   *)
(* its images in its own way:                                              *)
(*   "book", "review"  in the transaction that saves the document          *)
(*   "post"            likewise, but the old image is read before it;      *)
(*                     categories are saved the same way                   *)
(*   "return"          before the request is saved, and given back if it   *)
(*                     is not                                              *)
(*   "ticket"          after the ticket is saved, which is removed if that *)
(*                     fails                                               *)
(* An image is uploaded for one purpose and only documents of that kind    *)
(* take it, so a behaviour is about the images and documents of one kind.  *)
(* They have one owner: an image of another one is refused.  Dates are due *)
(* or not yet.                                                             *)
(***************************************************************************)
EXTENDS Naturals

CONSTANTS Images,    \* all uploads
          Documents, \* books, posts, reviews, return requests or tickets
          Requests,  \* handlers of posts, return requests and tickets
          Cleaners,  \* passes of the clean-up job
          MaxEdits,  \* bound: changes of a stored document
          MaxFailures, \* bound: passes that die or that the provider refuses
          Nil, Gone \* a document that is not there yet, or never again

Kinds == {"book", "review", "post", "return", "ticket"}

ASSUME AssetsAssumption ==
    /\ MaxEdits \in Nat /\ MaxFailures \in Nat
    /\ Nil \notin Documents \union Images /\ Gone # Nil

VARIABLES
    purpose, \* the kind of document and image
    files,   \* the images at the provider
    asset,   \* UploadedAsset: [status, entity, due]
    shown,   \* the images in each stored document; else Nil or Gone
    edits,   \* how often documents were changed
    req,     \* the requests: [at, doc, urls, legacy]
    cleaner, \* the passes of the job: [at, image]
    failures \* how often a pass failed

assetVars == <<purpose, files, asset, shown, edits, req, cleaner, failures>>

New(d) == shown[d] = Nil
Stored(d) == shown[d] \notin {Nil, Gone}

Recorded == {"temporary", "attached", "pending_delete", "deleting"}

Temporary == [status |-> "temporary", entity |-> Nil, due |-> FALSE]
Attached(d) == [status |-> "attached", entity |-> d, due |-> FALSE]
Queued(i) == [asset[i] EXCEPT !.status = "pending_delete", !.due = TRUE]
NoAsset == [status |-> "none", entity |-> Nil, due |-> FALSE]

(* Mutation: what is about to be deleted can be used again.                *)
MutMine(d) == {i \in Images : asset[i].status \in Recorded /\ asset[i].entity \in {Nil, d}}

(* The images that a document may take or keep.                            *)
Mine(d) == {i \in Images : /\ asset[i].status \in {"temporary", "attached"}
                           /\ asset[i].entity \in {Nil, d}}

----------------------------------------------------------------------------
(* Uploading                                                               *)

storeImage(i) ==
    /\ i \notin files /\ asset[i] = NoAsset
    /\ files' = files \union {i}
    /\ UNCHANGED <<purpose, asset, shown, edits, req, cleaner, failures>>

registerUploadedAsset(i) ==
    /\ i \in files /\ asset[i] = NoAsset
    /\ asset' = [asset EXCEPT ![i] = Temporary]
    /\ UNCHANGED <<purpose, files, shown, edits, req, cleaner, failures>>

registrationFails(i) ==
    /\ i \in files /\ asset[i] = NoAsset
    /\ files' = files \ {i}
    /\ UNCHANGED <<purpose, asset, shown, edits, req, cleaner, failures>>

----------------------------------------------------------------------------
(* Saving and deleting documents                                           *)

(* syncManagedAssets: what the document no longer shows is queued, what it *)
(* shows is attached to it.                                                *)
sync(d, urls) ==
    [i \in Images |->
        IF i \in urls /\ i \in Mine(d) THEN Attached(d)
        ELSE IF asset[i].entity = d /\ asset[i].status = "attached" /\ i \notin urls
             THEN Queued(i)
             ELSE asset[i]]

(* queueManagedAssetsForDeletion and queueRemovedReviewAssets: whatever    *)
(* the state it is in, even while it is being deleted.                     *)
queue(d, kept) ==
    [i \in Images |-> IF asset[i].entity = d /\ i \notin kept THEN Queued(i) ELSE asset[i]]

Edit == edits < MaxEdits /\ edits' = edits + 1

(* A book is created or changed; the old images are read in the same       *)
(* transaction and need no record.                                         *)
saveBook(d, urls) ==
    /\ \/ New(d) /\ urls \subseteq Mine(d) /\ UNCHANGED edits
       \/ Stored(d) /\ urls \subseteq Mine(d) \union shown[d] /\ Edit
    /\ asset' = sync(d, urls)
    /\ shown' = [shown EXCEPT ![d] = urls]
    /\ UNCHANGED <<purpose, files, req, cleaner, failures>>

(* A review claims all of its images anew.                                 *)
saveReview(d, urls) ==
    /\ urls \subseteq Mine(d)
    /\ \/ New(d) /\ UNCHANGED edits
       \/ Stored(d) /\ Edit
    /\ asset' = [i \in Images |-> IF i \in urls THEN Attached(d) ELSE queue(d, urls)[i]]
    /\ shown' = [shown EXCEPT ![d] = urls]
    /\ UNCHANGED <<purpose, files, req, cleaner, failures>>

createPost(d, urls) ==
    /\ New(d) /\ urls \subseteq Mine(d)
    /\ asset' = sync(d, urls)
    /\ shown' = [shown EXCEPT ![d] = urls]
    /\ UNCHANGED <<purpose, files, edits, req, cleaner, failures>>

deleteDocument(d) ==
    /\ Stored(d)
    /\ asset' = queue(d, {})
    /\ shown' = [shown EXCEPT ![d] = Gone]
    /\ UNCHANGED <<purpose, files, edits, req, cleaner, failures>>

----------------------------------------------------------------------------
(* Requests of more than one step                                          *)

IdleRequest == [at |-> "idle", doc |-> Nil, urls |-> {}, legacy |-> {}]

Goto(r, place) == req' = [req EXCEPT ![r].at = place]
Finish(r) == req' = [req EXCEPT ![r] = IdleRequest]

beginRequest(r, place, d, urls, legacy) ==
    /\ req[r] = IdleRequest
    /\ req' = [req EXCEPT ![r] = [at |-> place, doc |-> d, urls |-> urls, legacy |-> legacy]]

(* PUT of a post: the post is read and checked ...                         *)
readPost(r, d, urls) ==
    /\ Stored(d) /\ Edit
    /\ beginRequest(r, "savePost", d, urls, shown[d])
    /\ UNCHANGED <<purpose, files, asset, shown, cleaner, failures>>

(* ... and saved in a transaction, where the image that was read before is *)
(* accepted without a record.                                              *)
savePost(r) ==
    LET d == req[r].doc
    IN  /\ req[r].at = "savePost"
        /\ IF Stored(d) /\ req[r].urls \subseteq Mine(d) \union req[r].legacy
           THEN /\ asset' = sync(d, req[r].urls)
                /\ shown' = [shown EXCEPT ![d] = req[r].urls]
           ELSE UNCHANGED <<asset, shown>>
        /\ Finish(r)
        /\ UNCHANGED <<purpose, files, edits, cleaner, failures>>

(* claimReturnRequestAssets looks for the images first, for an id that is  *)
(* used for this request only ...                                          *)
findCandidates(r, d, urls) ==
    /\ New(d) /\ urls # {} /\ urls \subseteq Mine(d)
    /\ shown' = [shown EXCEPT ![d] = Gone]
    /\ beginRequest(r, "claim", d, urls, {})
    /\ UNCHANGED <<purpose, files, asset, edits, cleaner, failures>>

(* ... and then takes those that are still to be had.                      *)
claimAssets(r) ==
    LET d == req[r].doc
    IN  /\ req[r].at = "claim"
        /\ asset' = [i \in Images |-> IF i \in req[r].urls \intersect Mine(d)
                                      THEN Attached(d) ELSE asset[i]]
        /\ Goto(r, IF req[r].urls \subseteq Mine(d) THEN "create" ELSE "release")
        /\ UNCHANGED <<purpose, files, shown, edits, cleaner, failures>>

createReturn(r) ==
    /\ req[r].at = "create"
    /\ shown' = [shown EXCEPT ![req[r].doc] = req[r].urls]
    /\ Finish(r)
    /\ UNCHANGED <<purpose, files, asset, edits, cleaner, failures>>

(* The entitlement has changed since it was looked at.                     *)
returnRefused(r) ==
    /\ req[r].at = "create"
    /\ Goto(r, "release")
    /\ UNCHANGED <<purpose, files, asset, shown, edits, cleaner, failures>>

releaseClaims(r) ==
    LET d == req[r].doc
    IN  /\ req[r].at = "release"
        /\ asset' = [i \in Images |->
                        IF i \in req[r].urls /\ asset[i] = Attached(d) THEN Temporary
                        ELSE asset[i]]
        /\ Finish(r)
        /\ UNCHANGED <<purpose, files, shown, edits, cleaner, failures>>

(* The ticket is created before its images are looked at.                  *)
createTicket(r, d, urls) ==
    /\ New(d) /\ urls # {}
    /\ shown' = [shown EXCEPT ![d] = urls]
    /\ beginRequest(r, "find", d, urls, {})
    /\ UNCHANGED <<purpose, files, asset, edits, cleaner, failures>>

findManaged(r) ==
    /\ req[r].at = "find"
    /\ Goto(r, IF req[r].urls \subseteq Mine(req[r].doc) THEN "attach" ELSE "remove")
    /\ UNCHANGED <<purpose, files, asset, shown, edits, cleaner, failures>>

(* Nobody counts how many were attached.                                   *)
attachManaged(r) ==
    /\ req[r].at = "attach"
    /\ asset' = sync(req[r].doc, req[r].urls)
    /\ Finish(r)
    /\ UNCHANGED <<purpose, files, shown, edits, cleaner, failures>>

removeTicket(r) ==
    /\ req[r].at = "remove"
    /\ shown' = [shown EXCEPT ![req[r].doc] = Gone]
    /\ Finish(r)
    /\ UNCHANGED <<purpose, files, asset, edits, cleaner, failures>>

(* The process dies, or a claim cannot be released: that error is          *)
(* swallowed.                                                              *)
requestDies(r) ==
    /\ req[r] # IdleRequest
    /\ Finish(r)
    /\ UNCHANGED <<purpose, files, asset, shown, edits, cleaner, failures>>

----------------------------------------------------------------------------
(* Cleaning up                                                             *)

IdleCleaner == [at |-> "idle", image |-> Nil]

(* expiresAt, nextRetryAt or lockedUntil comes.                            *)
DateComes(i) ==
    /\ asset[i].status \in {"temporary", "pending_delete", "deleting"} /\ ~asset[i].due
    /\ asset' = [asset EXCEPT ![i].due = TRUE]
    /\ UNCHANGED <<purpose, files, shown, edits, req, cleaner, failures>>

(* Mutation: an expired lock is not taken over.                            *)
MutDue(i) == asset[i].status \in {"temporary", "pending_delete"} /\ asset[i].due

Due(i) == asset[i].status \in {"temporary", "pending_delete", "deleting"} /\ asset[i].due

claimDueAsset(c, i) ==
    /\ cleaner[c] = IdleCleaner /\ Due(i)
    /\ asset' = [asset EXCEPT ![i].status = "deleting", ![i].due = FALSE]
    /\ cleaner' = [cleaner EXCEPT ![c] = [at |-> "delete", image |-> i]]
    /\ UNCHANGED <<purpose, files, shown, edits, req, failures>>

Step(c, place) == cleaner' = [cleaner EXCEPT ![c].at = place]

(* A file that is not there counts as deleted.                             *)
deleteImage(c) ==
    /\ cleaner[c].at = "delete"
    /\ files' = files \ {cleaner[c].image}
    /\ Step(c, "deleted")
    /\ UNCHANGED <<purpose, asset, shown, edits, req, failures>>

(* The provider refuses, or its answer is lost.                            *)
deleteFails(c) ==
    /\ cleaner[c].at = "delete" /\ failures < MaxFailures
    /\ failures' = failures + 1
    /\ files' \in {files, files \ {cleaner[c].image}}
    /\ Step(c, "failed")
    /\ UNCHANGED <<purpose, asset, shown, edits, req>>

(* The record goes, or is queued again, if it is still being deleted: by   *)
(* this pass or by another one.                                            *)
finish(c) ==
    LET i == cleaner[c].image
    IN  /\ cleaner[c].at \in {"deleted", "failed"}
        /\ asset' = [asset EXCEPT ![i] =
                IF @.status # "deleting" THEN @
                ELSE IF cleaner[c].at = "deleted" THEN [NoAsset EXCEPT !.status = "gone"]
                ELSE [@ EXCEPT !.status = "pending_delete", !.due = FALSE]]
        /\ cleaner' = [cleaner EXCEPT ![c] = IdleCleaner]
        /\ UNCHANGED <<purpose, files, shown, edits, req, failures>>

cleanerDies(c) ==
    /\ cleaner[c] # IdleCleaner /\ failures < MaxFailures
    /\ failures' = failures + 1
    /\ cleaner' = [cleaner EXCEPT ![c] = IdleCleaner]
    /\ UNCHANGED <<purpose, files, asset, shown, edits, req>>

----------------------------------------------------------------------------
AssetsInit ==
    /\ purpose \in Kinds
    /\ files = {}
    /\ asset = [i \in Images |-> NoAsset]
    /\ shown = [d \in Documents |-> Nil]
    /\ edits = 0
    /\ req = [r \in Requests |-> IdleRequest]
    /\ cleaner = [c \in Cleaners |-> IdleCleaner]
    /\ failures = 0

Upload == \E i \in Images : storeImage(i) \/ registerUploadedAsset(i) \/ registrationFails(i)

Document(d) ==
    \/ \E urls \in SUBSET Images :
          \/ purpose = "book" /\ saveBook(d, urls)
          \/ purpose = "review" /\ saveReview(d, urls)
          \/ purpose = "post" /\ createPost(d, urls)
          \/ \E r \in Requests : \/ purpose = "post" /\ readPost(r, d, urls)
                                 \/ purpose = "return" /\ findCandidates(r, d, urls)
                                 \/ purpose = "ticket" /\ createTicket(r, d, urls)
    \/ purpose \in {"book", "review", "post"} /\ deleteDocument(d)

Request(r) ==
    \/ savePost(r)
    \/ claimAssets(r) \/ createReturn(r) \/ returnRefused(r) \/ releaseClaims(r)
    \/ findManaged(r) \/ attachManaged(r) \/ removeTicket(r)
    \/ requestDies(r)

Pass ==
    \E c \in Cleaners : \/ \E i \in Images : claimDueAsset(c, i)
                       \/ deleteImage(c) \/ finish(c)

CleanUp ==
    \/ Pass
    \/ \E i \in Images : DateComes(i)
    \/ \E c \in Cleaners : deleteFails(c) \/ cleanerDies(c)

AssetsNext ==
    \/ Upload \/ CleanUp
    \/ \E d \in Documents : Document(d)
    \/ \E r \in Requests : Request(r)

AssetsSpec == AssetsInit /\ [][AssetsNext]_assetVars

(* The job looks for due images every minute and its passes carry on; a    *)
(* request goes on, if only to die.                                        *)
AssetsFairness ==
    /\ \A i \in Images : WF_assetVars(DateComes(i))
    /\ WF_assetVars(Pass)
    /\ \A r \in Requests : WF_assetVars(Request(r))

AssetsFairSpec == AssetsSpec /\ AssetsFairness

----------------------------------------------------------------------------
(* Properties                                                              *)

(* An image that a stored document shows is there, and its record says     *)
(* that the document has it, so that the job leaves it alone: whatever     *)
(* expires, is queued, claimed and released at the same time.              *)
Keeps(d) ==
    Stored(d) => \A i \in shown[d] : i \in files /\ asset[i] = Attached(d)

UsedImageIsKept ==
    purpose \in {"book", "review", "return"} => \A d \in Documents : Keeps(d)

Shown(i) == \E d \in Documents : Stored(d) /\ i \in shown[d]

(* Claimed for a return request that was never stored and that nobody is   *)
(* working on any more: its handler died, or could not release the claim.  *)
Stranded(i) ==
    /\ purpose = "return" /\ asset[i].status = "attached"
    /\ ~Stored(asset[i].entity)
    /\ \A r \in Requests : req[r].doc # asset[i].entity

(* A recorded image that no stored document shows, because it was uploaded *)
(* for nothing, is no longer shown or went with its document, is deleted   *)
(* in the end, record and file, unless a document takes it: through        *)
(* failures of the provider, passes and requests that die and locks that   *)
(* are taken over.  The one exception is a stranded claim, which no job    *)
(* looks for.  (Nor for a file whose upload died before its record was     *)
(* made: the property is about recorded images.)                           *)
UnusedImageGoes ==
    \A i \in Images :
        asset[i].status \in Recorded /\ ~Shown(i) ~>
            (Shown(i) \/ Stranded(i) \/ (asset[i].status = "gone" /\ i \notin files))
============================================================================
