------------------------------ MODULE Storage -------------------------------
(***************************************************************************)
(* Images and their blobs: blobs.rs, persist_blob of engine/ctx.rs, the    *)
(* add image command and fsck, on top of the images table of Database.  A  *)
(* blob is a file named by the hash of its content; it is written before   *)
(* the row that refers to it, and fsck removes files no row refers to.     *)
(***************************************************************************)
EXTENDS Database

ASSUME StorageAssumption == "images" \in Tables

VARIABLES
  blobs,   \* the file of each blob: "none", "torn" or "ok"
  want,    \* the image a process is about to store: its request, and at
  fsck,    \* fsck of a process: the references it has read and what is left
  raced    \* observation: blobs whose image was being added during an fsck,
           \* or whose file was cut short

storageVars == <<blobs, want, fsck, raced>>
allVars == <<vars, storageVars>>

NoImage == [at |-> "none"]
NoFsck == [at |-> "none"]

StorageInit ==
  /\ Init
  /\ blobs = [k \in Keys |-> "none"]
  /\ want = [p \in Procs |-> NoImage]
  /\ fsck = [p \in Procs |-> NoFsck]
  /\ raced = {}

Free(p) == pc[p] = "idle" /\ want[p] = NoImage /\ fsck[p] = NoFsck

(* Blobs of images that are being added.                                    *)
Pending == {want[p].image.key : p \in {x \in Procs : want[x] # NoImage}}
           \cup {q[p].key : p \in {x \in Procs : pc[x] \in {"lookup", "insert"}}}
Overlap == IF \E p \in Procs : fsck[p] # NoFsck THEN Pending ELSE {}
Observe(before) == raced' = before \cup Overlap'

-----------------------------------------------------------------------------
(* db_add of an image, and add image: persist_blob, then the insert.        *)
AddImage(p, o) ==
  /\ Free(p)
  /\ want' = [want EXCEPT ![p] = [at |-> "open", image |-> o]]
  /\ UNCHANGED <<vars, blobs, fsck>>
  /\ Observe(raced)

Write(p, content, at) ==
  /\ blobs' = [blobs EXCEPT ![want[p].image.key] = content]
  /\ want' = [want EXCEPT ![p].at = at]
  /\ UNCHANGED <<vars, fsck>>

(* BlobStorage::save: fs::write truncates the file, also one that has the   *)
(* content already, and then writes it.                                     *)
SaveOpen(p) ==
  /\ want[p].at = "open"
  /\ Write(p, "torn", "write")
  /\ Observe(raced)

(* A file that was removed meanwhile is not there again.                    *)
SaveWrite(p) ==
  /\ want[p].at = "write"
  /\ Write(p, IF blobs[want[p].image.key] = "none" THEN "none" ELSE "ok", "insert")
  /\ Observe({k \in raced : blobs'[k] # "ok" \/ k # want[p].image.key})

(* The write fails or the process dies.                                     *)
SaveCut(p) ==
  /\ Failures /\ want[p].at = "write"
  /\ want' = [want EXCEPT ![p] = NoImage]
  /\ UNCHANGED <<vars, blobs, fsck>>
  /\ Observe(raced \cup {want[p].image.key})

InsertImage(p) ==
  /\ want[p].at = "insert"
  /\ Insert(p, want[p].image)
  /\ want' = [want EXCEPT ![p] = NoImage]
  /\ UNCHANGED <<blobs, fsck>>
  /\ Observe(raced)

-----------------------------------------------------------------------------
MutRefsScoped == {r.key : r \in {x \in rows : ~x.unscoped}}
(* db.list::<Image>: every image is a reference, out of scope or not.       *)
References == {r.key : r \in rows}

(* fsck --gc or --gc-all; without them nothing is deleted.                  *)
FsckRefs(p, all) ==
  /\ Free(p)
  /\ fsck' = [fsck EXCEPT ![p] = [at |-> "list", all |-> all, refs |-> References,
                                  todo |-> {}, doomed |-> {}]]
  /\ UNCHANGED <<vars, blobs, want>>
  /\ Observe(raced)

Files == {k \in Keys : blobs[k] # "none"}

FsckList(p) ==
  /\ fsck[p].at = "list"
  /\ fsck' = [fsck EXCEPT ![p].at = "check", ![p].todo = Files]
  /\ UNCHANGED <<vars, blobs, want>>
  /\ Observe(raced)

Corrupted(k) == blobs[k] = "torn"
Dangling(k, f) == blobs[k] = "ok" /\ k \notin f.refs

(* A blob that cannot be loaded is only reported.                           *)
FsckCheck(p, k) ==
  /\ fsck[p].at = "check" /\ k \in fsck[p].todo /\ fsck[p].doomed = {}
  /\ fsck' = [fsck EXCEPT
       ![p].todo = @ \ {k},
       ![p].doomed = IF Dangling(k, fsck[p]) \/ (Corrupted(k) /\ fsck[p].all) THEN {k} ELSE {}]
  /\ UNCHANGED <<vars, blobs, want>>
  /\ Observe(raced)

(* The deletion fails, and ends the command, when the file is gone.         *)
FsckDelete(p) ==
  /\ fsck[p].at = "check" /\ fsck[p].doomed # {}
  /\ blobs' = [k \in Keys |-> IF k \in fsck[p].doomed THEN "none" ELSE blobs[k]]
  /\ fsck' = [fsck EXCEPT ![p] = IF fsck[p].doomed \subseteq Files THEN [@ EXCEPT !.doomed = {}]
                                 ELSE NoFsck]
  /\ UNCHANGED <<vars, want>>
  /\ Observe(raced)

FsckDone(p) ==
  /\ fsck[p].at = "check" /\ fsck[p].todo = {} /\ fsck[p].doomed = {}
  /\ fsck' = [fsck EXCEPT ![p] = NoFsck]
  /\ UNCHANGED <<vars, blobs, want>>
  /\ Observe(raced)

(* The statements of Database.  The clock stands still: a reaped image goes *)
(* the way of a deleted one.                                                *)
DatabaseStep(p) ==
  /\ want[p] = NoImage /\ fsck[p] = NoFsck
  /\ Statement(p)
  /\ UNCHANGED <<blobs, want, fsck>>
  /\ Observe(raced)

StorageNext ==
  \E p \in Procs :
    \/ \E o \in Requests({"images"}) : AddImage(p, o)
    \/ SaveOpen(p) \/ SaveWrite(p) \/ SaveCut(p) \/ InsertImage(p)
    \/ \E all \in BOOLEAN : FsckRefs(p, all)
    \/ FsckList(p) \/ FsckDelete(p) \/ FsckDone(p)
    \/ \E k \in Keys : FsckCheck(p, k)
    \/ DatabaseStep(p)

StorageSpec == StorageInit /\ [][StorageNext]_allVars

-----------------------------------------------------------------------------
Writing(k) == \E p \in Procs : want[p].at = "write" /\ want[p].image.key = k

(* Every image in the database has its blob, in or out of scope, however    *)
(* often fsck has collected and images were deleted and added again, unless *)
(* the file is just being written again, an fsck was running while the      *)
(* image was being added or the write of its file was cut short.            *)
ImagesHaveBlobs ==
  \A r \in rows : r.table = "images" => blobs[r.key] = "ok" \/ Writing(r.key) \/ r.key \in raced
=============================================================================
