----------------------------- MODULE Workspaces -----------------------------
(***************************************************************************)
(* The files of workspaces: workspaces.rs (migrate, delete, list, usage),  *)
(* the workspace command, and what shell::init does with them.             *)
(*                                                                         *)
(* An older sn0int kept the database of a workspace in <name>.db and its   *)
(* blobs in blobs/<name>; they are moved to data/<name> before they are    *)
(* used.  Every call into the file system is a step of its own, several    *)
(* processes may make them on the same workspace, and a process may end    *)
(* between any two.                                                        *)
(***************************************************************************)
EXTENDS FiniteSets

CONSTANTS
  Procs,   \* sn0int processes
  Names,   \* names of workspaces
  Things,  \* what scripts store: rows in the database, blobs in the folder
  None     \* a file or folder that does not exist, a shell that has not started

WorkspacesAssumption == None \notin Names

VARIABLES
  old,    \* the old layout: the things in <name>.db and in blobs/<name>
  new,    \* data/<name>: whether it exists, the things in db.sqlite and in blobs/
  open,   \* the workspace a process has open
  pc,     \* the call each process makes next
  arg,    \* the workspace of its command
  cmd,    \* its command
  names,  \* what list has found
  kept,   \* observation: what was stored since something was deleted
  still   \* observation: the workspaces nobody has touched while a process lists

files == <<old, new, kept>>
vars == <<files, open, pc, arg, cmd, names, still>>

Content == {None} \cup SUBSET Things
Absent == [db |-> None, blobs |-> None]
NoDir == [there |-> FALSE, db |-> None, blobs |-> None]
Dir(w) == [new[w] EXCEPT !.there = TRUE]           \* create_dir_all
Parts == {"db", "blobs"}

(* A workspace is in the old layout, in the new one, or does not exist.     *)
Init ==
  /\ \E layout \in [Names -> {"old", "new", "none"}], early \in SUBSET Things :
       /\ old = [w \in Names |-> IF layout[w] = "old" THEN [db |-> early, blobs |-> early]
                                 ELSE Absent]
       /\ new = [w \in Names |-> IF layout[w] = "new"
                                 THEN [there |-> TRUE, db |-> early, blobs |-> early]
                                 ELSE NoDir]
       /\ kept = [w \in Names |-> [part \in Parts |->
                                     IF layout[w] = "none" THEN {} ELSE early]]
  /\ open = [p \in Procs |-> None]
  /\ pc = [p \in Procs |-> "idle"]
  /\ arg = [p \in Procs |-> None]
  /\ cmd = [p \in Procs |-> "none"]
  /\ names = [p \in Procs |-> {}]
  /\ still = [p \in Procs |-> {}]

Goto(p, l) == pc' = [pc EXCEPT ![p] = l]
Quiet == UNCHANGED <<names, still>>

(* The command is over, as it should be or with an error.                   *)
Ends(p) ==
  /\ Goto(p, "idle")
  /\ arg' = [arg EXCEPT ![p] = None]
  /\ cmd' = [cmd EXCEPT ![p] = "none"]

(* A step that moves or removes a part of w: whoever lists now may miss it. *)
Touches(w) == still' = [p \in Procs |-> still[p] \ {w}] /\ UNCHANGED names

-----------------------------------------------------------------------------
(* workspace <w>, workspace --delete <w>, and starting sn0int in w: each    *)
(* begins with migrate.  A shell does not delete the workspace it is in.    *)
CommandAt(p, c, w, first) ==
  /\ pc[p] = "idle"
  /\ c = "delete" => open[p] # w
  /\ Goto(p, first)
  /\ arg' = [arg EXCEPT ![p] = w]
  /\ cmd' = [cmd EXCEPT ![p] = c]
  /\ UNCHANGED <<files, open>> /\ Quiet

MutOpenDoesNotMigrate(p, c, w) == CommandAt(p, c, w, IF c = "open" THEN "establish" ELSE "db")
MutDeleteDoesNotMigrate(p, c, w) == CommandAt(p, c, w, IF c = "delete" THEN "scan" ELSE "db")
Command(p, c, w) == CommandAt(p, c, w, "db")

Migrated(p) == Goto(p, IF cmd[p] = "open" THEN "establish" ELSE "scan")

(* old_db.exists(), old_blobs.exists(): the folder is made when they do.    *)
Exists(p, part, moves, skips) ==
  /\ IF old[arg[p]][part] # None
     THEN new' = [new EXCEPT ![arg[p]] = Dir(arg[p])] /\ moves
     ELSE UNCHANGED new /\ skips
  /\ UNCHANGED <<old, kept, open, arg, cmd>> /\ Quiet

MutFindDbReturns(p) == pc[p] = "db" /\ Exists(p, "db", Goto(p, "movedb"), Migrated(p))
FindDb(p) == pc[p] = "db" /\ Exists(p, "db", Goto(p, "movedb"), Goto(p, "blobs"))
FindBlobs(p) == pc[p] = "blobs" /\ Exists(p, "blobs", Goto(p, "moveblobs"), Migrated(p))

(* fs::rename fails when the old path or the folder is gone, replaces a     *)
(* file, and replaces a folder only when it is empty.                       *)
Rename(p, part, moved) ==
  LET w == arg[p]
      fails == \/ old[w][part] = None \/ ~new[w].there
               \/ part = "blobs" /\ new[w].blobs \notin {None, {}}
  IN  \/ /\ fails
         /\ Ends(p)
         /\ UNCHANGED <<files, open>> /\ Quiet
      \/ /\ ~fails
         /\ new' = [new EXCEPT ![w][part] = old[w][part]]
         /\ old' = [old EXCEPT ![w][part] = None]
         /\ moved
         /\ UNCHANGED <<kept, open, arg, cmd>> /\ Touches(w)

MoveDb(p) == pc[p] = "movedb" /\ Rename(p, "db", Goto(p, "blobs"))
MoveBlobs(p) == pc[p] = "moveblobs" /\ Rename(p, "blobs", Migrated(p))

(* BlobStorage::workspace and Database::establish make what is not there.   *)
Create(w, part) == IF new[w][part] = None THEN {} ELSE new[w][part]

Establish(p) ==
  /\ pc[p] = "establish"
  /\ new' = [new EXCEPT ![arg[p]] = [there |-> TRUE, db |-> Create(arg[p], "db"),
                                     blobs |-> Create(arg[p], "blobs")]]
  /\ open' = [open EXCEPT ![p] = arg[p]]
  /\ Ends(p)
  /\ UNCHANGED <<old, kept>> /\ Quiet

(* delete: remove_dir_all reads the folder, removes what it has found, and  *)
(* fails when something else has appeared in it.  Who has the workspace     *)
(* open keeps a database that has no name any more.                         *)
Scan(p) ==
  /\ pc[p] = "scan"
  /\ new' = [new EXCEPT ![arg[p]] = Dir(arg[p])]
  /\ Goto(p, "remove")
  /\ UNCHANGED <<old, kept, open, arg, cmd>> /\ Quiet

RemovePart(p, part) ==
  LET w == arg[p] IN
  /\ pc[p] = "remove"
  /\ new[w][part] # None
  /\ new' = [new EXCEPT ![w][part] = None]
  /\ kept' = [kept EXCEPT ![w][part] = {}]
  /\ open' = [x \in Procs |-> IF part = "db" /\ open[x] = w THEN None ELSE open[x]]
  /\ UNCHANGED <<old, pc, arg, cmd>> /\ Touches(w)

RemoveDir(p) ==
  LET w == arg[p] IN
  /\ pc[p] = "remove"
  /\ new' = IF new[w].db = None /\ new[w].blobs = None THEN [new EXCEPT ![w] = NoDir] ELSE new
  /\ Ends(p)
  /\ UNCHANGED <<old, kept, open>> /\ Touches(w)

(* workspace --usage: the folders are made, also those of a workspace in    *)
(* the old layout or of none at all; without a database it is an error.     *)
Usage(p, w) ==
  /\ pc[p] = "idle"
  /\ new' = [new EXCEPT ![w] = [@ EXCEPT !.there = TRUE, !.blobs = Create(w, "blobs")]]
  /\ UNCHANGED <<old, kept, open, pc, arg, cmd>> /\ Quiet

(* workspaces::list: the folders of data/, then the *.db of the old layout. *)
InData == {w \in Names : new[w].there}
InOld == {w \in Names : old[w].db # None}

List(p) ==
  /\ pc[p] = "idle"
  /\ names' = [names EXCEPT ![p] = InData]
  /\ still' = [still EXCEPT ![p] = InData \cup InOld]
  /\ Goto(p, "list")
  /\ UNCHANGED <<files, open, arg, cmd>>

ListOld(p) ==
  /\ pc[p] = "list"
  /\ names' = [names EXCEPT ![p] = @ \cup InOld]
  /\ Goto(p, "listed")
  /\ UNCHANGED <<files, open, arg, cmd, still>>

Listed(p) ==
  /\ pc[p] = "listed"
  /\ Ends(p)
  /\ names' = [names EXCEPT ![p] = {}]
  /\ still' = [still EXCEPT ![p] = {}]
  /\ UNCHANGED <<files, open>>

(* A script stores something in the workspace that is open.  Blobs go into  *)
(* the folder, wherever the database is.                                    *)
Store(p, part, x) ==
  LET w == open[p] IN
  /\ pc[p] = "idle"
  /\ w # None /\ new[w][part] # None
  /\ new' = [new EXCEPT ![w][part] = @ \cup {x}]
  /\ kept' = [kept EXCEPT ![w][part] = @ \cup {x}]
  /\ UNCHANGED <<old, open, pc, arg, cmd>> /\ Quiet

(* The process ends, at any point.                                          *)
Dies(p) ==
  /\ open' = [open EXCEPT ![p] = None]
  /\ Ends(p)
  /\ names' = [names EXCEPT ![p] = {}]
  /\ still' = [still EXCEPT ![p] = {}]
  /\ UNCHANGED files

Step(p) ==
  \/ FindDb(p) \/ MoveDb(p) \/ FindBlobs(p) \/ MoveBlobs(p) \/ Establish(p)
  \/ Scan(p) \/ RemoveDir(p) \/ (\E part \in Parts : RemovePart(p, part))
  \/ List(p) \/ ListOld(p) \/ Listed(p)
  \/ Dies(p)

Next ==
  \E p \in Procs :
    \/ \E w \in Names : (\E c \in {"open", "delete"} : Command(p, c, w)) \/ Usage(p, w)
    \/ \E part \in Parts, x \in Things : Store(p, part, x)
    \/ Step(p)

Spec == Init /\ [][Next]_vars

-----------------------------------------------------------------------------
(* Properties.                                                              *)

(* Until it is deleted, what was stored in a workspace is in one of its two *)
(* layouts, whoever moves it at the same time and wherever a process dies:  *)
(* rename replaces a database that exists, so that none may be made for a   *)
(* workspace whose old one is still to be moved.  And list shows every      *)
(* workspace, in whichever layout, that nobody moves or deletes meanwhile.  *)
NothingLost ==
  /\ \A w \in Names, part \in Parts :
       kept[w][part] \subseteq UNION ({old[w][part], new[w][part]} \ {None})
  /\ \A p \in Procs : pc[p] = "listed" => still[p] \subseteq names[p]

(* A shell works on a workspace of which nothing is left in the old layout: *)
(* also when the process that began to move it died half-way.               *)
OpenIsMigrated == \A p \in Procs : open[p] # None => old[open[p]] = Absent

(* delete ends with the folder gone only when no old file is left that      *)
(* would bring the workspace back.                                          *)
DeletedIsGone ==
  [][\A w \in Names : new[w].there /\ ~new'[w].there => old'[w] = Absent]_vars
=============================================================================
