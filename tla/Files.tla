------------------------------- MODULE Files -------------------------------
(***************************************************************************)
(* Uploaded files: rows with versions in the database, contents as objects *)
(* in a store (a directory or a bucket), and their attachment to one       *)
(* message.  An upload is a chain over both: put the object, write the     *)
(* rows, attach the file; what fails late undoes the object, not the rows. *)
(* A handler serves one request, from its checks to its answer; keys of    *)
(* objects are random and never used twice.                                *)
(***************************************************************************)
EXTENDS Naturals, FiniteSets

CONSTANTS
    Keys,           \* keys of objects
    FileIds,        \* ids of files
    FileHandlers,   \* handlers of requests
    MaxFileFaults,  \* bound on failing statements and store calls, and on stops
    NoFile

VARIABLES
    fileRow,    \* id -> row of files with its file_versions
    stored,     \* the objects in the store
    usedKeys,   \* the keys that were handed out
    attached,   \* files attached to the message
    marked,     \* the message's has_attachments
    messageUp,  \* the message is not deleted
    inChannel,  \* the reader is a member of the message's channel
    request,    \* handler -> what it is about
    fileFaults,
    spoiled,    \* history: files whose object was undone although the rows stayed
    orphans     \* history: objects no row got, left by a fault

fileVars == <<fileRow, stored, usedKeys, attached, marked, messageUp, inChannel,
              request, fileFaults, spoiled, orphans>>

FileRows == [object : Keys, versions : SUBSET [number : 1..Cardinality(Keys), key : Keys]]

ASSUME FileAssumption == /\ IsFiniteSet(Keys) /\ MaxFileFaults \in Nat
                         /\ NoFile \notin Keys \cup FileIds \cup FileRows

Free == [pc |-> "free", file |-> NoFile, key |-> NoFile, number |-> 0, attach |-> FALSE]
Known(f) == fileRow[f] # NoFile
Latest(f) == CHOOSE v \in fileRow[f].versions : \A w \in fileRow[f].versions : w.number <= v.number

FilesInit ==
    /\ fileRow = [f \in FileIds |-> NoFile]
    /\ stored = {} /\ usedKeys = {}
    /\ attached = {} /\ marked = FALSE
    /\ messageUp = TRUE /\ inChannel = TRUE
    /\ request = [h \in FileHandlers |-> Free]
    /\ fileFaults = 0
    /\ spoiled = {} /\ orphans = {}

FileFault == fileFaults < MaxFileFaults /\ fileFaults' = fileFaults + 1

At(h, pc) == request[h].pc = pc
GoOn(h, pc) == request' = [request EXCEPT ![h].pc = pc]
Respond(h) == request' = [request EXCEPT ![h] = Free]

(* The row is visible to its owner, and to members of the channel of a     *)
(* message it is attached to.                                              *)
CanAccessFile(f, owner) == Known(f) /\ (owner \/ (f \in attached /\ messageUp /\ inChannel))

---------------------------------------------------------------------------
(* Uploads.  The key is made before the object is put: a put whose answer  *)
(* is lost has stored it, and nobody deletes it.                           *)
NewKey(h, req) ==
    \E k \in Keys \ usedKeys :
        /\ usedKeys' = usedKeys \cup {k}
        /\ request' = [request EXCEPT ![h] = [req EXCEPT !.key = k]]

Upload(h) ==
    /\ At(h, "free")
    /\ \E attach \in BOOLEAN : NewKey(h, [Free EXCEPT !.pc = "put", !.attach = attach])
    /\ UNCHANGED <<fileRow, stored, attached, marked, messageUp, inChannel, fileFaults, spoiled, orphans>>

UploadVersion(h) ==
    /\ At(h, "free")
    /\ \E f \in FileIds : NewKey(h, [Free EXCEPT !.pc = "put", !.file = f])
    /\ UNCHANGED <<fileRow, stored, attached, marked, messageUp, inChannel, fileFaults, spoiled, orphans>>

Put(h) ==
    LET r == request[h] IN
    /\ At(h, "put")
    /\ stored' = stored \cup {r.key}
    /\ GoOn(h, IF r.file = NoFile THEN "create" ELSE "number")
    /\ UNCHANGED <<fileRow, usedKeys, attached, marked, messageUp, inChannel, fileFaults, spoiled, orphans>>

PutFails(h) ==
    /\ At(h, "put") /\ FileFault
    /\ \/ stored' = stored \cup {request[h].key} /\ orphans' = orphans \cup {request[h].key}
       \/ UNCHANGED <<stored, orphans>>
    /\ Respond(h)
    /\ UNCHANGED <<fileRow, usedKeys, attached, marked, messageUp, inChannel, spoiled>>

(* File and first version in one transaction.                              *)
CreateFile(h) ==
    /\ At(h, "create")
    /\ \E f \in FileIds :
          /\ ~Known(f)
          /\ fileRow' = [fileRow EXCEPT ![f] =
                 [object |-> request[h].key, versions |-> {[number |-> 1, key |-> request[h].key]}]]
          /\ \/ /\ request' = [request EXCEPT ![h] = IF @.attach
                                  THEN [@ EXCEPT !.pc = "attach", !.file = f] ELSE Free]
                /\ UNCHANGED <<fileFaults, spoiled>>
             \/ /\ FileFault                                  \* committed, the answer is lost
                /\ spoiled' = spoiled \cup {f}
                /\ GoOn(h, "undo")
    /\ UNCHANGED <<stored, usedKeys, attached, marked, messageUp, inChannel, orphans>>

FileStatementFails(h) ==
    /\ request[h].pc \in {"create", "number", "inserted"} /\ FileFault
    /\ GoOn(h, "undo")
    /\ UNCHANGED <<fileRow, stored, usedKeys, attached, marked, messageUp, inChannel, spoiled, orphans>>

---------------------------------------------------------------------------
(* A new version counts the versions its statement sees.  Its insert waits *)
(* for another one with the same number and loses to it if that commits.   *)
NumberVersion(h) ==
    LET f == request[h].file IN
    /\ At(h, "number")
    /\ request' = [request EXCEPT ![h] =
          IF Known(f) THEN [@ EXCEPT !.pc = "insert", !.number = Latest(f).number + 1]
          ELSE [@ EXCEPT !.pc = "undo"]]
    /\ UNCHANGED <<fileRow, stored, usedKeys, attached, marked, messageUp, inChannel, fileFaults, spoiled, orphans>>

(* Mutant: version numbers are not unique.                                 *)
TakenNever(f, n) == FALSE

Taken(f, n) == \E v \in fileRow[f].versions : v.number = n

InsertVersion(h) ==
    LET r == request[h] IN
    /\ At(h, "insert")
    /\ \A other \in FileHandlers :
          ~(At(other, "inserted") /\ request[other].file = r.file /\ request[other].number = r.number)
    /\ GoOn(h, IF Taken(r.file, r.number) THEN "undo" ELSE "inserted")
    /\ UNCHANGED <<fileRow, stored, usedKeys, attached, marked, messageUp, inChannel, fileFaults, spoiled, orphans>>

(* The file's own columns follow, then the commit.                         *)
CreateVersion(h) ==
    LET r == request[h] IN
    /\ At(h, "inserted")
    /\ fileRow' = [fileRow EXCEPT ![r.file] =
           [object |-> r.key, versions |-> @.versions \cup {[number |-> r.number, key |-> r.key]}]]
    /\ \/ Respond(h) /\ UNCHANGED <<fileFaults, spoiled>>
       \/ FileFault /\ spoiled' = spoiled \cup {r.file} /\ GoOn(h, "undo")
    /\ UNCHANGED <<stored, usedKeys, attached, marked, messageUp, inChannel, orphans>>

(* After an error the object is deleted again; that may fail in silence.   *)
Undo(h) ==
    /\ At(h, "undo")
    /\ \/ stored' = stored \ {request[h].key} /\ UNCHANGED <<fileFaults, orphans>>
       \/ FileFault /\ orphans' = orphans \cup {request[h].key} /\ UNCHANGED stored
    /\ Respond(h)
    /\ UNCHANGED <<fileRow, usedKeys, attached, marked, messageUp, inChannel, spoiled>>

---------------------------------------------------------------------------
(* Attachments: the row and the message's marker in one statement, for a   *)
(* member of the channel while the message is there.                       *)
MayAttach(f) == Known(f) /\ messageUp /\ inChannel

(* Mutant: the marker is written by a statement of its own, which may fail.*)
AttachUnmarked(f) == attached' = attached \cup {f} /\ marked' \in {marked, TRUE}

Attach(f) == attached' = attached \cup {f} /\ marked' = TRUE

AttachUploaded(h) ==
    LET f == request[h].file IN
    /\ At(h, "attach")
    /\ \/ MayAttach(f) /\ Attach(f) /\ Respond(h) /\ UNCHANGED <<fileFaults, spoiled>>
       \/ /\ \/ ~MayAttach(f) /\ UNCHANGED fileFaults
             \/ FileFault
          /\ spoiled' = spoiled \cup {f}                      \* the rows are committed
          /\ GoOn(h, "undo")
          /\ UNCHANGED <<attached, marked>>
    /\ UNCHANGED <<fileRow, stored, usedKeys, messageUp, inChannel, orphans>>

AttachFile ==
    /\ \E f \in FileIds \ attached : MayAttach(f) /\ Attach(f)
    /\ UNCHANGED <<fileRow, stored, usedKeys, messageUp, inChannel, request, fileFaults, spoiled, orphans>>

---------------------------------------------------------------------------
(* Downloads: access, then the row, then the object, each on its own.      *)
Download(h) ==
    /\ At(h, "free")
    /\ \E f \in FileIds, owner \in BOOLEAN :
          /\ CanAccessFile(f, owner)
          /\ request' = [request EXCEPT ![h] = [Free EXCEPT !.pc = "find", !.file = f]]
    /\ UNCHANGED <<fileRow, stored, usedKeys, attached, marked, messageUp, inChannel, fileFaults, spoiled, orphans>>

FindFile(h) ==
    /\ At(h, "find")
    /\ request' = [request EXCEPT ![h].pc = "get", ![h].key = fileRow[request[h].file].object]
    /\ UNCHANGED <<fileRow, stored, usedKeys, attached, marked, messageUp, inChannel, fileFaults, spoiled, orphans>>

Get(h) ==
    /\ At(h, "get")
    /\ IF request[h].key \in stored THEN Respond(h) ELSE GoOn(h, "missing")
    /\ UNCHANGED <<fileRow, stored, usedKeys, attached, marked, messageUp, inChannel, fileFaults, spoiled, orphans>>

NotFound(h) ==
    /\ At(h, "missing")
    /\ Respond(h)
    /\ UNCHANGED <<fileRow, stored, usedKeys, attached, marked, messageUp, inChannel, fileFaults, spoiled, orphans>>

---------------------------------------------------------------------------
(* What others do meanwhile. *)
LeaveOrDelete ==
    /\ \/ messageUp' = FALSE /\ messageUp /\ UNCHANGED inChannel
       \/ inChannel' = ~inChannel /\ UNCHANGED messageUp
    /\ UNCHANGED <<fileRow, stored, usedKeys, attached, marked, request, fileFaults, spoiled, orphans>>

(* The process stops: an object without rows stays in the store for good,  *)
(* for the clean-up job looks for rows that are 'uploading' or 'failed',   *)
(* and there are none.                                                     *)
Stops(h) ==
    /\ ~At(h, "free") /\ FileFault
    /\ orphans' = IF request[h].pc \in {"create", "number", "insert", "inserted", "undo"}
                  THEN orphans \cup {request[h].key} ELSE orphans
    /\ Respond(h)
    /\ UNCHANGED <<fileRow, stored, usedKeys, attached, marked, messageUp, inChannel, spoiled>>

FilesNext ==
    \/ AttachFile \/ LeaveOrDelete
    \/ \E h \in FileHandlers :
          \/ Upload(h) \/ UploadVersion(h) \/ Put(h) \/ PutFails(h) \/ CreateFile(h)
          \/ FileStatementFails(h) \/ NumberVersion(h) \/ InsertVersion(h) \/ CreateVersion(h)
          \/ Undo(h) \/ AttachUploaded(h) \/ Download(h) \/ FindFile(h) \/ Get(h) \/ NotFound(h) \/ Stops(h)

FilesSpec == FilesInit /\ [][FilesNext]_fileVars

---------------------------------------------------------------------------
FilesTypeOK ==
    /\ fileRow \in [FileIds -> FileRows \cup {NoFile}]
    /\ stored \subseteq usedKeys /\ usedKeys \subseteq Keys
    /\ attached \subseteq FileIds /\ {marked, messageUp, inChannel} \subseteq BOOLEAN
    /\ \A h \in FileHandlers : request[h].file \in FileIds \cup {NoFile}
    /\ fileFaults \in 0..MaxFileFaults /\ spoiled \subseteq FileIds /\ orphans \subseteq Keys

(* Numbers of versions are never given twice, and a file shows its latest  *)
(* version, whatever order overlapping uploads commit in.                  *)
LatestIsShown ==
    \A f \in FileIds : Known(f) =>
        /\ fileRow[f].object = Latest(f).key
        /\ \A v, w \in fileRow[f].versions : v.number = w.number => v = w

(* Every version of a file has its content, unless the request that wrote  *)
(* it took an error for a rollback.                                        *)
VersionsHaveContent ==
    \A f \in FileIds \ spoiled : Known(f) => \A v \in fileRow[f].versions : v.key \in stored

(* Every object belongs to a version or to a request that is on its way,   *)
(* unless a fault left it.                                                 *)
ObjectsHaveOwners ==
    \A k \in stored \ orphans :
        \/ \E f \in FileIds : Known(f) /\ \E v \in fileRow[f].versions : v.key = k
        \/ \E h \in FileHandlers : request[h].key = k

(* Who may download a file gets it, new versions meanwhile notwithstanding.*)
DownloadsSucceed == \A h \in FileHandlers : At(h, "missing") => request[h].file \in spoiled

(* The message is marked exactly when it has attachments.                  *)
MarkedMeansAttached == marked = (attached # {})

(* What holds of files: what is shown is the newest version, it has its    *)
(* content, no content is left without an owner, a download that was       *)
(* granted finds it, and a message is marked when it has an attachment.    *)
FilesAreWhole ==
    /\ FilesTypeOK /\ LatestIsShown /\ VersionsHaveContent /\ ObjectsHaveOwners
    /\ DownloadsSucceed /\ MarkedMeansAttached
============================================================================
