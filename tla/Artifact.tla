------------------------------ MODULE Artifact ------------------------------
(***************************************************************************)
(* The artifact block: the streaming Put of internal/artifact/service.go   *)
(* with its pump goroutine and io.Pipe, and the memory, fs and s3 drivers. *)
(* One driver is chosen at the start.  One namespace is modelled.          *)
(*                                                                         *)
(* Every file system call of the fs driver is a step of its own: the       *)
(* driver's mutex covers the creation of directories only.  Bytes are      *)
(* abstracted to the upload they belong to and the number of its chunks.   *)
(* Ids are numbers for their order; 0 is an id ValidateID rejects.         *)
(*                                                                         *)
(* The fs driver keeps the bytes of an id in a file of that very name, the *)
(* metadata in <id>.json, written by way of <id>.json.tmp; ids may contain *)
(* dots, so that one id's metadata file can be the data file of another.   *)
(* Uploaded bytes are taken not to parse as metadata.                      *)
(***************************************************************************)
EXTENDS Integers, FiniteSets

CONSTANTS
    Upload,       \* Put calls, one per client stream
    Reader,       \* Get, Stat and List calls
    Id,           \* artifact ids, 0 being malformed
    MetaName, TmpName,  \* id -> its <id>.json and <id>.json.tmp, maybe ids too
    None,
    MaxChunks,    \* bound: chunks per upload
    MaxDeletes,   \* bound: Delete calls
    MaxCrashes,   \* bound: restarts of the process
    DiskFaults    \* whether the disk or the object store may fail

Object   == [up : Upload, n : 0 .. MaxChunks]              \* stored bytes
Metadata == LET Value == Upload \cup {None} IN [up : Value, size : Value, hash : Value]

Name     == Id \cup {MetaName[i] : i \in Id} \cup {TmpName[i] : i \in Id}   \* file names

ASSUME ArtifactAssumption ==
    /\ Id \subseteq Nat /\ None \notin Name \cup Upload \cup Object \cup Metadata
    /\ MetaName \in [Id -> Nat] /\ TmpName \in [Id -> Nat]
    /\ \A i, j \in Id : /\ MetaName[i] = MetaName[j] \/ TmpName[i] = TmpName[j] => i = j
                        /\ MetaName[i] # TmpName[j] /\ MetaName[i] # i /\ TmpName[i] # i
    /\ MaxChunks \in Nat /\ MaxDeletes \in Nat /\ MaxCrashes \in Nat
    /\ DiskFaults \in BOOLEAN

VARIABLES
    driver,       \* "memory", "fs" or "s3"
    data, meta,   \* memory and s3, per id: the stored bytes, the metadata
    files,        \* fs, per file name: what is in the file
    up,           \* per upload: handler, pump goroutine and pipe
    rd,           \* per reader: its call
    del,          \* the Delete in progress
    deletes, crashes,
    solo,         \* history: uploads no other call has met, see Touching
    removed       \* history: ids a Delete or a crash may have removed

stores == <<data, meta, files>>
limits == <<driver, deletes, crashes>>
vars   == <<stores, up, rd, del, limits, solo, removed>>

Partial == [up |-> None, size |-> None, hash |-> None]   \* an empty or garbled metadata file

NoUpload == [pc |-> "idle", id |-> None, pump |-> "off", pipe |-> "open", errCh |-> "empty",
             sent |-> 0, eof |-> FALSE, n |-> 0, fd |-> None, rec |-> None, phase |-> "put"]
NoRead   == [pc |-> "idle", id |-> None, meta |-> None, got |-> None, ids |-> {}]
NoDelete == [pc |-> "idle", id |-> None]

Init ==
    /\ driver \in {"memory", "fs", "s3"}
    /\ data = [i \in Id |-> None] /\ meta = [i \in Id |-> None]
    /\ files = [m \in Name |-> None]
    /\ up = [u \in Upload |-> NoUpload]
    /\ rd = [r \in Reader |-> NoRead]
    /\ del = NoDelete /\ deletes = 0 /\ crashes = 0
    /\ solo = {} /\ removed = {}

ValidateID(i) == i # 0

Ended(u) == up[u].pc \in {"done", "failed"}
Whole(c) == up[c.up].eof /\ c.n = up[c.up].sent

\* What the bytes and the metadata of an id are, if it has any.
Bytes(i)     == IF driver = "fs" THEN files[i] ELSE data[i]
Described(i) == IF driver = "fs" THEN files[MetaName[i]] ELSE meta[i]

\* Calls on these ids work on one id, or on one file.
FilesOf(i)     == {i, MetaName[i], TmpName[i]}
Touching(i, j) == i \in Id /\ (i = j \/ (driver = "fs" /\ FilesOf(i) \cap FilesOf(j) # {}))

\* A writer's open metadata file when a name is unlinked, and when a file is
\* renamed over it: fd is the name its file has, None once it has none.
Unlinked(r, m)   == [r EXCEPT !.fd = IF @ = m THEN None ELSE @]
Renamed(r, m, n) == [Unlinked(r, n) EXCEPT !.fd = IF @ = m THEN n ELSE @]

-----------------------------------------------------------------------------
(* Put: the handler reads PutInit, starts the pump and calls the driver.   *)

\* The fs and s3 drivers refuse a malformed id before they read a byte; the
\* memory driver does not look at it.
PutBegin(u, i) ==
    LET others == { w \in Upload \ {u} : Touching(up[w].id, i) } IN
    /\ up[u].pc = "idle"
    /\ up' = [up EXCEPT ![u] = [NoUpload EXCEPT !.id = i, !.pump = "recv",
                 !.pc = IF ValidateID(i) \/ driver = "memory" THEN "copy" ELSE "failed"]]
    /\ solo' = (solo \ others)
               \cup (IF (\A w \in others : Ended(w)) /\ ~ Touching(del.id, i) THEN {u} ELSE {})
    /\ UNCHANGED <<stores, rd, del, limits, removed>>

\* The first message is missing or is not a PutInit.
PutRefused(u) ==
    /\ up[u].pc = "idle"
    /\ up' = [up EXCEPT ![u].pc = "failed"]
    /\ UNCHANGED <<stores, rd, del, limits, solo, removed>>

-----------------------------------------------------------------------------
(* The pump goroutine.                                                     *)

Pumps(u, r) ==
    /\ up' = [up EXCEPT ![u] = r]
    /\ UNCHANGED <<stores, rd, del, limits, solo, removed>>

\* After the handler has returned its stream is cancelled and yields errors.
RecvChunk(u) ==
    /\ up[u].pump = "recv" /\ ~ Ended(u) /\ up[u].sent < MaxChunks
    /\ Pumps(u, [up[u] EXCEPT !.pump = "write", !.sent = @ + 1])

\* A plausible error: the channel is unbuffered, so the send waits for the
\* handler, which waits for the end of the pipe.
RecvEOFUnbuffered(u) ==
    /\ up[u].pump = "recv" /\ ~ Ended(u)
    /\ Pumps(u, [up[u] EXCEPT !.pump = "sending", !.eof = TRUE])

\* The end of the stream is reported first; the deferred Close follows.
RecvEOF(u) ==
    /\ up[u].pump = "recv" /\ ~ Ended(u)
    /\ Pumps(u, [up[u] EXCEPT !.pump = "close", !.errCh = "nil", !.eof = TRUE])

\* A plausible error: the pipe is closed without the error, as at the end.
RecvErrorClosed(u) ==
    /\ up[u].pump = "recv"
    /\ Pumps(u, [up[u] EXCEPT !.pump = "ended", !.pipe = "eof", !.errCh = "error"])

\* A broken stream, a cancelled call or a message that is not a chunk.
RecvError(u) ==
    /\ up[u].pump = "recv"
    /\ Pumps(u, [up[u] EXCEPT !.pump = "ended", !.pipe = "error", !.errCh = "error"])

PumpClose(u) ==
    /\ up[u].pump = "close"
    /\ Pumps(u, [up[u] EXCEPT !.pump = "ended", !.pipe = "eof"])

-----------------------------------------------------------------------------
(* The driver's Put.                                                       *)

\* A chunk goes through the pipe to the buffer, the temporary file or the
\* multipart upload; the pump's Write returns when it was read.
Copy(u) ==
    /\ up[u].pc = "copy" /\ up[u].pump = "write"
    /\ Pumps(u, [up[u] EXCEPT !.n = @ + 1, !.pump = "recv"])

\* The pipe reports its end or the error it was closed with.
CopyEnd(u) ==
    /\ up[u].pc = "copy"
    /\ \/ up[u].pipe = "eof"   /\ Pumps(u, [up[u] EXCEPT !.pc = "store"])
       \/ up[u].pipe = "error" /\ Pumps(u, [up[u] EXCEPT !.pc = "failed"])

\* The disk or the object store fails; the pump is not told.
CopyFails(u) ==
    /\ up[u].pc \in {"copy", "store"} /\ driver # "memory" /\ DiskFaults
    /\ Pumps(u, [up[u] EXCEPT !.pc = "failed"])

\* What the drivers know of the upload: size and hash are not set yet.
Header(u) == [up |-> u, size |-> None, hash |-> None]

\* memory: one map entry under the lock.
StoreMemory(u) ==
    LET i == up[u].id IN
    /\ driver = "memory" /\ up[u].pc = "store"
    /\ data' = [data EXCEPT ![i] = [up |-> u, n |-> up[u].n]]
    /\ meta' = [meta EXCEPT ![i] = Header(u)]
    /\ up' = [up EXCEPT ![u].pc = "join"]
    /\ UNCHANGED <<files, rd, del, limits, solo, removed>>

\* s3: one object; its size is the store's, its hash stays empty.
StoreS3(u) ==
    LET i == up[u].id IN
    /\ driver = "s3" /\ up[u].pc = "store"
    /\ data' = [data EXCEPT ![i] = [up |-> u, n |-> up[u].n]]
    /\ meta' = [meta EXCEPT ![i] = [Header(u) EXCEPT !.size = u]]
    /\ up' = [up EXCEPT ![u].pc = "join"]
    /\ UNCHANGED <<files, rd, del, limits, solo, removed>>

\* fs: the temporary file is renamed over the data file.
RenameData(u) ==
    LET i == up[u].id IN
    /\ driver = "fs" /\ up[u].pc = "store"
    /\ files' = [files EXCEPT ![i] = [up |-> u, n |-> up[u].n]]
    /\ up' = [w \in Upload |-> IF w = u THEN [up[u] EXCEPT !.pc = "truncMeta", !.rec = Header(u)]
                               ELSE Unlinked(up[w], i)]
    /\ UNCHANGED <<data, meta, rd, del, limits, solo, removed>>

-----------------------------------------------------------------------------
(* writeMeta of the fs driver.  All writers of one id use one temporary    *)
(* name, so that a writer's open file may be renamed or unlinked by others.*)

\* os.WriteFile opens the file, whatever it is, and truncates it ...
TruncMeta(u) ==
    LET tmp == TmpName[up[u].id] IN
    /\ up[u].pc = "truncMeta"
    /\ files' = [files EXCEPT ![tmp] = Partial]
    /\ up' = [up EXCEPT ![u].pc = "fillMeta", ![u].fd = tmp]
    /\ UNCHANGED <<data, meta, rd, del, limits, solo, removed>>

\* ... and writes it: over the body of another writer the longer one's tail
\* is left, if their lengths differ.
Overwrite(old, rec) == IF old \in {Partial, rec} THEN {rec} ELSE {rec, Partial}

FillMeta(u) ==
    LET m == up[u].fd IN
    /\ up[u].pc = "fillMeta"
    /\ IF m = None THEN UNCHANGED files
       ELSE \E c \in Overwrite(files[m], up[u].rec) : files' = [files EXCEPT ![m] = c]
    /\ up' = [up EXCEPT ![u].pc = "renameMeta"]
    /\ UNCHANGED <<data, meta, rd, del, limits, solo, removed>>

AfterMeta(u) == IF up[u].phase = "put" THEN "join" ELSE "done"

\* A plausible error: the rename is left out.
RenameMetaSkipped(u) ==
    /\ up[u].pc = "renameMeta" /\ files[TmpName[up[u].id]] # None
    /\ Pumps(u, [up[u] EXCEPT !.pc = AfterMeta(u), !.fd = None, !.rec = None])

RenameMeta(u) ==
    LET tmp == TmpName[up[u].id]  json == MetaName[up[u].id] IN
    /\ up[u].pc = "renameMeta" /\ files[tmp] # None
    /\ files' = [files EXCEPT ![json] = files[tmp], ![tmp] = None]
    /\ up' = [w \in Upload |->
         IF w = u THEN [up[u] EXCEPT !.pc = AfterMeta(u), !.fd = None, !.rec = None]
         ELSE Renamed(up[w], tmp, json)]
    /\ UNCHANGED <<data, meta, rd, del, limits, solo, removed>>

\* The temporary file is gone, or the disk fails: Put removes the data file
\* and fails, PatchMeta's error is ignored.
WriteMetaFails(u) ==
    LET i == up[u].id  put == up[u].phase = "put" IN
    /\ \/ up[u].pc = "renameMeta" /\ files[TmpName[i]] = None
       \/ up[u].pc \in {"truncMeta", "fillMeta"} /\ DiskFaults
    /\ files' = IF put THEN [files EXCEPT ![i] = None] ELSE files
    /\ up' = [w \in Upload |->
         IF w = u THEN [up[u] EXCEPT !.pc = IF put THEN "failed" ELSE "done",
                                     !.fd = None, !.rec = None]
         ELSE IF put THEN Unlinked(up[w], i) ELSE up[w]]
    /\ solo' = solo \ {u}
    /\ UNCHANGED <<data, meta, rd, del, limits, removed>>

-----------------------------------------------------------------------------
(* The rest of the handler: the pump's verdict, then PatchMeta.            *)

Join(u) ==
    /\ up[u].pc = "join" /\ up[u].errCh # "empty"
    /\ Pumps(u, [up[u] EXCEPT !.pc = IF up[u].errCh = "error" THEN "failed"
                                     ELSE IF driver = "s3" THEN "done" ELSE "patch"])

\* memory: the entry that is stored now is patched, whoever stored it.
PatchMemory(u) ==
    LET i == up[u].id IN
    /\ driver = "memory" /\ up[u].pc = "patch"
    /\ meta' = IF meta[i] = None THEN meta
               ELSE [meta EXCEPT ![i].size = u, ![i].hash = u]
    /\ up' = [up EXCEPT ![u].pc = "done"]
    /\ UNCHANGED <<data, files, rd, del, limits, solo, removed>>

\* Metadata that can be read: there, and parsed.
Stat(i) == IF Described(i) \in Metadata \ {Partial} THEN Described(i) ELSE None

\* fs: the metadata is read, patched and written back; a missing or
\* unreadable file ends the attempt.
PatchStat(u) ==
    LET m == Stat(up[u].id) IN
    /\ driver = "fs" /\ up[u].pc = "patch"
    /\ Pumps(u, IF m = None THEN [up[u] EXCEPT !.pc = "done"]
                ELSE [up[u] EXCEPT !.pc = "truncMeta", !.phase = "patch",
                                   !.rec = [m EXCEPT !.size = u, !.hash = u]])

-----------------------------------------------------------------------------
(* Get, Stat and List.                                                     *)

Reads(r, q) ==
    /\ rd' = [rd EXCEPT ![r] = q]
    /\ UNCHANGED <<stores, up, del, limits, solo, removed>>

\* Get asks the driver for the metadata first.  A missing file is NotFound,
\* an unreadable one Internal.
GetStat(r, i) ==
    /\ rd[r].pc = "idle"
    /\ Reads(r, IF ~ ValidateID(i) \/ Stat(i) = None
                THEN [NoRead EXCEPT !.pc = "failed"]
                ELSE [NoRead EXCEPT !.pc = "open", !.id = i, !.meta = Stat(i),
                                    !.got = IF driver = "memory" THEN data[i] ELSE None])

\* memory: the bytes were found with the entry, but the metadata is copied
\* after the lock was released, while PatchMeta may be writing it.
GetMemory(r) ==
    LET q == rd[r] IN
    /\ driver = "memory" /\ rd[r].pc = "open"
    /\ \E m \in {q.meta} \cup { meta[i] : i \in {j \in {q.id} : data[j] = q.got} } :
       \E s \in {q.meta.size, m.size}, h \in {q.meta.hash, m.hash} :
          Reads(r, [q EXCEPT !.pc = "done", !.meta.size = s, !.meta.hash = h])

\* fs and s3: the bytes are opened by name afterwards.
GetOpen(r) ==
    LET b == Bytes(rd[r].id) IN
    /\ driver # "memory" /\ rd[r].pc = "open"
    /\ Reads(r, IF b = None THEN [NoRead EXCEPT !.pc = "failed"]
                ELSE [rd[r] EXCEPT !.pc = "done", !.got = b])

\* The ids List streams, in order, after startAfter (-1: from the first), at
\* most limit of them (0: all).  Entries whose metadata cannot be read are
\* skipped.
Listing(startAfter, limit) ==
    LET hit == { i \in Id : Stat(i) # None /\ i > startAfter }
    IN  { i \in hit : limit > 0 => Cardinality({ j \in hit : j <= i }) <= limit }

List(r, startAfter, limit) ==
    /\ rd[r].pc = "idle"
    /\ Reads(r, [NoRead EXCEPT !.pc = "listed", !.ids = Listing(startAfter, limit)])

-----------------------------------------------------------------------------
(* Delete.                                                                 *)

\* memory and s3: the entry, or the object.
Drop(i) ==
    /\ data' = [data EXCEPT ![i] = None] /\ meta' = [meta EXCEPT ![i] = None]
    /\ UNCHANGED <<files, up>>

\* fs: one file; it is no error if it is gone.
Unlink(m) ==
    /\ files' = [files EXCEPT ![m] = None]
    /\ up' = [w \in Upload |-> Unlinked(up[w], m)]
    /\ UNCHANGED <<data, meta>>

\* The probe: fs looks at the data file, s3 at the object; memory holds its
\* lock from here to the end.
DeleteBegin(i) ==
    /\ del.pc = "idle" /\ deletes < MaxDeletes /\ ValidateID(i)
    /\ deletes' = deletes + 1
    /\ solo' = { u \in solo : ~ Touching(up[u].id, i) }
    /\ removed' = removed \cup {i}
    /\ IF driver = "memory" THEN Drop(i) /\ UNCHANGED del
       ELSE /\ del' = IF Bytes(i) = None THEN NoDelete ELSE [pc |-> "remove", id |-> i]
            /\ UNCHANGED <<stores, up>>
    /\ UNCHANGED <<rd, driver, crashes>>

DeleteRemove ==
    /\ del.pc = "remove"
    /\ IF driver = "s3" THEN Drop(del.id) /\ del' = NoDelete
       ELSE Unlink(del.id) /\ del' = [del EXCEPT !.pc = "meta"]
    /\ UNCHANGED <<rd, limits, solo, removed>>

DeleteMeta ==
    /\ del.pc = "meta"
    /\ Unlink(MetaName[del.id]) /\ del' = NoDelete
    /\ UNCHANGED <<rd, limits, solo, removed>>

\* The process stops and starts again: calls end, files and objects stay.
\* A stop while no Put and no Delete is under way leaves everything stored as
\* it is (memory: loses it, as any other) and is left out.
Crash ==
    /\ crashes < MaxCrashes /\ crashes' = crashes + 1
    /\ del.pc # "idle" \/ \E u \in Upload : up[u].pc # "idle" /\ ~ Ended(u)
    /\ up' = [u \in Upload |-> IF up[u].pc = "idle" THEN up[u] ELSE
                [up[u] EXCEPT !.pc = IF Ended(u) THEN @ ELSE "failed",
                              !.pump = "ended", !.fd = None, !.rec = None]]
    /\ rd' = [r \in Reader |-> IF rd[r].pc = "open" THEN [NoRead EXCEPT !.pc = "failed"] ELSE rd[r]]
    /\ del' = NoDelete
    /\ IF driver = "memory"
       THEN /\ data' = [i \in Id |-> None] /\ meta' = [i \in Id |-> None]
            /\ removed' = Id /\ solo' = {}
       ELSE UNCHANGED <<data, meta, removed, solo>>
    /\ UNCHANGED <<files, driver, deletes>>

-----------------------------------------------------------------------------
Pump(u)    == RecvChunk(u) \/ RecvEOF(u) \/ RecvError(u) \/ PumpClose(u)
Handler(u) ==
    \/ Copy(u) \/ CopyEnd(u) \/ CopyFails(u) \/ StoreMemory(u) \/ StoreS3(u) \/ RenameData(u)
    \/ TruncMeta(u) \/ FillMeta(u) \/ RenameMeta(u) \/ WriteMetaFails(u)
    \/ Join(u) \/ PatchMemory(u) \/ PatchStat(u)

Next ==
    \/ \E u \in Upload : (\E i \in Id : PutBegin(u, i)) \/ PutRefused(u) \/ Pump(u) \/ Handler(u)
    \/ \E r \in Reader :
          (\E i \in Id : GetStat(r, i)) \/ GetMemory(r) \/ GetOpen(r) \/ List(r, -1, 1)
    \/ (\E i \in Id : DeleteBegin(i)) \/ DeleteRemove \/ DeleteMeta
    \/ Crash

\* Goroutines are scheduled, and every client sends its next message, ends
\* its stream or is disconnected.
Spec == Init /\ [][Next]_vars /\ \A u \in Upload : WF_vars(Pump(u)) /\ WF_vars(Handler(u))

-----------------------------------------------------------------------------
PutCall ==
    [pc : {"idle", "copy", "store", "truncMeta", "fillMeta", "renameMeta", "join", "patch",
           "done", "failed"},
     id : Id \cup {None}, pump : {"off", "recv", "write", "close", "ended"},
     pipe : {"open", "eof", "error"}, errCh : {"empty", "nil", "error"},
     sent : 0 .. MaxChunks, eof : BOOLEAN, n : 0 .. MaxChunks,
     fd : Name \cup {None}, rec : Metadata \cup {None}, phase : {"put", "patch"}]
GetCall ==
    [pc : {"idle", "open", "done", "listed", "failed"}, id : Id \cup {None},
     meta : Metadata \cup {None}, got : Object \cup Metadata \cup {None}, ids : SUBSET Id]

\* The stored objects and every call keep their shape; only the fs driver
\* has files.
TypeOK ==
    /\ driver \in {"memory", "fs", "s3"}
    /\ data \in [Id -> Object \cup {None}]
    /\ meta \in [Id -> Metadata \cup {None}]
    /\ files \in [Name -> Object \cup Metadata \cup {None}]
    /\ driver # "fs" => files = [m \in Name |-> None]
    /\ up \in [Upload -> PutCall] /\ rd \in [Reader -> GetCall]
    /\ del \in [pc : {"idle", "remove", "meta"}, id : Id \cup {None}]
    /\ deletes \in 0 .. MaxDeletes /\ crashes \in 0 .. MaxCrashes
    /\ solo \subseteq Upload /\ removed \subseteq Id

\* The data file of this id is no other id's metadata file, whole or half
\* written.
Plain(i) == driver = "fs" => \A j \in Id : MetaName[j] # i /\ TmpName[j] # i

\* What is stored, and what a Get has read, is always all of one upload:
\* broken streams, crashes and concurrent uploads never leave a part of one,
\* nor anything else (io.Pipe with CloseWithError, temporary file and rename).
DataIsWhole ==
    /\ \A i \in Id : Plain(i) /\ Bytes(i) # None => Bytes(i) \in Object /\ Whole(Bytes(i))
    /\ \A r \in Reader :
          rd[r].pc = "done" /\ Plain(rd[r].id) => rd[r].got \in Object /\ Whole(rd[r].got)

\* An upload that returned and met no other call on its id or its files is
\* stored with its own metadata, patched unless the driver cannot, also after
\* a restart of the process (Put and PatchMeta).
SoloPutIsDescribed ==
    \A u \in solo : up[u].pc = "done" =>
        /\ Bytes(up[u].id) = [up |-> u, n |-> up[u].sent]
        /\ Described(up[u].id) = [up |-> u, size |-> u, hash |-> IF driver = "s3" THEN None ELSE u]

\* Every Put returns: handler and pump never wait for each other (Put's
\* buffered error channel and the order of send and Close).
EveryPutReturns == \A u \in Upload : (up[u].pc # "idle") ~> Ended(u)

\* "Implementations MUST be safe for concurrent use": an id of which an
\* upload was acknowledged keeps its bytes until it is deleted.
AcknowledgedIsKept ==
    \A u \in Upload : up[u].pc = "done" =>
        (Bytes(up[u].id) # None \/ up[u].id \in removed)

\* The code does not have this property (see the README).
\* What a Get returns was uploaded: paths() gives two ids one file.
ReadsAreUploads == \A r \in Reader : rd[r].pc = "done" => rd[r].got \in Object
=============================================================================
