--------------------------- MODULE ArtifactProofs ---------------------------
(***************************************************************************)
(* The artifact block, for any uploads, readers, ids and sizes: whatever   *)
(* the streams, the disk and the restarts do, what is stored and what is   *)
(* read under an id whose data file is no other's metadata file is all of  *)
(* one upload, and an upload that met no other call on its id or its files *)
(* is stored with its own metadata.                                        *)
(***************************************************************************)
EXTENDS Artifact, TLAPS

Writing == {"truncMeta", "fillMeta", "renameMeta"}            \* inside writeMeta
Stored  == Writing \cup {"join", "patch", "done"}             \* past the driver's store

\* The state of one Put.  The pump has sent at most one chunk more than the
\* driver has read; the driver stores only after the end of the stream.
PutInv(r) ==
    /\ r.pc = "idle" => r = NoUpload
    /\ r.pc \notin {"idle", "failed"} => r.id \in Id /\ (r.id # 0 \/ driver = "memory")
    /\ r.n <= r.sent
    /\ r.pump = "recv"  => r.n = r.sent
    /\ r.pump = "write" => r.n + 1 = r.sent
    /\ r.pump = "close" => r.eof
    /\ r.eof => r.pump \in {"close", "ended"} /\ r.n = r.sent
    /\ r.pipe = "eof" \/ r.pc \in Stored \cup {"store"} => r.eof
    /\ r.pc \in Writing => driver = "fs" /\ r.rec \in Metadata
    /\ r.fd # None => r.pc \in {"fillMeta", "renameMeta"} /\ r.fd \in {TmpName[r.id], MetaName[r.id]}
    /\ r.pc \in {"copy", "store"} => r.phase = "put"

PutsInv == \A u \in Upload : PutInv(up[u])

\* memory keeps bytes and metadata in one entry, and Get finds both at once.
EntryInv ==
    /\ driver = "memory" => \A i \in Id : (data[i] = None) <=> (meta[i] = None)
    /\ \A r \in Reader :
          /\ rd[r].pc = "open" => rd[r].id \in Id /\ rd[r].meta \in Metadata
          /\ rd[r].pc = "open" /\ driver = "memory" => rd[r].got \in Object
    /\ del.pc # "idle" => del.id \in Id /\ driver # "memory"
    /\ del.pc = "meta" => driver = "fs"

\* A Get of the memory driver holds whole bytes before it returns them.
OpenIsWhole ==
    \A r \in Reader : rd[r].pc = "open" /\ driver = "memory" => Whole(rd[r].got)

\* What an upload that is alone on its files has stored so far.
Patched(u) == [up |-> u, size |-> u, hash |-> IF driver = "s3" THEN None ELSE u]

SoloOf(u) ==
    LET r == up[u]  i == r.id IN
    /\ r.pc # "idle" /\ r.id \in Id /\ ~ Touching(del.id, i)
    /\ \A w \in Upload \ {u} : Touching(up[w].id, i) => Ended(w)
    /\ r.pc \in Stored  => Bytes(i) = [up |-> u, n |-> r.sent]
    /\ r.pc \in Writing => r.rec = IF r.phase = "put" THEN Header(u) ELSE Patched(u)
    /\ r.pc = "fillMeta"   => r.fd = TmpName[i] /\ files[TmpName[i]] = Partial
    /\ r.pc = "renameMeta" => files[TmpName[i]] = r.rec
    /\ r.pc \in {"join", "patch"} => Described(i) = IF driver = "s3" THEN Patched(u) ELSE Header(u)
    /\ r.pc = "done" => Described(i) = Patched(u)

SoloInv == \A u \in solo : SoloOf(u)

AInv == TypeOK /\ PutsInv /\ EntryInv

----------------------------------------------------------------------------
(* Types and the state of each Put.                                        *)

\* The sentinel is no upload, no id, no file and no record.
LEMMA NoneIsOutside ==
  /\ None \notin Id /\ None \notin Upload /\ None \notin Object /\ None \notin Metadata
  /\ None \notin Name
  /\ Partial \in Metadata
  /\ \A u \in Upload : Header(u) \in Metadata /\ Header(u) # None /\ Header(u) # Partial
BY ArtifactAssumption DEF Partial, Header, Metadata, Name

\* The three files of an id, and which of them ids may have in common.
LEMMA NamesOfIds ==
  ASSUME NEW i \in Id
  PROVE  /\ {i, MetaName[i], TmpName[i]} \subseteq Name
         /\ MetaName[i] # i /\ TmpName[i] # i
         /\ \A j \in Id : /\ MetaName[i] # TmpName[j] /\ TmpName[i] # MetaName[j]
                         /\ TmpName[i] = TmpName[j] => i = j
BY ArtifactAssumption DEF Name

\* A Put keeps its type when one field of it is set.
LEMMA FieldUpdates ==
  ASSUME NEW r \in PutCall
  PROVE  /\ \A p \in {"copy", "fillMeta", "truncMeta", "join", "patch", "done", "failed"} : [r EXCEPT !.pc = p] \in PutCall
         /\ \A f \in Name \cup {None} : [r EXCEPT !.fd = f] \in PutCall
         /\ \A m \in Metadata \cup {None} : [r EXCEPT !.rec = m] \in PutCall
         /\ [r EXCEPT !.phase = "patch"] \in PutCall
         /\ \A a \in {"recv", "ended"} : [r EXCEPT !.pump = a] \in PutCall
         /\ \A i \in Id : [r EXCEPT !.id = i] \in PutCall
<1>1. ASSUME NEW p \in {"copy", "fillMeta", "truncMeta", "join", "patch", "done", "failed"} PROVE [r EXCEPT !.pc = p] \in PutCall
  BY DEF PutCall
<1>2. ASSUME NEW f \in Name \cup {None} PROVE [r EXCEPT !.fd = f] \in PutCall
  BY DEF PutCall
<1>3. ASSUME NEW m \in Metadata \cup {None} PROVE [r EXCEPT !.rec = m] \in PutCall
  BY DEF PutCall
<1>4. [r EXCEPT !.phase = "patch"] \in PutCall
  BY DEF PutCall
<1>5. ASSUME NEW a \in {"recv", "ended"} PROVE [r EXCEPT !.pump = a] \in PutCall
  BY DEF PutCall
<1>6. ASSUME NEW i \in Id PROVE [r EXCEPT !.id = i] \in PutCall
  BY DEF PutCall
<1> QED BY <1>1, <1>2, <1>3, <1>4, <1>5, <1>6

\* A writer is done with its metadata file.
LEMMA NoMetaFile ==
  ASSUME NEW r \in PutCall, NEW p \in {"join", "patch", "done", "failed"}
  PROVE  [r EXCEPT !.pc = p, !.fd = None, !.rec = None] \in PutCall
<1> DEFINE x == [r EXCEPT !.pc = p]
           y == [x EXCEPT !.fd = None]
<1>1. x \in PutCall
  BY FieldUpdates
<1> HIDE DEF x
<1>2. y \in PutCall
  BY <1>1, FieldUpdates
<1> HIDE DEF y
<1>3. [y EXCEPT !.rec = None] \in PutCall
  BY <1>2, FieldUpdates
<1> QED BY <1>3 DEF x, y

\* A step that changes one Put alone need only be checked on that Put.
LEMMA PumpsKeep ==
  ASSUME AInv, NEW u \in Upload, NEW r \in PutCall, PutInv(r), Pumps(u, r)
  PROVE  AInv'
<1> USE DEF Pumps, stores, limits
<1>1. up' \in [Upload -> PutCall] /\ \A w \in Upload : up'[w] = IF w = u THEN r ELSE up[w]
  BY DEF AInv, TypeOK
<1>2. TypeOK'
  BY <1>1 DEF AInv, TypeOK
<1>3. PutsInv'
  <2> SUFFICES ASSUME NEW w \in Upload PROVE PutInv(up[w])'
    BY DEF PutsInv
  <2>1. PutInv(IF w = u THEN r ELSE up[w])
    BY DEF AInv, PutsInv
  <2> QED BY <1>1, <2>1 DEF PutInv
<1>4. EntryInv'
  BY DEF AInv, EntryInv
<1> QED BY <1>2, <1>3, <1>4 DEF AInv

\* The steps of the pump, and those of the handler that touch no store.
LEMMA PumpStep ==
  ASSUME AInv, NEW u \in Upload, Pump(u) \/ Copy(u) \/ CopyEnd(u) \/ CopyFails(u) \/ Join(u)
                                 \/ PatchStat(u)
  PROVE  AInv'
<1> DEFINE r == up[u]
<1>1. r \in PutCall /\ PutInv(r) /\ MaxChunks \in Nat
  BY ArtifactAssumption DEF AInv, TypeOK, PutsInv
<1>0. r.pc = "idle" => r.pump = "off"
  BY <1>1 DEF PutInv, NoUpload
<1>2. CASE RecvChunk(u)
  <2> DEFINE q == [r EXCEPT !.pump = "write", !.sent = @ + 1]
  <2>1. r.pc # "idle"
    BY <1>0, <1>2 DEF RecvChunk
  <2>2. q \in PutCall
    <3>1. r.sent + 1 \in 0 .. MaxChunks
      BY <1>1, <1>2 DEF RecvChunk, PutCall
    <3> QED BY <1>1, <3>1 DEF PutCall
  <2>3. PutInv(q)
    BY <1>1, <1>2, <2>1 DEF RecvChunk, PutCall, PutInv, Ended, Stored, Writing
  <2> QED BY <2>2, <2>3, <1>2, PumpsKeep DEF RecvChunk
<1>3. CASE RecvEOF(u)
  <2> DEFINE q == [r EXCEPT !.pump = "close", !.errCh = "nil", !.eof = TRUE]
  <2>1. r.pc # "idle"
    BY <1>0, <1>3 DEF RecvEOF
  <2>2. q \in PutCall
    BY <1>1, <1>3, <2>1 DEF RecvEOF, PutCall, PutInv
  <2>3. PutInv(q)
    BY <1>1, <1>3, <2>1 DEF RecvEOF, PutCall, PutInv, Ended, Stored, Writing
  <2> QED BY <2>2, <2>3, <1>3, PumpsKeep DEF RecvEOF
<1>4. CASE RecvError(u)
  <2> DEFINE q == [r EXCEPT !.pump = "ended", !.pipe = "error", !.errCh = "error"]
  <2>1. r.pc # "idle"
    BY <1>0, <1>4 DEF RecvError
  <2>2. q \in PutCall
    BY <1>1, <1>4, <2>1 DEF RecvError, PutCall, PutInv
  <2>3. PutInv(q)
    BY <1>1, <1>4, <2>1 DEF RecvError, PutCall, PutInv, Ended, Stored, Writing
  <2> QED BY <2>2, <2>3, <1>4, PumpsKeep DEF RecvError
<1>5. CASE PumpClose(u)
  <2> DEFINE q == [r EXCEPT !.pump = "ended", !.pipe = "eof"]
  <2>1. r.pc # "idle"
    BY <1>0, <1>5 DEF PumpClose
  <2>2. q \in PutCall
    BY <1>1, <1>5, <2>1 DEF PumpClose, PutCall, PutInv
  <2>3. PutInv(q)
    BY <1>1, <1>5, <2>1 DEF PumpClose, PutCall, PutInv, Ended, Stored, Writing
  <2> QED BY <2>2, <2>3, <1>5, PumpsKeep DEF PumpClose
<1>6. CASE Copy(u)
  <2> DEFINE q == [r EXCEPT !.n = @ + 1, !.pump = "recv"]
  <2>1. r.pc # "idle"
    BY <1>0, <1>6 DEF Copy
  <2>2. q \in PutCall
    BY <1>1, <1>6, <2>1 DEF Copy, PutCall, PutInv
  <2>3. PutInv(q)
    BY <1>1, <1>6, <2>1 DEF Copy, PutCall, PutInv, Ended, Stored, Writing
  <2> QED BY <2>2, <2>3, <1>6, PumpsKeep DEF Copy
<1>7. CASE CopyEnd(u)
  <2> DEFINE q == [r EXCEPT !.pc = IF r.pipe = "eof" THEN "store" ELSE "failed"]
  <2>1. PutInv(q) /\ q \in PutCall /\ Pumps(u, q)
    BY <1>1, <1>7 DEF CopyEnd, PutCall, PutInv, Ended, Stored, Writing, NoUpload
  <2> QED BY <2>1, PumpsKeep
<1>8. CASE CopyFails(u)
  <2> DEFINE q == [r EXCEPT !.pc = "failed"]
  <2>1. r.pc # "idle"
    BY <1>0, <1>8 DEF CopyFails
  <2>2. q \in PutCall
    BY <1>1, <1>8, <2>1 DEF CopyFails, PutCall, PutInv
  <2>3. PutInv(q)
    BY <1>1, <1>8, <2>1 DEF CopyFails, PutCall, PutInv, Ended, Stored, Writing
  <2> QED BY <2>2, <2>3, <1>8, PumpsKeep DEF CopyFails
<1>9. CASE Join(u)
  <2> DEFINE q == [r EXCEPT !.pc = IF r.errCh = "error" THEN "failed"
                                   ELSE IF driver = "s3" THEN "done" ELSE "patch"]
  <2>1. r.pc # "idle"
    BY <1>0, <1>9 DEF Join
  <2>2. q \in PutCall
    BY <1>1, <1>9, <2>1 DEF Join, PutCall, PutInv
  <2>3. PutInv(q)
    BY <1>1, <1>9, <2>1 DEF Join, PutCall, PutInv, Ended, Stored, Writing
  <2> QED BY <2>2, <2>3, <1>9, PumpsKeep DEF Join
<1>10. CASE PatchStat(u)
  <2> DEFINE m == Stat(r.id)
             p == [m EXCEPT !.size = u, !.hash = u]
             q == IF m = None THEN [r EXCEPT !.pc = "done"]
                  ELSE [r EXCEPT !.pc = "truncMeta", !.phase = "patch", !.rec = p]
  <2>1. m \in Metadata \cup {None}
    BY DEF Stat
  <2>2. m # None => p \in Metadata
    BY <2>1 DEF Metadata
  <2>3. q \in PutCall
    <3>1. CASE m = None
      BY <1>1, <3>1, FieldUpdates
    <3>2. CASE m # None
      <4>1. p \in Metadata
        BY <2>2, <3>2
      <4> HIDE DEF p, m
      <4> DEFINE x == [r EXCEPT !.pc = "truncMeta"]
                 y == [x EXCEPT !.phase = "patch"]
      <4>2. x \in PutCall
        BY <1>1, FieldUpdates
      <4>3. q = [y EXCEPT !.rec = p]
        BY <3>2
      <4> HIDE DEF x, q
      <4>4. y \in PutCall
        BY <4>2, FieldUpdates
      <4> HIDE DEF y
      <4>5. [y EXCEPT !.rec = p] \in PutCall
        BY <4>1, <4>4, FieldUpdates
      <4> QED BY <4>3, <4>5
    <3> QED BY <3>1, <3>2
  <2>4. PutInv(q)
    BY <1>1, <1>10, <2>2 DEF PatchStat, PutCall, PutInv, Ended, Stored, Writing, NoUpload
  <2> QED BY <2>3, <2>4, <1>10, PumpsKeep DEF PatchStat
<1> QED BY <1>2, <1>3, <1>4, <1>5, <1>6, <1>7, <1>8, <1>9, <1>10 DEF Pump

\* A step that changes Puts one by one keeps what is known of each.
LEMMA PutsKeep ==
  ASSUME PutsInv, TypeOK, up' \in [Upload -> PutCall], driver' = driver,
         \A w \in Upload : PutInv(up'[w])
  PROVE  PutsInv'
BY DEF PutsInv, PutInv

\* The beginning of a Put.
LEMMA BeginStep ==
  ASSUME AInv, NEW u \in Upload, PutRefused(u) \/ \E i \in Id : PutBegin(u, i)
  PROVE  AInv'
<1>0. NoUpload \in PutCall
  <2>1. 0 \in 0 .. MaxChunks
    BY ArtifactAssumption
  <2> QED BY <2>1 DEF PutCall, NoUpload
<1>1. up[u] = NoUpload
  BY DEF AInv, PutsInv, PutInv, PutBegin, PutRefused
<1>2. CASE PutRefused(u)
  <2> DEFINE q == [up[u] EXCEPT !.pc = "failed"]
  <2>1. q \in PutCall
    BY <1>0, <1>1 DEF PutCall
  <2>2. PutInv(q)
    BY <1>1 DEF PutInv, NoUpload, Stored, Writing
  <2>3. Pumps(u, q)
    BY <1>2 DEF PutRefused, Pumps
  <2> QED BY <2>1, <2>2, <2>3, PumpsKeep
<1>3. ASSUME NEW i \in Id, PutBegin(u, i) PROVE AInv'
  <2> DEFINE q == [NoUpload EXCEPT !.id = i, !.pump = "recv",
                      !.pc = IF ValidateID(i) \/ driver = "memory" THEN "copy" ELSE "failed"]
  <2>1. q \in PutCall
    <3> DEFINE x == [NoUpload EXCEPT !.id = i]
               y == [x EXCEPT !.pump = "recv"]
    <3>1. x \in PutCall
      BY <1>0, FieldUpdates
    <3>2. q = [y EXCEPT !.pc = IF ValidateID(i) \/ driver = "memory" THEN "copy" ELSE "failed"]
      OBVIOUS
    <3> HIDE DEF x, q
    <3>3. y \in PutCall
      BY <3>1, FieldUpdates
    <3> HIDE DEF y
    <3> QED BY <3>2, <3>3, FieldUpdates
  <2>2. PutInv(q)
    BY DEF PutInv, NoUpload, Stored, Writing, ValidateID
  <2>3. up' = [up EXCEPT ![u] = q] /\ UNCHANGED <<stores, rd, del, limits, removed>>
    BY <1>3 DEF PutBegin
  <2> HIDE DEF q
  <2>4. up' \in [Upload -> PutCall] /\ \A w \in Upload : PutInv(up'[w])
    BY <2>1, <2>2, <2>3 DEF AInv, TypeOK, PutsInv
  <2>5. TypeOK'
    BY <1>3, <2>3, <2>4 DEF AInv, TypeOK, stores, limits, PutBegin
  <2>6. EntryInv'
    BY <2>3 DEF AInv, EntryInv, stores, limits
  <2>7. PutsInv'
    BY <2>3, <2>4, PutsKeep DEF AInv, limits
  <2> QED BY <2>5, <2>6, <2>7 DEF AInv
<1> QED BY <1>2, <1>3

\* Only the name of a writer's open file differs.
SameCall(q, r) ==
    /\ q.pc = r.pc /\ q.id = r.id /\ q.sent = r.sent /\ q.eof = r.eof
    /\ q.rec = r.rec /\ q.phase = r.phase

\* A writer's open file is unlinked, or renamed to the name it was meant for.
LEMMA FileMoves ==
  ASSUME NEW r \in PutCall, PutInv(r), NEW f,
         f \in {None, r.fd} \/ (r.fd # None /\ f = MetaName[r.id])
  PROVE  LET q == [r EXCEPT !.fd = f]
         IN  q \in PutCall /\ PutInv(q) /\ SameCall(q, r) /\ (f = r.fd => q = r) /\ q.fd = f
<1> DEFINE q == [r EXCEPT !.fd = f]
<1>1. f \in Name \cup {None}
  BY NamesOfIds DEF PutInv, PutCall
<1>2. q \in PutCall
  BY <1>1, FieldUpdates
<1>3. PutInv(q) /\ SameCall(q, r) /\ q.fd = f
  BY DEF PutInv, PutCall, SameCall, Stored, Writing
<1>4. f = r.fd => q = r
  BY DEF PutCall
<1> QED BY <1>2, <1>3, <1>4

LEMMA FilesMove ==
  ASSUME NEW r \in PutCall, PutInv(r)
  PROVE  /\ \A m : LET q == Unlinked(r, m)
                  IN  q \in PutCall /\ PutInv(q) /\ SameCall(q, r) /\ (r.fd # m => q = r)
         /\ \A j \in Id : LET q == Renamed(r, TmpName[j], MetaName[j])
                        IN  /\ q \in PutCall /\ PutInv(q) /\ SameCall(q, r)
                            /\ r.fd \notin {TmpName[j], MetaName[j]} => q = r
<1>1. ASSUME NEW m
      PROVE  /\ Unlinked(r, m) \in PutCall /\ PutInv(Unlinked(r, m)) /\ SameCall(Unlinked(r, m), r)
             /\ Unlinked(r, m).fd \in {None, r.fd} /\ (r.fd # m => Unlinked(r, m) = r)
  <2> DEFINE f == IF r.fd = m THEN None ELSE r.fd
  <2>1. Unlinked(r, m) = [r EXCEPT !.fd = f] /\ f \in {None, r.fd}
    BY DEF Unlinked
  <2> HIDE DEF f
  <2>2. r.fd # m => f = r.fd
    BY DEF f
  <2> QED BY <2>1, <2>2, FileMoves
<1>2. ASSUME NEW j \in Id
      PROVE  LET q == Renamed(r, TmpName[j], MetaName[j])
             IN  /\ q \in PutCall /\ PutInv(q) /\ SameCall(q, r)
                 /\ r.fd \notin {TmpName[j], MetaName[j]} => q = r
  <2> DEFINE x == Unlinked(r, MetaName[j])
             f == IF x.fd = TmpName[j] THEN MetaName[j] ELSE x.fd
  <2>1. Renamed(r, TmpName[j], MetaName[j]) = [x EXCEPT !.fd = f]
    BY DEF Renamed
  <2>2. /\ x \in PutCall /\ PutInv(x) /\ SameCall(x, r)
        /\ x.fd \in {None, r.fd} /\ (r.fd # MetaName[j] => x = r)
    BY <1>1
  <2> HIDE DEF x
  <2>3. ASSUME x.fd = TmpName[j] PROVE x.fd # None /\ f = MetaName[x.id]
    <3>1. TmpName[j] # None
      BY NamesOfIds, NoneIsOutside
    <3>2. x.fd \in {TmpName[x.id], MetaName[x.id]} /\ x.id \in Id
      BY <2>2, <2>3, <3>1 DEF PutInv
    <3>3. \A k \in Id : TmpName[j] \in {TmpName[k], MetaName[k]} => k = j
      BY ArtifactAssumption
    <3>4. x.id = j
      BY <2>3, <3>2, <3>3
    <3> QED BY <2>3, <3>1, <3>4
  <2>4. f \in {None, x.fd} \/ (x.fd # None /\ f = MetaName[x.id])
    BY <2>3
  <2>5. x.fd # TmpName[j] => f = x.fd
    OBVIOUS
  <2> HIDE DEF f
  <2> DEFINE q == [x EXCEPT !.fd = f]
  <2>6. q \in PutCall /\ PutInv(q) /\ SameCall(q, x) /\ (f = x.fd => q = x)
    BY <2>2, <2>4, FileMoves
  <2> HIDE DEF q
  <2>7. SameCall(q, r)
    BY <2>2, <2>6 DEF SameCall
  <2>8. r.fd \notin {TmpName[j], MetaName[j]} => q = r
    BY <2>2, <2>5, <2>6
  <2> QED BY <2>1, <2>6, <2>7, <2>8 DEF q
<1> QED BY <1>1, <1>2

\* The steps of the drivers' stores.
LEMMA StoreStep ==
  ASSUME AInv, NEW u \in Upload, StoreMemory(u) \/ StoreS3(u) \/ RenameData(u)
                                 \/ TruncMeta(u) \/ PatchMemory(u)
  PROVE  AInv'
<1> DEFINE r == up[u]  i == r.id
<1>1. r \in PutCall /\ PutInv(r) /\ i \in Id /\ (i # 0 \/ driver = "memory")
  BY DEF AInv, TypeOK, PutsInv, PutInv, StoreMemory, StoreS3, RenameData, TruncMeta, PatchMemory
<1>2. [up |-> u, n |-> r.n] \in Object
  BY <1>1 DEF PutCall, Object
<1>3. Header(u) \in Metadata /\ [Header(u) EXCEPT !.size = u] \in Metadata /\ Partial \in Metadata
  BY DEF Header, Partial, Metadata
<1>4. CASE StoreMemory(u)
  <2> DEFINE q == [r EXCEPT !.pc = "join"]
  <2>1. q \in PutCall /\ PutInv(q)
    BY <1>1, <1>4 DEF StoreMemory, PutCall, PutInv, Stored, Writing
  <2>2. up' = [up EXCEPT ![u] = q] /\ driver' = driver
    BY <1>4 DEF StoreMemory, limits
  <2> HIDE DEF q
  <2>3. up' \in [Upload -> PutCall] /\ \A w \in Upload : PutInv(up'[w])
    BY <2>1, <2>2 DEF AInv, TypeOK, PutsInv
  <2>4. TypeOK'
    BY <1>1, <1>2, <1>3, <1>4, <2>3 DEF AInv, TypeOK, StoreMemory, limits
  <2>5. EntryInv'
    BY <1>1, <1>2, <1>3, <1>4, NoneIsOutside DEF AInv, TypeOK, EntryInv, StoreMemory, limits
  <2> QED BY <2>2, <2>3, <2>4, <2>5, PutsKeep DEF AInv
<1>5. CASE StoreS3(u)
  <2> DEFINE q == [r EXCEPT !.pc = "join"]
  <2>1. q \in PutCall /\ PutInv(q)
    BY <1>1, <1>5 DEF StoreS3, PutCall, PutInv, Stored, Writing
  <2>2. up' = [up EXCEPT ![u] = q] /\ driver' = driver
    BY <1>5 DEF StoreS3, limits
  <2> HIDE DEF q
  <2>3. up' \in [Upload -> PutCall] /\ \A w \in Upload : PutInv(up'[w])
    BY <2>1, <2>2 DEF AInv, TypeOK, PutsInv
  <2>4. TypeOK'
    BY <1>1, <1>2, <1>3, <1>5, <2>3 DEF AInv, TypeOK, StoreS3, limits
  <2>5. EntryInv'
    BY <1>5 DEF AInv, EntryInv, StoreS3, limits
  <2> QED BY <2>2, <2>3, <2>4, <2>5, PutsKeep DEF AInv
<1>6. CASE RenameData(u)
  <2> DEFINE q == [r EXCEPT !.pc = "truncMeta", !.rec = Header(u)]
  <2>1. q \in PutCall
    BY <1>1, <1>3 DEF PutCall
  <2>2. PutInv(q)
    BY <1>1, <1>3, <1>6 DEF RenameData, PutCall, PutInv, Stored, Writing
  <2>3. /\ up' = [w \in Upload |-> IF w = u THEN q ELSE Unlinked(up[w], i)]
        /\ driver' = driver /\ driver = "fs"
    BY <1>6 DEF RenameData, limits
  <2> HIDE DEF q
  <2>4. up' \in [Upload -> PutCall] /\ \A w \in Upload : PutInv(up'[w])
    <3>1. \A w \in Upload : up[w] \in PutCall /\ PutInv(up[w])
      BY DEF AInv, TypeOK, PutsInv
    <3>2. \A w \in Upload : Unlinked(up[w], i) \in PutCall /\ PutInv(Unlinked(up[w], i))
      BY <3>1, FilesMove
    <3> QED BY <2>1, <2>2, <2>3, <3>2
  <2>5. TypeOK'
    BY <1>2, <1>6, <2>3, <2>4 DEF AInv, TypeOK, RenameData, limits
  <2>6. EntryInv'
    BY <1>6 DEF AInv, EntryInv, RenameData, limits
  <2> QED BY <2>3, <2>4, <2>5, <2>6, PutsKeep DEF AInv
<1>7. CASE TruncMeta(u)
  <2> DEFINE x == [r EXCEPT !.pc = "fillMeta"]
             q == [x EXCEPT !.fd = TmpName[i]]
  <2>1. q \in PutCall
    <3>1. x \in PutCall
      BY <1>1, FieldUpdates
    <3> HIDE DEF x
    <3> QED BY <1>1, <3>1, FieldUpdates, NamesOfIds
  <2>2. PutInv(q)
    BY <1>1, <1>7 DEF TruncMeta, PutCall, PutInv, Stored, Writing
  <2>3. up' = [up EXCEPT ![u] = q] /\ driver' = driver /\ driver = "fs"
    BY <1>1, <1>7 DEF TruncMeta, limits, PutInv, Writing
  <2> HIDE DEF q
  <2>4. up' \in [Upload -> PutCall] /\ \A w \in Upload : PutInv(up'[w])
    BY <2>1, <2>2, <2>3 DEF AInv, TypeOK, PutsInv
  <2>5. TypeOK'
    BY <1>1, <1>3, <1>7, <2>3, <2>4 DEF AInv, TypeOK, TruncMeta, limits
  <2>6. EntryInv'
    BY <1>7 DEF AInv, EntryInv, TruncMeta, limits
  <2> QED BY <2>3, <2>4, <2>5, <2>6, PutsKeep DEF AInv
<1>8. CASE PatchMemory(u)
  <2> DEFINE q == [r EXCEPT !.pc = "done"]
             p == [meta[i] EXCEPT !.size = u, !.hash = u]
  <2>1. q \in PutCall /\ PutInv(q)
    BY <1>1, <1>8 DEF PatchMemory, PutCall, PutInv, Stored, Writing
  <2>2. up' = [up EXCEPT ![u] = q] /\ driver' = driver
    BY <1>8 DEF PatchMemory, limits
  <2>3. meta' = IF meta[i] = None THEN meta ELSE [meta EXCEPT ![i] = p]
    BY <1>8 DEF PatchMemory
  <2>4. meta[i] # None => p \in Metadata
    <3>1. meta[i] \in Metadata \cup {None}
      BY <1>1 DEF AInv, TypeOK
    <3> HIDE <1>1
    <3> QED BY <3>1 DEF Metadata
  <2> HIDE DEF q, p
  <2>5. up' \in [Upload -> PutCall] /\ \A w \in Upload : PutInv(up'[w])
    BY <2>1, <2>2 DEF AInv, TypeOK, PutsInv
  <2>6. TypeOK'
    BY <1>1, <1>8, <2>3, <2>4, <2>5 DEF AInv, TypeOK, PatchMemory, limits
  <2>7. EntryInv'
    BY <1>1, <1>8, <2>3, <2>4, NoneIsOutside DEF AInv, TypeOK, EntryInv, PatchMemory, limits
  <2> QED BY <2>2, <2>5, <2>6, <2>7, PutsKeep DEF AInv
<1> QED BY <1>4, <1>5, <1>6, <1>7, <1>8

\* The rest of writeMeta: the temporary file is filled and renamed.
LEMMA WriteMetaStep ==
  ASSUME AInv, NEW u \in Upload, FillMeta(u) \/ RenameMeta(u) \/ WriteMetaFails(u)
  PROVE  AInv'
<1> DEFINE r == up[u]  i == r.id
<1>1. r \in PutCall /\ PutInv(r) /\ i \in Id /\ i # 0 /\ driver = "fs" /\ r.rec \in Metadata
  BY DEF AInv, TypeOK, PutsInv, PutInv, FillMeta, RenameMeta, WriteMetaFails, Writing
<1>2. Partial \in Metadata
  BY NoneIsOutside
<1>3. CASE FillMeta(u)
  <2> DEFINE q == [r EXCEPT !.pc = "renameMeta"]
  <2>1. q \in PutCall /\ PutInv(q)
    BY <1>1, <1>3 DEF FillMeta, PutCall, PutInv, Stored, Writing
  <2>2. up' = [up EXCEPT ![u] = q] /\ driver' = driver
    BY <1>3 DEF FillMeta, limits
  <2> HIDE DEF q
  <2>3. up' \in [Upload -> PutCall] /\ \A w \in Upload : PutInv(up'[w])
    BY <2>1, <2>2 DEF AInv, TypeOK, PutsInv
  <2>4. \A old : Overwrite(old, r.rec) \subseteq Metadata
    BY <1>1, <1>2 DEF Overwrite
  <2>5. files' \in [Name -> Object \cup Metadata \cup {None}]
    BY <1>1, <1>3, <2>4 DEF FillMeta, AInv, TypeOK
  <2>6. TypeOK'
    BY <1>1, <1>3, <2>3, <2>5 DEF AInv, TypeOK, FillMeta, limits
  <2>7. EntryInv'
    BY <1>1, <1>3 DEF AInv, EntryInv, FillMeta, limits
  <2> QED BY <2>2, <2>3, <2>6, <2>7, PutsKeep DEF AInv
<1>4. CASE RenameMeta(u)
  <2> DEFINE q == [r EXCEPT !.pc = AfterMeta(u), !.fd = None, !.rec = None]
  <2>1. q \in PutCall
    BY <1>1, NoMetaFile DEF AfterMeta
  <2>2. PutInv(q)
    BY <1>1, <1>4 DEF RenameMeta, PutCall, PutInv, Stored, Writing, AfterMeta
  <2> HIDE DEF q
  <2>3. ASSUME NEW w \in Upload PROVE up'[w] \in PutCall /\ PutInv(up'[w])
    <3>1. up[w] \in PutCall /\ PutInv(up[w])
      BY DEF AInv, TypeOK, PutsInv
    <3>2. up'[w] = IF w = u THEN q ELSE Renamed(up[w], TmpName[i], MetaName[i])
      BY <1>4 DEF RenameMeta, q
    <3> QED BY <1>1, <2>1, <2>2, <3>1, <3>2, FilesMove
  <2>4. up' \in [Upload -> PutCall] /\ driver' = driver
    BY <1>4, <2>3 DEF RenameMeta, limits
  <2>5. TypeOK'
    BY <1>1, <1>4, <2>4, NamesOfIds DEF AInv, TypeOK, RenameMeta, limits
  <2>6. EntryInv'
    BY <1>1, <1>4 DEF AInv, EntryInv, RenameMeta, limits
  <2> QED BY <2>3, <2>4, <2>5, <2>6, PutsKeep DEF AInv
<1>5. CASE WriteMetaFails(u)
  <2> DEFINE q == [r EXCEPT !.pc = IF r.phase = "put" THEN "failed" ELSE "done",
                            !.fd = None, !.rec = None]
  <2>1. q \in PutCall
    BY <1>1, NoMetaFile
  <2>2. PutInv(q)
    BY <1>1, <1>5 DEF WriteMetaFails, PutCall, PutInv, Stored, Writing
  <2>3. /\ \A w \in Upload : up'[w] = IF w = u THEN q
                                   ELSE IF r.phase = "put" THEN Unlinked(up[w], i) ELSE up[w]
        /\ driver' = driver
    BY <1>1, <1>5 DEF WriteMetaFails, limits
  <2> HIDE DEF q
  <2>4. up' \in [Upload -> PutCall] /\ \A w \in Upload : PutInv(up'[w])
    <3>1. \A w \in Upload : up[w] \in PutCall /\ PutInv(up[w])
      BY DEF AInv, TypeOK, PutsInv
    <3>2. \A w \in Upload : Unlinked(up[w], i) \in PutCall /\ PutInv(Unlinked(up[w], i))
      BY <3>1, FilesMove
    <3>3. \A w \in Upload : up'[w] \in PutCall /\ PutInv(up'[w])
      BY <2>1, <2>2, <2>3, <3>1, <3>2
    <3> QED BY <1>5, <3>3 DEF WriteMetaFails
  <2>5. files' \in [Name -> Object \cup Metadata \cup {None}]
    BY <1>1, <1>5 DEF WriteMetaFails, AInv, TypeOK
  <2>6. TypeOK'
    BY <1>1, <1>5, <2>4, <2>5 DEF AInv, TypeOK, WriteMetaFails, limits
  <2>7. EntryInv'
    BY <1>1, <1>5 DEF AInv, EntryInv, WriteMetaFails, limits
  <2> QED BY <2>3, <2>4, <2>6, <2>7, PutsKeep DEF AInv
<1> QED BY <1>3, <1>4, <1>5

\* Get, Stat and List.
LEMMA ReadStep ==
  ASSUME AInv, NEW k \in Reader,
         (\E i \in Id : GetStat(k, i)) \/ GetMemory(k) \/ GetOpen(k) \/ List(k, -1, 1)
  PROVE  AInv'
<1> DEFINE q == rd[k]
<1>1. q \in GetCall /\ NoRead \in GetCall
  BY DEF AInv, TypeOK, GetCall, NoRead
<1>2. ASSUME NEW p \in GetCall, Reads(k, p),
             p.pc = "open" => p.id \in Id /\ p.meta \in Metadata,
             p.pc = "open" /\ driver = "memory" => p.got \in Object
      PROVE  AInv'
  <2>1. rd' \in [Reader -> GetCall] /\ \A j \in Reader : rd'[j] = IF j = k THEN p ELSE rd[j]
    BY <1>2 DEF Reads, AInv, TypeOK
  <2>2. TypeOK' /\ PutsInv'
    BY <1>2, <2>1 DEF Reads, AInv, TypeOK, PutsInv, PutInv, stores, limits
  <2>3. EntryInv'
    BY <1>2, <2>1 DEF Reads, AInv, EntryInv, stores, limits
  <2> QED BY <2>2, <2>3 DEF AInv
<1>3. ASSUME NEW i \in Id, GetStat(k, i) PROVE AInv'
  <2> DEFINE p == IF ~ ValidateID(i) \/ Stat(i) = None
                  THEN [NoRead EXCEPT !.pc = "failed"]
                  ELSE [NoRead EXCEPT !.pc = "open", !.id = i, !.meta = Stat(i),
                                      !.got = IF driver = "memory" THEN data[i] ELSE None]
  <2>1. Stat(i) \in Metadata \cup {None} /\ data[i] \in Object \cup {None}
    BY DEF Stat, AInv, TypeOK
  <2>2. driver = "memory" /\ Stat(i) # None => data[i] \in Object
    BY <2>1, NoneIsOutside DEF Stat, Described, AInv, EntryInv
  <2>3. p \in GetCall
    BY <1>1, <2>1 DEF GetCall
  <2>4. p.pc = "open" => p.id \in Id /\ p.meta \in Metadata
    BY <2>1 DEF NoRead
  <2>5. p.pc = "open" /\ driver = "memory" => p.got \in Object
    BY <2>2 DEF NoRead
  <2>6. Reads(k, p)
    BY <1>3 DEF GetStat
  <2> QED BY <1>2, <2>3, <2>4, <2>5, <2>6
<1>4. CASE GetMemory(k)
  <2>0. PICK m \in {q.meta} \cup { meta[i] : i \in {j \in {q.id} : data[j] = q.got} } :
             \E s \in {q.meta.size, m.size}, h \in {q.meta.hash, m.hash} :
                Reads(k, [q EXCEPT !.pc = "done", !.meta.size = s, !.meta.hash = h])
    BY <1>4 DEF GetMemory
  <2>1. PICK s \in {q.meta.size, m.size}, h \in {q.meta.hash, m.hash} :
             Reads(k, [q EXCEPT !.pc = "done", !.meta.size = s, !.meta.hash = h])
    BY <2>0
  <2>2. q.id \in Id /\ q.meta \in Metadata /\ q.got \in Object /\ driver = "memory"
    BY <1>4 DEF GetMemory, AInv, EntryInv
  <2>3. m \in Metadata
    <3>1. CASE m = q.meta
      BY <2>2, <3>1
    <3>2. CASE m = meta[q.id] /\ data[q.id] = q.got
      BY <2>2, <3>2, NoneIsOutside DEF AInv, EntryInv, TypeOK
    <3> QED BY <2>0, <3>1, <3>2
  <2> DEFINE v == [q.meta EXCEPT !.size = s, !.hash = h]
             p == [q EXCEPT !.pc = "done", !.meta = v]
  <2>4. v \in Metadata
    BY <2>1, <2>2, <2>3 DEF Metadata
  <2>5. [q EXCEPT !.pc = "done", !.meta.size = s, !.meta.hash = h] = p
    BY <1>1 DEF GetCall
  <2> HIDE DEF v
  <2>6. p \in GetCall /\ p.pc = "done" /\ p.got = q.got
    BY <1>1, <2>4 DEF GetCall
  <2> QED BY <1>2, <2>1, <2>2, <2>5, <2>6
<1>5. CASE GetOpen(k)
  <2> DEFINE b == Bytes(q.id)
             p == IF b = None THEN [NoRead EXCEPT !.pc = "failed"]
                  ELSE [q EXCEPT !.pc = "done", !.got = b]
  <2>1. q.id \in Id /\ b \in Object \cup Metadata \cup {None}
    BY <1>5, NamesOfIds DEF Bytes, GetOpen, AInv, EntryInv, TypeOK
  <2>2. p \in GetCall
    BY <1>1, <2>1 DEF GetCall
  <2>3. p.pc # "open"
    BY <1>1, <2>1 DEF GetCall, NoRead
  <2>4. Reads(k, p)
    BY <1>5 DEF GetOpen
  <2> QED BY <1>2, <2>2, <2>3, <2>4
<1>6. CASE List(k, -1, 1)
  <2> DEFINE p == [NoRead EXCEPT !.pc = "listed", !.ids = Listing(-1, 1)]
  <2>1. Listing(-1, 1) \in SUBSET Id
    BY DEF Listing
  <2>2. p \in GetCall /\ p.pc = "listed"
    BY <1>1, <2>1 DEF GetCall, NoRead
  <2>3. Reads(k, p)
    BY <1>6 DEF List
  <2> QED BY <1>2, <2>2, <2>3
<1> QED BY <1>3, <1>4, <1>5, <1>6

\* Delete, and the restart of the process.
LEMMA DeleteStep ==
  ASSUME AInv, (\E i \in Id : DeleteBegin(i)) \/ DeleteRemove \/ DeleteMeta \/ Crash
  PROVE  AInv'
<1>1. ASSUME NEW i \in Id, Drop(i), driver' = driver
      PROVE  /\ data' \in [Id -> Object \cup {None}] /\ meta' \in [Id -> Metadata \cup {None}]
             /\ files' = files /\ up' = up /\ PutsInv'
  BY <1>1 DEF Drop, AInv, TypeOK, PutsInv, PutInv
<1>2. ASSUME NEW m \in Name, Unlink(m), driver' = driver
      PROVE  /\ files' \in [Name -> Object \cup Metadata \cup {None}]
             /\ data' = data /\ meta' = meta /\ up' \in [Upload -> PutCall] /\ PutsInv'
  <2>1. \A w \in Upload : up[w] \in PutCall /\ PutInv(up[w])
    BY DEF AInv, TypeOK, PutsInv
  <2>2. \A w \in Upload : Unlinked(up[w], m) \in PutCall /\ PutInv(Unlinked(up[w], m))
    BY <2>1, FilesMove
  <2>3. up' \in [Upload -> PutCall] /\ \A w \in Upload : PutInv(up'[w])
    BY <1>2, <2>2 DEF Unlink
  <2> QED BY <1>2, <2>3, PutsKeep DEF Unlink, AInv, TypeOK
<1>3. ASSUME NEW i \in Id, DeleteBegin(i) PROVE AInv'
  <2>1. driver' = driver /\ deletes' \in 0 .. MaxDeletes /\ solo' \subseteq Upload /\ removed' \subseteq Id
    BY <1>3, ArtifactAssumption DEF DeleteBegin, AInv, TypeOK
  <2>2. CASE driver = "memory"
    <3>1. TypeOK' /\ PutsInv'
      BY <1>1, <1>3, <2>1, <2>2 DEF DeleteBegin, AInv, TypeOK
    <3>2. EntryInv'
      BY <1>3, <2>2 DEF DeleteBegin, AInv, EntryInv, Drop, TypeOK
    <3> QED BY <3>1, <3>2 DEF AInv
  <2>3. CASE driver # "memory"
    <3>1. TypeOK' /\ PutsInv'
      BY <1>3, <2>1, <2>3 DEF DeleteBegin, AInv, TypeOK, PutsInv, PutInv, NoDelete, stores
    <3>2. EntryInv'
      BY <1>3, <2>3 DEF DeleteBegin, AInv, EntryInv, NoDelete, stores
    <3> QED BY <3>1, <3>2 DEF AInv
  <2> QED BY <2>2, <2>3
<1>5. CASE DeleteRemove \/ DeleteMeta
  <2>1. del.id \in Id /\ driver' = driver /\ driver # "memory" /\ {del.id, MetaName[del.id]} \subseteq Name
    BY <1>5, NamesOfIds DEF DeleteRemove, DeleteMeta, AInv, EntryInv, limits
  <2>2. /\ del' \in [pc : {"idle", "remove", "meta"}, id : Id \cup {None}]
        /\ del'.pc # "idle" => del'.id = del.id /\ driver = "fs"
        /\ UNCHANGED <<rd, driver, deletes, crashes, solo, removed>>
    BY <1>5, <2>1 DEF DeleteRemove, DeleteMeta, NoDelete, AInv, TypeOK, limits, EntryInv
  <2>3. (Drop(del.id) /\ driver = "s3") \/ (\E m \in Name : Unlink(m) /\ driver = "fs")
    BY <1>5, <2>1 DEF DeleteRemove, DeleteMeta, AInv, TypeOK, EntryInv
  <2>4. CASE Drop(del.id) /\ driver = "s3"
    BY <1>1, <2>1, <2>2, <2>4 DEF AInv, TypeOK, EntryInv
  <2>5. ASSUME NEW m \in Name, Unlink(m), driver = "fs" PROVE AInv'
    BY <1>2, <2>1, <2>2, <2>5 DEF AInv, TypeOK, EntryInv
  <2> QED BY <2>3, <2>4, <2>5
<1>4. CASE Crash
  <2>1. ASSUME NEW w \in Upload PROVE up'[w] \in PutCall /\ PutInv(up'[w])
    <3>1. up[w] \in PutCall /\ PutInv(up[w])
      BY DEF AInv, TypeOK, PutsInv
    <3> DEFINE q == [up[w] EXCEPT !.pc = IF Ended(w) THEN @ ELSE "failed",
                                  !.pump = "ended", !.fd = None, !.rec = None]
    <3>2. up'[w] = IF up[w].pc = "idle" THEN up[w] ELSE q
      BY <1>4 DEF Crash
    <3>3. q \in PutCall
      <4>1. ASSUME NEW p \in {"done", "failed"}
            PROVE  [up[w] EXCEPT !.pc = p, !.pump = "ended", !.fd = None, !.rec = None] \in PutCall
        <5> DEFINE x == [up[w] EXCEPT !.pc = p, !.fd = None, !.rec = None]
        <5>1. x \in PutCall
          BY <3>1, NoMetaFile
        <5>2. [up[w] EXCEPT !.pc = p, !.pump = "ended", !.fd = None, !.rec = None] = [x EXCEPT !.pump = "ended"]
          OBVIOUS
        <5> HIDE DEF x
        <5>3. [x EXCEPT !.pump = "ended"] \in PutCall
          BY <5>1, FieldUpdates
        <5> QED BY <5>2, <5>3
      <4>2. (IF Ended(w) THEN up[w].pc ELSE "failed") \in {"done", "failed"}
        BY DEF Ended
      <4> QED BY <4>1, <4>2
    <3>4. up[w].pc # "idle" => PutInv(q)
      BY <3>1 DEF PutCall, PutInv, Stored, Writing, Ended
    <3> QED BY <3>1, <3>2, <3>3, <3>4
  <2>2. up' \in [Upload -> PutCall] /\ driver' = driver
    BY <1>4, <2>1 DEF Crash
  <2>3. /\ data' \in [Id -> Object \cup {None}] /\ meta' \in [Id -> Metadata \cup {None}]
        /\ removed' \subseteq Id /\ files' = files /\ deletes' = deletes
        /\ driver = "memory" => \A i \in Id : data'[i] = None /\ meta'[i] = None
    <3>1. /\ data \in [Id -> Object \cup {None}] /\ meta \in [Id -> Metadata \cup {None}]
          /\ removed \subseteq Id
      BY DEF AInv, TypeOK
    <3>2. [i \in Id |-> None] \in [Id -> Object \cup {None}]
          /\ [i \in Id |-> None] \in [Id -> Metadata \cup {None}]
      OBVIOUS
    <3>3. CASE driver = "memory"
      <4>1. /\ data' = [i \in Id |-> None] /\ meta' = [i \in Id |-> None]
            /\ removed' = Id /\ files' = files /\ deletes' = deletes
        BY <1>4, <3>3 DEF Crash
      <4> QED BY <3>2, <4>1
    <3>4. CASE driver # "memory"
      BY <1>4, <3>1, <3>4 DEF Crash
    <3> QED BY <3>3, <3>4
  <2>8. crashes' \in 0 .. MaxCrashes
    <3>1. crashes < MaxCrashes /\ crashes' = crashes + 1
      BY <1>4 DEF Crash
    <3> QED BY <3>1, ArtifactAssumption DEF AInv, TypeOK
  <2>9. del' = NoDelete /\ NoDelete \in [pc : {"idle", "remove", "meta"}, id : Id \cup {None}]
        /\ solo' \subseteq Upload /\ NoDelete.pc = "idle"
    BY <1>4 DEF Crash, NoDelete, AInv, TypeOK
  <2>4. \A k \in Reader : \/ rd'[k] = rd[k] /\ rd[k].pc # "open"
                          \/ rd'[k] = [NoRead EXCEPT !.pc = "failed"]
    BY <1>4 DEF Crash
  <2>5. rd' \in [Reader -> GetCall]
    <3>1. [NoRead EXCEPT !.pc = "failed"] \in GetCall
      BY DEF NoRead, GetCall
    <3> QED BY <1>4, <2>4, <3>1 DEF Crash, AInv, TypeOK
  <2>6. TypeOK'
    BY <2>2, <2>3, <2>5, <2>8, <2>9 DEF AInv, TypeOK
  <2>7. EntryInv'
    <3>1. \A k \in Reader : rd'[k].pc # "open"
      BY <2>4 DEF NoRead, AInv, TypeOK, GetCall
    <3> QED BY <2>2, <2>3, <2>9, <3>1 DEF AInv, EntryInv
  <2> QED BY <2>1, <2>2, <2>6, <2>7, PutsKeep DEF AInv
<1> QED BY <1>3, <1>4, <1>5

\* Every step keeps the shape of the state.
LEMMA TypesStep == AInv /\ [Next]_vars => AInv'
<1> SUFFICES ASSUME AInv, [Next]_vars PROVE AInv'
  OBVIOUS
<1>1. CASE UNCHANGED vars
  BY <1>1 DEF AInv, TypeOK, PutsInv, PutInv, EntryInv, vars, stores, limits
<1>2. CASE Next
  BY <1>2, PumpStep, BeginStep, StoreStep, WriteMetaStep, ReadStep, DeleteStep
     DEF Next, Pump, Handler
<1> QED BY <1>1, <1>2

LEMMA TypesInit == Init => AInv
<1> SUFFICES ASSUME Init PROVE AInv
  OBVIOUS
<1>1. NoUpload \in PutCall /\ NoRead \in GetCall
  <2>1. 0 \in 0 .. MaxChunks
    BY ArtifactAssumption
  <2> QED BY <2>1 DEF PutCall, GetCall, NoUpload, NoRead
<1>2. NoDelete \in [pc : {"idle", "remove", "meta"}, id : Id \cup {None}]
  BY DEF NoDelete
<1>3. 0 \in 0 .. MaxDeletes /\ 0 \in 0 .. MaxCrashes
  BY ArtifactAssumption
<1>4. TypeOK
  BY <1>1, <1>2, <1>3 DEF Init, TypeOK
<1>5. PutInv(NoUpload)
  BY DEF PutInv, NoUpload, Stored, Writing
<1>6. PutsInv
  BY <1>5 DEF Init, PutsInv
<1>7. EntryInv
  BY DEF Init, EntryInv, NoRead, NoDelete
<1> QED BY <1>4, <1>6, <1>7 DEF AInv

\* The stores, the calls and the temporary files always have their shape,
\* and the state of every Put is that of a pump and a reader one chunk apart.
THEOREM TypeCorrect == Spec => []TypeOK
<1>1. AInv => TypeOK
  BY DEF AInv
<1> QED BY <1>1, TypesInit, TypesStep, PTL DEF Spec

LEMMA TypesAlways == Spec => []AInv
BY TypesInit, TypesStep, PTL DEF Spec

----------------------------------------------------------------------------
(* What is stored is whole.                                                *)

\* The driver is chosen once.
LEMMA DriverIsChosen == ASSUME Next PROVE driver' = driver
BY ZenonT(30) DEF Next, PutBegin, PutRefused, Pump, RecvChunk, RecvEOF, RecvError, PumpClose, Pumps, Handler,
       Copy, CopyEnd, CopyFails, Join, PatchStat, StoreMemory, StoreS3, RenameData, TruncMeta,
       FillMeta, RenameMeta, WriteMetaFails, PatchMemory, GetStat, GetMemory, GetOpen, List, Reads,
       DeleteBegin, DeleteRemove, DeleteMeta, Crash, limits

\* Once the end of a stream was received no more of it is.
LEMMA StreamsStay ==
  ASSUME AInv, Next, NEW u \in Upload, up[u].eof
  PROVE  up'[u].eof /\ up'[u].sent = up[u].sent
<1> DEFINE r == up[u]
<1>1. r \in PutCall /\ PutInv(r) /\ up \in [Upload -> PutCall]
  BY DEF AInv, TypeOK, PutsInv
<1>2. r.pc # "idle" /\ r.pump \in {"close", "ended"}
  BY <1>1 DEF PutInv, NoUpload
<1>3. ASSUME NEW w \in Upload, (\E i \in Id : PutBegin(w, i)) \/ PutRefused(w)
      PROVE  up'[u] = r
  BY <1>1, <1>2, <1>3 DEF PutBegin, PutRefused
<1>4. ASSUME NEW w \in Upload, Pump(w)
      PROVE  up'[u] = r \/ up'[u] = [r EXCEPT !.pump = "ended", !.pipe = "eof"]
  BY <1>1, <1>2, <1>4 DEF Pump, Pumps, RecvChunk, RecvEOF, RecvError, PumpClose
<1>5. ASSUME NEW w \in Upload, Copy(w) \/ CopyEnd(w) \/ CopyFails(w) \/ Join(w) \/ PatchStat(w)
      PROVE  up'[u].eof /\ up'[u].sent = r.sent
  <2>1. w # u => up'[u] = r
    BY <1>1, <1>5 DEF Copy, CopyEnd, CopyFails, Join, PatchStat, Pumps
  <2>2. ASSUME NEW n, NEW pump, w = u, up' = [up EXCEPT ![u] = [r EXCEPT !.n = n, !.pump = pump]]
        PROVE  up'[u].eof /\ up'[u].sent = r.sent
    BY <1>1, <2>2 DEF PutCall
  <2>3. ASSUME NEW pc, w = u, up' = [up EXCEPT ![u] = [r EXCEPT !.pc = pc]]
        PROVE  up'[u].eof /\ up'[u].sent = r.sent
    BY <1>1, <2>3 DEF PutCall
  <2>4. ASSUME NEW rec, w = u,
               up' = [up EXCEPT ![u] = [r EXCEPT !.pc = "truncMeta", !.phase = "patch", !.rec = rec]]
        PROVE  up'[u].eof /\ up'[u].sent = r.sent
    BY <1>1, <2>4 DEF PutCall
  <2>5. CASE w = u /\ Copy(w)
    BY <2>2, <2>5 DEF Copy, Pumps
  <2>6. CASE w = u /\ (CopyEnd(w) \/ CopyFails(w) \/ Join(w))
    BY <2>3, <2>6 DEF CopyEnd, CopyFails, Join, Pumps
  <2>7. CASE w = u /\ PatchStat(w)
    BY <2>3, <2>4, <2>7 DEF PatchStat, Pumps
  <2> QED BY <1>5, <2>1, <2>5, <2>6, <2>7
<1>6. ASSUME NEW w \in Upload, StoreMemory(w) \/ StoreS3(w) \/ RenameData(w) \/ TruncMeta(w)
                               \/ FillMeta(w) \/ PatchMemory(w)
      PROVE  up'[u].eof /\ up'[u].sent = r.sent
  <2>1. ASSUME NEW pc, up' = [up EXCEPT ![w].pc = pc]
        PROVE  up'[u].eof /\ up'[u].sent = r.sent
    BY <1>1, <2>1 DEF PutCall
  <2>3. ASSUME NEW f, up' = [up EXCEPT ![w].pc = "fillMeta", ![w].fd = f]
        PROVE  up'[u].eof /\ up'[u].sent = r.sent
    BY <1>1, <2>3 DEF PutCall
  <2>4. CASE StoreMemory(w) \/ StoreS3(w) \/ FillMeta(w) \/ PatchMemory(w)
    BY <2>1, <2>4 DEF StoreMemory, StoreS3, FillMeta, PatchMemory
  <2>5. CASE RenameData(w)
    <3>1. SameCall(Unlinked(r, up[w].id), r)
      BY <1>1, FilesMove
    <3>2. up'[u] = IF u = w THEN [r EXCEPT !.pc = "truncMeta", !.rec = Header(w)]
                   ELSE Unlinked(r, up[w].id)
      BY <2>5 DEF RenameData
    <3> QED BY <1>1, <3>1, <3>2 DEF SameCall, PutCall
  <2>6. CASE TruncMeta(w)
    BY <2>3, <2>6 DEF TruncMeta
  <2> QED BY <1>6, <2>4, <2>5, <2>6
<1>7. ASSUME NEW w \in Upload, RenameMeta(w) \/ WriteMetaFails(w)
      PROVE  up'[u].eof /\ up'[u].sent = r.sent
  <2>1. CASE u = w
    <3>1. PICK pc : up'[u] = [r EXCEPT !.pc = pc, !.fd = None, !.rec = None]
      BY <1>7, <2>1 DEF RenameMeta, WriteMetaFails
    <3> QED BY <1>1, <3>1 DEF PutCall
  <2>2. CASE u # w
    <3>1. up'[u] \in {r, Unlinked(r, up[w].id), Renamed(r, TmpName[up[w].id], MetaName[up[w].id])}
      BY <1>7, <2>2 DEF RenameMeta, WriteMetaFails
    <3>2. up[w].id \in Id
      BY <1>7 DEF RenameMeta, WriteMetaFails, AInv, PutsInv, PutInv
    <3> QED BY <1>1, <3>1, <3>2, FilesMove DEF SameCall
  <2> QED BY <2>1, <2>2
<1>8. ASSUME NEW k \in Reader,
             (\E i \in Id : GetStat(k, i)) \/ GetMemory(k) \/ GetOpen(k) \/ List(k, -1, 1)
      PROVE  up'[u] = r
  BY <1>8 DEF GetStat, GetMemory, GetOpen, List, Reads
<1>9. CASE (\E i \in Id : DeleteBegin(i)) \/ DeleteRemove \/ DeleteMeta
  <2>1. up' = up \/ \E m : Unlink(m)
    BY <1>9 DEF DeleteBegin, DeleteRemove, DeleteMeta, Drop
  <2>2. ASSUME NEW m, Unlink(m) PROVE up'[u].eof /\ up'[u].sent = r.sent
    BY <1>1, <2>2, FilesMove DEF Unlink, SameCall
  <2> QED BY <2>1, <2>2
<1>10. CASE Crash
  BY <1>1, <1>10 DEF Crash, PutCall
<1> QED BY <1>1, <1>2, <1>3, <1>4, <1>5, <1>6, <1>7, <1>8, <1>9, <1>10 DEF Next, Handler, PutCall

\* A driver stores the bytes it read only after the end of the stream, and
\* writeMeta does not touch the data file of an id that is no metadata name.
LEMMA StoresAreWhole ==
  ASSUME AInv, Next, NEW i \in Id, Plain(i)
  PROVE  \/ Bytes(i)' \in {Bytes(i), None}
         \/ \E u \in Upload : /\ up[u].eof /\ up[u].n = up[u].sent
                              /\ Bytes(i)' = [up |-> u, n |-> up[u].n]
<1>1. /\ data \in [Id -> Object \cup {None}] /\ files \in [Name -> Object \cup Metadata \cup {None}]
      /\ \A u \in Upload : PutInv(up[u])
  BY DEF AInv, TypeOK, PutsInv
<1>2. driver' = driver /\ i \in Name
  BY DriverIsChosen, NamesOfIds
<1>3. ASSUME UNCHANGED stores PROVE Bytes(i)' = Bytes(i)
  BY <1>2, <1>3 DEF Bytes, stores
<1>4. ASSUME NEW w \in Upload, StoreMemory(w) \/ StoreS3(w) \/ RenameData(w)
      PROVE  \/ Bytes(i)' = Bytes(i)
             \/ up[w].eof /\ up[w].n = up[w].sent /\ Bytes(i)' = [up |-> w, n |-> up[w].n]
  BY <1>1, <1>2, <1>4 DEF StoreMemory, StoreS3, RenameData, PutInv, Bytes
<1>5. ASSUME NEW w \in Upload, TruncMeta(w) \/ FillMeta(w) \/ RenameMeta(w)
      PROVE  Bytes(i)' = Bytes(i)
  <2>1. up[w].id \in Id /\ (up[w].fd # None => up[w].fd \in {TmpName[up[w].id], MetaName[up[w].id]})
        /\ driver = "fs"
    BY <1>1, <1>5 DEF TruncMeta, FillMeta, RenameMeta, PutInv, Writing
  <2>2. i \notin {TmpName[up[w].id], MetaName[up[w].id]}
    BY <2>1 DEF Plain
  <2>3. CASE TruncMeta(w)
    BY <1>1, <1>2, <2>1, <2>2, <2>3 DEF TruncMeta, Bytes
  <2>4. CASE FillMeta(w)
    BY <1>1, <1>2, <2>1, <2>2, <2>4 DEF FillMeta, Bytes
  <2>5. CASE RenameMeta(w)
    BY <1>1, <1>2, <2>1, <2>2, <2>5 DEF RenameMeta, Bytes
  <2> QED BY <1>5, <2>3, <2>4, <2>5
<1>6. ASSUME NEW w \in Upload, WriteMetaFails(w)
      PROVE  Bytes(i)' \in {Bytes(i), None}
  BY <1>1, <1>2, <1>6 DEF WriteMetaFails, Bytes
<1>7. ASSUME NEW w \in Upload,
             \/ (\E j \in Id : PutBegin(w, j)) \/ PutRefused(w) \/ Pump(w)
             \/ Copy(w) \/ CopyEnd(w) \/ CopyFails(w) \/ Join(w) \/ PatchStat(w)
      PROVE  UNCHANGED stores
  BY <1>7 DEF PutBegin, PutRefused, Pump, RecvChunk, RecvEOF, RecvError, PumpClose, Pumps, Copy,
              CopyEnd, CopyFails, Join, PatchStat
<1>8. ASSUME NEW w \in Upload, PatchMemory(w) PROVE Bytes(i)' = Bytes(i)
  BY <1>2, <1>8 DEF PatchMemory, Bytes
<1>9. ASSUME NEW k \in Reader,
             (\E j \in Id : GetStat(k, j)) \/ GetMemory(k) \/ GetOpen(k) \/ List(k, -1, 1)
      PROVE  UNCHANGED stores
  BY <1>9 DEF GetStat, GetMemory, GetOpen, List, Reads
<1>10. CASE (\E j \in Id : DeleteBegin(j)) \/ DeleteRemove \/ DeleteMeta \/ Crash
  <2>1. ASSUME NEW j, Drop(j) PROVE Bytes(i)' \in {Bytes(i), None}
    BY <1>1, <1>2, <2>1 DEF Drop, Bytes
  <2>2. ASSUME NEW m, Unlink(m) PROVE Bytes(i)' \in {Bytes(i), None}
    BY <1>1, <1>2, <2>2 DEF Unlink, Bytes
  <2>3. CASE (\E j \in Id : DeleteBegin(j)) \/ DeleteRemove \/ DeleteMeta
    BY <1>3, <2>1, <2>2, <2>3 DEF DeleteBegin, DeleteRemove, DeleteMeta
  <2>4. CASE Crash
    BY <1>1, <1>2, <2>4 DEF Crash, Bytes
  <2> QED BY <1>10, <2>3, <2>4
<1> QED BY <1>3, <1>4, <1>5, <1>6, <1>7, <1>8, <1>9, <1>10 DEF Next, Handler

\* A Get has whole bytes to return: it is done with a plain id, or it is one
\* of the memory driver, which finds them as it begins.
Holds(q) == (q.pc = "done" /\ Plain(q.id)) \/ (q.pc = "open" /\ driver = "memory")

\* What a Get returns was stored, or was found when it began.
LEMMA ReadsAreStored ==
  ASSUME AInv, Next, NEW k \in Reader, Holds(rd[k])'
  PROVE  \/ rd'[k].got = rd[k].got /\ Holds(rd[k])
         \/ \E i \in Id : Plain(i) /\ Bytes(i) # None /\ rd'[k].got = Bytes(i)
<1>0. driver' = driver /\ Holds(rd'[k])
  BY DriverIsChosen DEF Holds, Plain
<1>1. rd \in [Reader -> GetCall] /\ rd[k] \in GetCall
  BY DEF AInv, TypeOK
<1>2. ASSUME NEW j \in Reader, NEW i \in Id, GetStat(j, i)
      PROVE  rd'[k] = rd[k] \/ (Plain(i) /\ Bytes(i) # None /\ rd'[k].got = Bytes(i))
  <2>1. driver = "memory" => Plain(i) /\ Bytes(i) = data[i] /\ (data[i] = None => Stat(i) = None)
    BY NoneIsOutside DEF AInv, EntryInv, Stat, Described, Bytes, Plain
  <2>2. rd'[k] = rd[k] \/ rd'[k] = IF ~ ValidateID(i) \/ Stat(i) = None
                THEN [NoRead EXCEPT !.pc = "failed"]
                ELSE [NoRead EXCEPT !.pc = "open", !.id = i, !.meta = Stat(i),
                                    !.got = IF driver = "memory" THEN data[i] ELSE None]
    BY <1>1, <1>2 DEF GetStat, Reads
  <2> QED BY <1>0, <2>1, <2>2 DEF NoRead, Holds
<1>3. ASSUME NEW j \in Reader, GetMemory(j)
      PROVE  rd'[k] = rd[k] \/ (Holds(rd[k]) /\ rd'[k].got = rd[k].got)
  <2>1. PICK m : \E s \in {rd[j].meta.size, m.size}, h \in {rd[j].meta.hash, m.hash} :
           Reads(j, [rd[j] EXCEPT !.pc = "done", !.meta.size = s, !.meta.hash = h])
    BY <1>3 DEF GetMemory
  <2>2. PICK s, h : Reads(j, [rd[j] EXCEPT !.pc = "done", !.meta.size = s, !.meta.hash = h])
    BY <2>1
  <2> QED BY <1>1, <1>3, <2>2 DEF GetMemory, Reads, GetCall, Holds
<1>4. ASSUME NEW j \in Reader, GetOpen(j)
      PROVE  \/ rd'[k] = rd[k]
             \/ \E i \in Id : Plain(i) /\ Bytes(i) # None /\ rd'[k].got = Bytes(i)
  <2> DEFINE b == Bytes(rd[j].id)
  <2>1. rd[j].id \in Id
    BY <1>4 DEF GetOpen, AInv, EntryInv
  <2>2. j = k => rd'[k] = IF b = None THEN [NoRead EXCEPT !.pc = "failed"]
                          ELSE [rd[j] EXCEPT !.pc = "done", !.got = b]
    BY <1>1, <1>4 DEF GetOpen, Reads
  <2>3. j # k => rd'[k] = rd[k]
    BY <1>1, <1>4 DEF GetOpen, Reads
  <2> HIDE DEF b
  <2>4. CASE j = k /\ b # None
    <3>1. rd'[k].pc = "done" /\ rd'[k].id = rd[j].id /\ rd'[k].got = b
      BY <1>1, <2>2, <2>4 DEF GetCall
    <3> QED BY <1>0, <2>1, <2>4, <3>1 DEF b, Holds
  <2>5. CASE j = k /\ b = None
    BY <1>0, <2>2, <2>5 DEF NoRead, Holds
  <2> QED BY <2>3, <2>4, <2>5
<1>5. ASSUME NEW j \in Reader, List(j, -1, 1)
      PROVE  rd'[k] = rd[k]
  BY <1>0, <1>1, <1>5 DEF List, Reads, NoRead, Holds
<1>6. ASSUME NEW w \in Upload,
             (\E j \in Id : PutBegin(w, j)) \/ PutRefused(w) \/ Pump(w) \/ Handler(w)
      PROVE  rd' = rd
  <2>1. CASE (\E j \in Id : PutBegin(w, j)) \/ PutRefused(w) \/ Pump(w)
    BY <2>1 DEF PutBegin, PutRefused, Pump, RecvChunk, RecvEOF, RecvError, PumpClose, Pumps
  <2>2. CASE Copy(w) \/ CopyEnd(w) \/ CopyFails(w) \/ Join(w) \/ PatchStat(w)
    BY <2>2 DEF Copy, CopyEnd, CopyFails, Join, PatchStat, Pumps
  <2>3. CASE \/ StoreMemory(w) \/ StoreS3(w) \/ RenameData(w) \/ TruncMeta(w) \/ FillMeta(w)
             \/ RenameMeta(w) \/ WriteMetaFails(w) \/ PatchMemory(w)
    BY <2>3 DEF StoreMemory, StoreS3, RenameData, TruncMeta, FillMeta, RenameMeta, WriteMetaFails,
                PatchMemory
  <2> QED BY <1>6, <2>1, <2>2, <2>3 DEF Handler
<1>7. ASSUME (\E j \in Id : DeleteBegin(j)) \/ DeleteRemove \/ DeleteMeta
      PROVE  rd' = rd
  BY <1>7 DEF DeleteBegin, DeleteRemove, DeleteMeta
<1>8. CASE Crash
  <2>1. rd'[k] = rd[k] \/ rd'[k] = [NoRead EXCEPT !.pc = "failed"]
    BY <1>1, <1>8 DEF Crash
  <2> QED BY <1>0, <2>1 DEF NoRead, Holds
<1> QED BY <1>0, <1>2, <1>3, <1>4, <1>5, <1>6, <1>7, <1>8 DEF Next

\* What is stored under an id whose file is no metadata file, and what a Get
\* of such an id has read, is always all of one upload: broken streams,
\* crashes and concurrent uploads never leave a part of one.
THEOREM StoredDataIsWhole == Spec => []DataIsWhole
<1> DEFINE WInv == DataIsWhole /\ OpenIsWhole
<1>1. Init => WInv
  BY DEF Init, DataIsWhole, OpenIsWhole, NoRead, Bytes, Name
<1>2. AInv /\ WInv /\ [Next]_vars => WInv'
  <2> SUFFICES ASSUME AInv, WInv, [Next]_vars PROVE WInv'
    OBVIOUS
  <2>1. CASE UNCHANGED vars
    BY <2>1 DEF DataIsWhole, OpenIsWhole, Whole, Bytes, Plain, vars, stores, limits
  <2>2. CASE Next
    <3>0. driver' = driver
      BY <2>2, DriverIsChosen
    <3>1. ASSUME NEW c \in Object, Whole(c) PROVE Whole(c)'
      BY <2>2, <3>1, StreamsStay DEF Whole, Object
    <3>2. ASSUME NEW i \in Id, Plain(i), Bytes(i)' # None
          PROVE  Bytes(i)' \in Object /\ Whole(Bytes(i))'
      <4>1. CASE Bytes(i)' = Bytes(i)
        BY <3>1, <3>2, <4>1 DEF DataIsWhole, Whole
      <4>2. ASSUME NEW u \in Upload, up[u].eof, up[u].n = up[u].sent,
                   Bytes(i)' = [up |-> u, n |-> up[u].n]
            PROVE  Bytes(i)' \in Object /\ Whole(Bytes(i))'
        <5>1. up[u].n \in 0 .. MaxChunks
          BY DEF AInv, TypeOK, PutCall
        <5> QED BY <2>2, <4>2, <5>1, StreamsStay DEF Whole, Object
      <4> QED BY <2>2, <3>2, <4>1, <4>2, StoresAreWhole
    <3>3. ASSUME NEW k \in Reader, Holds(rd[k])'
          PROVE  rd'[k].got \in Object /\ Whole(rd[k].got)'
      <4>1. CASE rd'[k].got = rd[k].got /\ Holds(rd[k])
        <5>1. rd[k].got \in Object /\ Whole(rd[k].got)
          BY <4>1 DEF AInv, EntryInv, DataIsWhole, OpenIsWhole, Holds
        <5> QED BY <3>1, <4>1, <5>1 DEF Whole
      <4>2. ASSUME NEW i \in Id, Plain(i), Bytes(i) # None, rd'[k].got = Bytes(i)
            PROVE  rd'[k].got \in Object /\ Whole(rd[k].got)'
        <5>1. Bytes(i) \in Object /\ Whole(Bytes(i))
          BY <4>2 DEF DataIsWhole
        <5> QED BY <3>1, <4>2, <5>1 DEF Whole
      <4> QED BY <2>2, <3>3, <4>1, <4>2, ReadsAreStored
    <3>4. DataIsWhole'
      BY <3>0, <3>2, <3>3 DEF DataIsWhole, Holds, Plain
    <3>5. OpenIsWhole'
      BY <3>3 DEF OpenIsWhole, Holds
    <3> QED BY <3>4, <3>5
  <2> QED BY <2>1, <2>2
<1>3. WInv => DataIsWhole
  OBVIOUS
<1> QED BY <1>1, <1>2, <1>3, TypesAlways, PTL DEF Spec

----------------------------------------------------------------------------
(* An upload that met no other call on its id or its files.                *)

\* The files of ids that are apart are apart, whichever is looked at first.
LEMMA ApartIsApart ==
  ASSUME NEW i \in Id, NEW j \in Id, ~ Touching(j, i)
  PROVE  /\ ~ Touching(i, j) /\ i # j
         /\ driver = "fs" => FilesOf(i) \cap FilesOf(j) = {}
BY DEF Touching

\* The calls on its files are over, so nobody else touches what it has stored.
LEMMA SoloFrame ==
  ASSUME AInv, NEW u \in Upload, SoloOf(u), up'[u] = up[u], driver' = driver,
         ~ Touching(del'.id, up[u].id),
         driver # "fs" => data'[up[u].id] = data[up[u].id] /\ meta'[up[u].id] = meta[up[u].id],
         driver = "fs" => \A m \in FilesOf(up[u].id) : files'[m] = files[m],
         \A w \in Upload \ {u} : Touching(up'[w].id, up[u].id) => up'[w].pc \in {"done", "failed"}
  PROVE  SoloOf(u)'
<1> DEFINE i == up[u].id
<1>1. Bytes(i)' = Bytes(i) /\ Described(i)' = Described(i)
  BY DEF Bytes, Described, FilesOf
<1>2. \A j : Touching(j, i)' <=> Touching(j, i)
  BY DEF Touching
<1>3. up'[u].pc \in {"fillMeta", "renameMeta"} => files'[TmpName[i]] = files[TmpName[i]]
  BY DEF AInv, PutsInv, PutInv, Writing, FilesOf
<1> QED BY <1>1, <1>2, <1>3 DEF SoloOf, Ended, Patched, Header, Touching

\* A Put that is under way keeps its id and cannot meet one that is alone on
\* the same files.
LEMMA OthersAreElsewhere ==
  ASSUME AInv, NEW u \in Upload, SoloOf(u), NEW w \in Upload \ {u}, ~ Ended(w)
  PROVE  ~ Touching(up[w].id, up[u].id)
BY DEF SoloOf

\* A file that is renamed or unlinked elsewhere is not one it has open.
LEMMA OpenFilesStay ==
  ASSUME AInv, NEW x \in Upload, up[x].id \in Id, driver = "fs",
         NEW j \in Id, ~ Touching(j, up[x].id)
  PROVE  /\ \A m \in FilesOf(j) : Unlinked(up[x], m) = up[x]
         /\ Renamed(up[x], TmpName[j], MetaName[j]) = up[x]
<1>1. up[x] \in PutCall /\ PutInv(up[x])
  BY DEF AInv, TypeOK, PutsInv
<1>2. FilesOf(j) \cap FilesOf(up[x].id) = {} /\ None \notin FilesOf(j)
  BY ApartIsApart, NamesOfIds, NoneIsOutside DEF FilesOf
<1>3. up[x].fd \in {None} \cup FilesOf(up[x].id)
  BY <1>1 DEF PutInv, FilesOf
<1>4. up[x].fd \notin FilesOf(j)
  BY <1>2, <1>3
<1> QED BY <1>1, <1>4, FilesMove DEF FilesOf

LEMMA HandlersKeepIds ==
  ASSUME AInv, NEW w \in Upload, Handler(w)
  PROVE  \A x \in Upload : up'[x].id = up[x].id
<1>1. up \in [Upload -> PutCall]
  BY DEF AInv, TypeOK
<1>2. ASSUME NEW n, NEW pump, up' = [up EXCEPT ![w] = [up[w] EXCEPT !.n = n, !.pump = pump]]
      PROVE  \A x \in Upload : up'[x].id = up[x].id
  BY <1>1, <1>2 DEF PutCall
<1>3. ASSUME NEW pc, up' = [up EXCEPT ![w] = [up[w] EXCEPT !.pc = pc]]
      PROVE  \A x \in Upload : up'[x].id = up[x].id
  BY <1>1, <1>3 DEF PutCall
<1>4. ASSUME NEW rec,
             up' = [up EXCEPT ![w] = [up[w] EXCEPT !.pc = "truncMeta", !.phase = "patch", !.rec = rec]]
      PROVE  \A x \in Upload : up'[x].id = up[x].id
  BY <1>1, <1>4 DEF PutCall
<1>5. CASE Copy(w)
  BY <1>2, <1>5 DEF Copy, Pumps
<1>6. CASE CopyEnd(w) \/ CopyFails(w) \/ Join(w)
  BY <1>3, <1>6 DEF CopyEnd, CopyFails, Join, Pumps
<1>7. CASE PatchStat(w)
  BY <1>3, <1>4, <1>7 DEF PatchStat, Pumps
<1>8. CASE StoreMemory(w) \/ StoreS3(w) \/ FillMeta(w) \/ PatchMemory(w)
  BY <1>3, <1>8 DEF StoreMemory, StoreS3, FillMeta, PatchMemory
<1>10. CASE TruncMeta(w)
  BY <1>1, <1>10 DEF TruncMeta, PutCall
<1>11. CASE RenameData(w) \/ RenameMeta(w) \/ WriteMetaFails(w)
  <2>1. up[w].id \in Id /\ \A x \in Upload : up[x] \in PutCall /\ PutInv(up[x])
    BY <1>11 DEF RenameData, RenameMeta, WriteMetaFails, AInv, TypeOK, PutsInv, PutInv
  <2>2. ASSUME NEW x \in Upload \ {w} PROVE up'[x].id = up[x].id
    <3>1. up'[x] \in {up[x], Unlinked(up[x], up[w].id),
                     Renamed(up[x], TmpName[up[w].id], MetaName[up[w].id])}
      BY <1>11 DEF RenameData, RenameMeta, WriteMetaFails
    <3> QED BY <2>1, <3>1, FilesMove DEF SameCall
  <2>3. CASE RenameData(w)
    <3>1. up'[w] = [up[w] EXCEPT !.pc = "truncMeta", !.rec = Header(w)]
      BY <2>3 DEF RenameData
    <3>2. up'[w].id = up[w].id
      BY <2>1, <3>1 DEF PutCall
    <3> QED BY <2>2, <3>2
  <2>4. CASE RenameMeta(w) \/ WriteMetaFails(w)
    <3>1. PICK pc : up'[w] = [up[w] EXCEPT !.pc = pc, !.fd = None, !.rec = None]
      BY <2>4 DEF RenameMeta, WriteMetaFails
    <3>2. up'[w].id = up[w].id
      BY <2>1, <3>1 DEF PutCall
    <3> QED BY <2>2, <3>2
  <2> QED BY <1>11, <2>3, <2>4
<1> QED BY <1>5, <1>6, <1>7, <1>8, <1>10, <1>11 DEF Handler

\* A step of a pump.
LEMMA SoloPump ==
  ASSUME AInv, NEW u \in Upload, SoloOf(u), NEW w \in Upload, Pump(w)
  PROVE  SoloOf(u)'
<1>1. up \in [Upload -> PutCall] /\ PutInv(up[u])
  BY DEF AInv, TypeOK, PutsInv
<1>2. /\ data' = data /\ meta' = meta /\ files' = files /\ del' = del /\ driver' = driver
  BY DEF Pump, RecvChunk, RecvEOF, RecvError, PumpClose, Pumps, stores, limits
<1>3. PICK q : /\ up' = [up EXCEPT ![w] = q]
               /\ q.pc = up[w].pc /\ q.id = up[w].id /\ q.rec = up[w].rec /\ q.fd = up[w].fd
               /\ q.phase = up[w].phase /\ (q.sent = up[w].sent \/ ~ up[w].eof)
  <2>1. up[w] \in PutCall /\ PutInv(up[w])
    BY DEF AInv, TypeOK, PutsInv
  <2>2. CASE RecvChunk(w)
    <3>1. ~ up[w].eof
      BY <2>1, <2>2 DEF RecvChunk, PutInv
    <3> QED BY <2>1, <2>2, <3>1 DEF RecvChunk, Pumps, PutCall
  <2>3. CASE RecvEOF(w)
    <3> DEFINE q == [up[w] EXCEPT !.pump = "close", !.errCh = "nil", !.eof = TRUE]
    <3>1. /\ q.pc = up[w].pc /\ q.id = up[w].id /\ q.rec = up[w].rec /\ q.fd = up[w].fd
          /\ q.phase = up[w].phase /\ q.sent = up[w].sent
      BY <2>1 DEF PutCall
    <3>2. up' = [up EXCEPT ![w] = q]
      BY <2>3 DEF RecvEOF, Pumps
    <3> HIDE DEF q
    <3> QED BY <3>1, <3>2
  <2>4. CASE RecvError(w)
    <3> DEFINE q == [up[w] EXCEPT !.pump = "ended", !.pipe = "error", !.errCh = "error"]
    <3>1. /\ q.pc = up[w].pc /\ q.id = up[w].id /\ q.rec = up[w].rec /\ q.fd = up[w].fd
          /\ q.phase = up[w].phase /\ q.sent = up[w].sent
      BY <2>1 DEF PutCall
    <3>2. up' = [up EXCEPT ![w] = q]
      BY <2>4 DEF RecvError, Pumps
    <3> HIDE DEF q
    <3> QED BY <3>1, <3>2
  <2>5. CASE PumpClose(w)
    <3> DEFINE q == [up[w] EXCEPT !.pump = "ended", !.pipe = "eof"]
    <3>1. /\ q.pc = up[w].pc /\ q.id = up[w].id /\ q.rec = up[w].rec /\ q.fd = up[w].fd
          /\ q.phase = up[w].phase /\ q.sent = up[w].sent
      BY <2>1 DEF PutCall
    <3>2. up' = [up EXCEPT ![w] = q]
      BY <2>5 DEF PumpClose, Pumps
    <3> HIDE DEF q
    <3> QED BY <3>1, <3>2
  <2> QED BY <2>2, <2>3, <2>4, <2>5 DEF Pump
<1>4. \A x \in Upload : /\ up'[x].pc = up[x].pc /\ up'[x].id = up[x].id /\ up'[x].rec = up[x].rec
                        /\ up'[x].fd = up[x].fd /\ up'[x].phase = up[x].phase
  BY <1>1, <1>3
<1>5. up[u].pc \in Stored => up[u].eof /\ up'[u].sent = up[u].sent
  BY <1>1, <1>3 DEF PutInv
<1> QED BY <1>2, <1>4, <1>5 DEF SoloOf, Ended, Patched, Header, Touching, Bytes, Described

\* A step of another handler.
LEMMA SoloOther ==
  ASSUME AInv, NEW u \in Upload, SoloOf(u), NEW w \in Upload \ {u}, Handler(w)
  PROVE  SoloOf(u)'
<1> DEFINE i == up[u].id  j == up[w].id
<1>1. /\ up \in [Upload -> PutCall] /\ data \in [Id -> Object \cup {None}]
      /\ meta \in [Id -> Metadata \cup {None}] /\ files \in [Name -> Object \cup Metadata \cup {None}]
      /\ i \in Id /\ PutInv(up[w])
  BY DEF AInv, TypeOK, SoloOf, PutsInv
<1>2. ~ Ended(w) /\ up[w].pc # "idle" /\ del' = del /\ driver' = driver
  BY DEF Handler, Copy, CopyEnd, CopyFails, Join, PatchStat, StoreMemory, StoreS3, RenameData,
         TruncMeta, FillMeta, RenameMeta, WriteMetaFails, PatchMemory, Pumps, limits, Ended
<1>3. j \in Id /\ ~ Touching(j, i)
  BY <1>1, <1>2, OthersAreElsewhere DEF PutInv, Ended
<1>4. i # j /\ (driver = "fs" => FilesOf(i) \cap FilesOf(j) = {}) /\ FilesOf(i) \subseteq Name
  BY <1>1, <1>3, ApartIsApart, NamesOfIds DEF FilesOf
<1>5. CASE Copy(w) \/ CopyEnd(w) \/ CopyFails(w) \/ Join(w) \/ PatchStat(w)
           \/ StoreMemory(w) \/ StoreS3(w) \/ TruncMeta(w) \/ FillMeta(w) \/ PatchMemory(w)
  <2>1. \A x \in Upload \ {w} : up'[x] = up[x]
    BY <1>1, <1>5 DEF Copy, CopyEnd, CopyFails, Join, PatchStat, Pumps, StoreMemory, StoreS3,
                      TruncMeta, FillMeta, PatchMemory
  <2>2. up'[w].id = j
    BY HandlersKeepIds
  <2>3. data'[i] = data[i] /\ meta'[i] = meta[i]
    BY <1>1, <1>4, <1>5 DEF Copy, CopyEnd, CopyFails, Join, PatchStat, Pumps, StoreMemory, StoreS3,
                      TruncMeta, FillMeta, PatchMemory, stores
  <2>4. driver = "fs" => \A m \in FilesOf(i) : files'[m] = files[m]
    <3>1. CASE TruncMeta(w)
      BY <1>1, <1>4, <3>1 DEF TruncMeta, FilesOf
    <3>2. CASE FillMeta(w)
      <4>1. up[w].fd \in {None} \cup FilesOf(j)
        BY <1>1 DEF PutInv, FilesOf
      <4> QED BY <1>1, <1>4, <3>2, <4>1 DEF FillMeta
    <3>3. CASE ~ TruncMeta(w) /\ ~ FillMeta(w)
      BY <1>5, <3>3 DEF Copy, CopyEnd, CopyFails, Join, PatchStat, Pumps, StoreMemory, StoreS3,
                      PatchMemory, stores
    <3> QED BY <3>1, <3>2, <3>3
  <2>5. \A x \in Upload \ {u} : Touching(up'[x].id, i) => up'[x].pc \in {"done", "failed"}
    BY <1>3, <2>1, <2>2 DEF SoloOf, Ended
  <2>6. ~ Touching(del'.id, i)
    BY <1>2 DEF SoloOf
  <2> QED BY <1>2, <2>1, <2>3, <2>4, <2>5, <2>6, SoloFrame
<1>6. CASE RenameData(w) \/ RenameMeta(w) \/ WriteMetaFails(w)
  <2>0. driver = "fs"
    BY <1>1, <1>6 DEF RenameData, RenameMeta, WriteMetaFails, PutInv, Writing
  <2>1. \A x \in Upload \ {w} : up'[x] \in {up[x], Unlinked(up[x], j), Renamed(up[x], TmpName[j], MetaName[j])}
    BY <1>6 DEF RenameData, RenameMeta, WriteMetaFails
  <2>2. \A x \in Upload \ {w} : up'[x].id = up[x].id /\ up'[x].pc = up[x].pc
    <3>1. \A x \in Upload : up[x] \in PutCall /\ PutInv(up[x])
      BY DEF AInv, TypeOK, PutsInv
    <3> QED BY <1>3, <2>1, <3>1, FilesMove DEF SameCall
  <2>3. up'[u] = up[u]
    BY <1>1, <1>3, <2>0, <2>1, OpenFilesStay DEF FilesOf
  <2>4. up'[w].id = j
    BY HandlersKeepIds
  <2>5. \A m \in FilesOf(i) : files'[m] = files[m]
    BY <1>1, <1>4, <1>6, <2>0 DEF RenameData, RenameMeta, WriteMetaFails, FilesOf
  <2>6. \A x \in Upload \ {u} : Touching(up'[x].id, i) => up'[x].pc \in {"done", "failed"}
    BY <1>3, <2>2, <2>4 DEF SoloOf, Ended
  <2>7. ~ Touching(del'.id, i)
    BY <1>2 DEF SoloOf
  <2> QED BY <1>2, <2>0, <2>3, <2>5, <2>6, <2>7, SoloFrame
<1> QED BY <1>5, <1>6 DEF Handler

LEMMA HeaderIsPatched ==
  ASSUME NEW u
  PROVE  [Header(u) EXCEPT !.size = u, !.hash = u] = [up |-> u, size |-> u, hash |-> u]
<1> DEFINE h == [Header(u) EXCEPT !.size = u]
<1>1. h = [up |-> u, size |-> u, hash |-> None]
  BY DEF Header
<1> HIDE DEF h
<1>2. [h EXCEPT !.hash = u] = [up |-> u, size |-> u, hash |-> u]
  BY <1>1
<1> QED BY <1>2 DEF h

\* A step of its own handler takes it one stage further.
LEMMA SoloOwn ==
  ASSUME AInv, NEW u \in Upload, SoloOf(u), Handler(u), ~ WriteMetaFails(u),
         NEW i \in Id, up[u].id = i
  PROVE  SoloOf(u)'
<1> DEFINE r == up[u]
<1>1. /\ up \in [Upload -> PutCall] /\ r \in PutCall /\ PutInv(r) /\ i \in Id
      /\ data \in [Id -> Object \cup {None}]
      /\ meta \in [Id -> Metadata \cup {None}]
      /\ files \in [Name -> Object \cup Metadata \cup {None}]
      /\ \A x \in Upload : up[x] \in PutCall /\ PutInv(up[x])
  BY DEF AInv, TypeOK, SoloOf, PutsInv
<1>2. del' = del /\ driver' = driver
  BY DEF Handler, Copy, CopyEnd, CopyFails, Join, PatchStat, StoreMemory, StoreS3, RenameData,
         TruncMeta, FillMeta, RenameMeta, PatchMemory, Pumps, limits
<1>3. \A x \in Upload : up'[x].id = up[x].id
  BY HandlersKeepIds
<1>4. \A x \in Upload \ {u} : up'[x].pc = up[x].pc
  <2>1. CASE RenameData(u) \/ RenameMeta(u)
    <3>1. \A x \in Upload \ {u} :
             up'[x] \in {Unlinked(up[x], i), Renamed(up[x], TmpName[i], MetaName[i])}
      BY <2>1 DEF RenameData, RenameMeta
    <3>2. \A x \in Upload \ {u} : LET p == Unlinked(up[x], i)
                                    q == Renamed(up[x], TmpName[i], MetaName[i])
                                IN  p.pc = up[x].pc /\ q.pc = up[x].pc
      BY <1>1, FilesMove DEF SameCall
    <3> QED BY <3>1, <3>2
  <2>2. CASE ~ RenameData(u) /\ ~ RenameMeta(u)
    BY <1>1, <2>2 DEF Handler, Copy, CopyEnd, CopyFails, Join, PatchStat, Pumps, StoreMemory,
                      StoreS3, TruncMeta, FillMeta, PatchMemory
  <2> QED BY <2>1, <2>2
<1>5. /\ ~ Touching(del.id, i)' /\ up'[u].id = i
      /\ \A x \in Upload \ {u} : Touching(up[x].id, i)' => Ended(x)'
  <2>1. \A j : Touching(j, i)' <=> Touching(j, i)
    BY <1>2 DEF Touching
  <2>2. ~ Touching(del'.id, i)
    BY <1>2 DEF SoloOf
  <2>3. \A x \in Upload \ {u} : Touching(up'[x].id, i) => Ended(x)'
    BY <1>3, <1>4 DEF SoloOf, Ended
  <2> QED BY <1>2, <1>3, <2>1, <2>2, <2>3 DEF Touching
<1>0. /\ {i, MetaName[i], TmpName[i]} \subseteq Name
      /\ MetaName[i] # i /\ TmpName[i] # i /\ MetaName[i] # TmpName[i]
  BY ArtifactAssumption DEF Name
<1>6. Header(u) # None /\ Header(u) # Partial
  BY NoneIsOutside
<1> DEFINE stage == up'[u].pc
           Progress ==
    /\ stage # "idle"
    /\ stage \in Stored  => Bytes(i)' = [up |-> u, n |-> up'[u].sent]
    /\ stage \in Writing => up'[u].rec = IF up'[u].phase = "put" THEN Header(u) ELSE Patched(u)
    /\ stage = "fillMeta"   => up'[u].fd = TmpName[i] /\ files'[TmpName[i]] = Partial
    /\ stage = "renameMeta" => files'[TmpName[i]] = up'[u].rec
    /\ stage \in {"join", "patch"} => Described(i)' = IF driver = "s3" THEN Patched(u) ELSE Header(u)
    /\ stage = "done" => Described(i)' = Patched(u)
<1> SUFFICES Progress
  BY <1>1, <1>2, <1>5 DEF SoloOf, Header, Patched
<1>7. CASE Copy(u)
  <2> DEFINE q == [r EXCEPT !.n = @ + 1, !.pump = "recv"]
  <2>1. q.pc = r.pc
    BY <1>1 DEF PutCall
  <2>2. up'[u] = q
    BY <1>1, <1>7 DEF Copy, Pumps
  <2> QED BY <1>7, <2>1, <2>2 DEF Copy, Stored, Writing
<1>8. ASSUME NEW pc, up' = [up EXCEPT ![u] = [r EXCEPT !.pc = pc]]
      PROVE  /\ stage = pc /\ up'[u].sent = r.sent /\ up'[u].rec = r.rec /\ up'[u].fd = r.fd
             /\ up'[u].phase = r.phase
  BY <1>1, <1>8 DEF PutCall
<1>9. CASE CopyEnd(u) \/ CopyFails(u)
  BY <1>8, <1>9 DEF CopyEnd, CopyFails, Pumps, Stored, Writing
<1>10. CASE Join(u)
  <2>1. Bytes(i)' = Bytes(i) /\ Described(i)' = Described(i) /\ stage \in {"failed", "done", "patch"}
        /\ up'[u].sent = r.sent /\ (stage = "done" => driver = "s3")
    BY <1>2, <1>8, <1>10 DEF Join, Pumps, stores, Bytes, Described
  <2> QED BY <1>10, <2>1 DEF Join, SoloOf, Stored, Writing
<1>11. CASE StoreMemory(u)
  <2>1. /\ stage = "join" /\ up'[u].sent = r.sent /\ r.n = r.sent
        /\ data'[i] = [up |-> u, n |-> r.n] /\ meta'[i] = Header(u) /\ driver = "memory"
    BY <1>1, <1>11 DEF StoreMemory, PutCall, PutInv
  <2> QED BY <1>2, <2>1 DEF Stored, Writing, Bytes, Described
<1>12. CASE StoreS3(u)
  <2>1. /\ stage = "join" /\ up'[u].sent = r.sent /\ r.n = r.sent
        /\ data'[i] = [up |-> u, n |-> r.n] /\ meta'[i] = [Header(u) EXCEPT !.size = u]
        /\ driver = "s3"
    BY <1>1, <1>12 DEF StoreS3, PutCall, PutInv
  <2>2. [Header(u) EXCEPT !.size = u] = Patched(u)
    BY <2>1 DEF Header, Patched
  <2> QED BY <1>2, <2>1, <2>2 DEF Stored, Writing, Bytes, Described
<1>13. CASE RenameData(u)
  <2>1. /\ stage = "truncMeta" /\ up'[u].sent = r.sent /\ r.n = r.sent
        /\ Bytes(i)' = [up |-> u, n |-> r.n] /\ up'[u].rec = Header(u) /\ up'[u].phase = "put"
    BY <1>0, <1>1, <1>2, <1>13 DEF RenameData, PutCall, PutInv, Bytes
  <2> QED BY <2>1 DEF Stored, Writing
<1>14. CASE TruncMeta(u)
  <2>1. /\ stage = "fillMeta" /\ up'[u].sent = r.sent /\ up'[u].rec = r.rec
        /\ up'[u].phase = r.phase /\ up'[u].fd = TmpName[i] /\ files'[TmpName[i]] = Partial
        /\ Bytes(i)' = Bytes(i) /\ r.pc = "truncMeta"
    BY <1>0, <1>1, <1>2, <1>14 DEF TruncMeta, PutCall, Bytes
  <2> QED BY <2>1 DEF SoloOf, Stored, Writing
<1>15. CASE FillMeta(u)
  <2>1. /\ stage = "renameMeta" /\ up'[u].sent = r.sent /\ up'[u].rec = r.rec
        /\ up'[u].phase = r.phase /\ r.pc = "fillMeta"
    BY <1>1, <1>15 DEF FillMeta, PutCall
  <2>2. r.fd = TmpName[i] /\ r.fd # None /\ Overwrite(files[TmpName[i]], r.rec) = {r.rec}
    BY <1>0, <2>1, NoneIsOutside DEF SoloOf, Overwrite
  <2>3. files'[TmpName[i]] = r.rec /\ Bytes(i)' = Bytes(i)
    BY <1>0, <1>1, <1>2, <1>15, <2>2 DEF FillMeta, Bytes
  <2> QED BY <2>1, <2>3 DEF SoloOf, Stored, Writing
<1>16. CASE RenameMeta(u)
  <2>0. driver = "fs" /\ up'[u] = [up[u] EXCEPT !.pc = AfterMeta(u), !.fd = None, !.rec = None]
    BY <1>1, <1>16 DEF RenameMeta, PutInv, Writing
  <2>1. /\ stage = AfterMeta(u) /\ up'[u].sent = r.sent /\ Bytes(i)' = Bytes(i)
        /\ r.pc = "renameMeta" /\ Described(i)' = files[TmpName[i]]
    <3>1. stage = AfterMeta(u) /\ up'[u].sent = r.sent
      BY <1>1, <2>0 DEF PutCall
    <3>2. files'[i] = files[i] /\ files'[MetaName[i]] = files[TmpName[i]]
      BY <1>0, <1>1, <1>16 DEF RenameMeta
    <3> QED BY <1>2, <1>16, <2>0, <3>1, <3>2 DEF RenameMeta, Bytes, Described
  <2>2. Described(i)' = (IF r.phase = "put" THEN Header(u) ELSE Patched(u))
        /\ Bytes(i) = [up |-> u, n |-> r.sent]
    BY <2>1 DEF SoloOf, Stored, Writing
  <2> QED BY <2>0, <2>1, <2>2 DEF AfterMeta, Stored, Writing
<1>17. CASE PatchMemory(u)
  <2>1. /\ stage = "done" /\ up'[u].sent = r.sent /\ data' = data /\ driver = "memory"
        /\ meta[i] = Header(u) /\ data[i] = [up |-> u, n |-> r.sent]
    BY <1>1, <1>17 DEF PatchMemory, PutCall, SoloOf, Stored, Bytes, Described
  <2>2. meta'[i] = [Header(u) EXCEPT !.size = u, !.hash = u]
    BY <1>1, <1>6, <1>17, <2>1 DEF PatchMemory
  <2>3. [Header(u) EXCEPT !.size = u, !.hash = u] = Patched(u)
    BY <2>1, HeaderIsPatched DEF Patched
  <2> QED BY <1>2, <2>1, <2>2, <2>3 DEF Stored, Writing, Bytes, Described
<1>18. CASE PatchStat(u)
  <2> DEFINE p == [Header(u) EXCEPT !.size = u, !.hash = u]
             q == [r EXCEPT !.pc = "truncMeta", !.phase = "patch", !.rec = p]
  <2>1. /\ Described(i) = Header(u) /\ driver = "fs" /\ Bytes(i)' = Bytes(i)
        /\ Bytes(i) = [up |-> u, n |-> r.sent]
    BY <1>2, <1>18 DEF PatchStat, SoloOf, Stored, Pumps, stores, Bytes
  <2>6. Stat(i) = Header(u) /\ Stat(i) # None
    BY <1>6, <2>1, NoneIsOutside DEF Stat
  <2>2. up' = [up EXCEPT ![u] = q]
    BY <1>18, <2>6 DEF PatchStat, Pumps
  <2>3. q.pc = "truncMeta" /\ q.phase = "patch" /\ q.rec = p /\ q.sent = r.sent
    BY <1>1 DEF PutCall
  <2>4. p = Patched(u)
    BY <2>1, HeaderIsPatched DEF Patched
  <2> HIDE DEF p, q
  <2>5. up'[u] = q
    BY <1>1, <2>2
  <2> QED BY <2>1, <2>3, <2>4, <2>5 DEF Stored, Writing
<1> QED BY <1>7, <1>9, <1>10, <1>11, <1>12, <1>13, <1>14, <1>15, <1>16, <1>17, <1>18 DEF Handler

\* The beginning of a Put: it is alone if the calls on its id are over, and
\* whoever was alone on that id no longer is.
LEMMA SoloBegin ==
  ASSUME AInv, SoloInv, NEW w \in Upload, NEW i \in Id, PutBegin(w, i)
  PROVE  SoloInv'
<1> DEFINE q == [NoUpload EXCEPT !.id = i, !.pump = "recv",
                    !.pc = IF ValidateID(i) \/ driver = "memory" THEN "copy" ELSE "failed"]
           others == { x \in Upload \ {w} : Touching(up[x].id, i) }
<1>1. /\ up \in [Upload -> PutCall] /\ up[w].pc = "idle" /\ up[w].id = None
  BY DEF AInv, TypeOK, PutsInv, PutInv, PutBegin, NoUpload
<1>2. /\ up' = [up EXCEPT ![w] = q] /\ UNCHANGED <<data, meta, files, del, driver>>
      /\ solo' = (solo \ others)
                 \cup (IF (\A x \in others : Ended(x)) /\ ~ Touching(del.id, i) THEN {w} ELSE {})
  BY DEF PutBegin, stores, limits
<1>3. q.pc \in {"copy", "failed"} /\ q.id = i
  BY DEF NoUpload
<1> HIDE DEF q
<1>4. up'[w] = q /\ \A x \in Upload \ {w} : up'[x] = up[x]
  BY <1>1, <1>2
<1>5. ASSUME NEW u \in solo, u \notin others PROVE SoloOf(u)'
  <2>1. u \in Upload /\ SoloOf(u) /\ u # w
    BY <1>1, <1>5 DEF SoloInv, SoloOf, AInv, TypeOK
  <2>2. ~ Touching(i, up[u].id)
    BY <1>5, <2>1, ApartIsApart DEF SoloOf
  <2>3. \A x \in Upload \ {u} : Touching(up'[x].id, up[u].id) => up'[x].pc \in {"done", "failed"}
    BY <1>3, <1>4, <2>1, <2>2 DEF SoloOf, Ended
  <2>4. ~ Touching(del'.id, up[u].id)
    BY <1>2, <2>1 DEF SoloOf
  <2> QED BY <1>2, <1>4, <2>1, <2>3, <2>4, SoloFrame
<1>6. ASSUME \A x \in others : Ended(x), ~ Touching(del.id, i) PROVE SoloOf(w)'
  <2>1. \A x \in Upload \ {w} : Touching(up'[x].id, i) => up'[x].pc \in {"done", "failed"}
    BY <1>4, <1>6 DEF Ended
  <2> QED BY <1>2, <1>3, <1>4, <1>6, <2>1 DEF SoloOf, Ended, Stored, Writing, Touching
<1> QED BY <1>2, <1>5, <1>6 DEF SoloInv

\* Readers change nothing, and a Delete parts with the uploads on its id.
LEMMA SoloRest ==
  ASSUME AInv, SoloInv,
         \/ \E k \in Reader :
               (\E i \in Id : GetStat(k, i)) \/ GetMemory(k) \/ GetOpen(k) \/ List(k, -1, 1)
         \/ (\E i \in Id : DeleteBegin(i)) \/ DeleteRemove \/ DeleteMeta
  PROVE  SoloInv'
<1>1. /\ up \in [Upload -> PutCall] /\ data \in [Id -> Object \cup {None}]
      /\ meta \in [Id -> Metadata \cup {None}] /\ solo \subseteq Upload
      /\ files \in [Name -> Object \cup Metadata \cup {None}]
      /\ \A x \in Upload : PutInv(up[x])
  BY DEF AInv, TypeOK, PutsInv
<1>2. ASSUME NEW k \in Reader,
             (\E i \in Id : GetStat(k, i)) \/ GetMemory(k) \/ GetOpen(k) \/ List(k, -1, 1)
      PROVE  SoloInv'
  <2>1. UNCHANGED <<up, data, meta, files, del, driver, solo>>
    BY <1>2 DEF GetStat, GetMemory, GetOpen, List, Reads, stores, limits
  <2> QED BY <2>1 DEF SoloInv, SoloOf, Ended, Patched, Header, Touching, Bytes, Described
<1>3. ASSUME NEW u \in solo, NEW j \in Id, ~ Touching(j, up[u].id), driver' = driver,
             ~ Touching(del'.id, up[u].id),
             (Drop(j) /\ driver # "fs") \/ (driver = "fs" /\ \E m \in {j, MetaName[j]} : Unlink(m))
             \/ UNCHANGED <<stores, up>>
      PROVE  SoloOf(u)'
  <2>1. u \in Upload /\ SoloOf(u) /\ up[u].id \in Id
    BY <1>1 DEF SoloInv, SoloOf
  <2>2. /\ up[u].id # j /\ (driver = "fs" => FilesOf(up[u].id) \cap FilesOf(j) = {})
        /\ FilesOf(up[u].id) \subseteq Name
    BY <1>3, <2>1, ApartIsApart, NamesOfIds DEF FilesOf
  <2>3. CASE (Drop(j) /\ driver # "fs") \/ UNCHANGED <<stores, up>>
    <3>1. /\ data'[up[u].id] = data[up[u].id] /\ meta'[up[u].id] = meta[up[u].id]
          /\ files' = files /\ up' = up
      BY <1>1, <2>1, <2>2, <2>3 DEF Drop, stores
    <3>2. \A x \in Upload \ {u} : Touching(up'[x].id, up[u].id) => up'[x].pc \in {"done", "failed"}
      BY <2>1, <3>1 DEF SoloOf, Ended
    <3> QED BY <1>3, <2>1, <3>1, <3>2, SoloFrame
  <2>4. ASSUME NEW m \in {j, MetaName[j]}, Unlink(m), driver = "fs" PROVE SoloOf(u)'
    <3>1. \A x \in Upload : up'[x] = Unlinked(up[x], m)
      BY <2>4 DEF Unlink
    <3>2. \A x \in Upload : up'[x].pc = up[x].pc /\ up'[x].id = up[x].id
      BY <1>1, <3>1, FilesMove DEF SameCall
    <3>3. up'[u] = up[u]
      BY <1>3, <2>1, <2>4, <3>1, OpenFilesStay DEF FilesOf
    <3>4. \A n \in FilesOf(up[u].id) : files'[n] = files[n]
      BY <1>1, <2>2, <2>4 DEF Unlink, FilesOf
    <3>5. \A x \in Upload \ {u} : Touching(up'[x].id, up[u].id) => up'[x].pc \in {"done", "failed"}
      BY <2>1, <3>2 DEF SoloOf, Ended
    <3> QED BY <1>3, <2>1, <2>4, <3>3, <3>4, <3>5, SoloFrame
  <2> QED BY <1>3, <2>3, <2>4
<1>4. ASSUME NEW i \in Id, DeleteBegin(i) PROVE SoloInv'
  <2>1. ASSUME NEW u \in solo, ~ Touching(up[u].id, i) PROVE SoloOf(u)'
    <3>1. u \in Upload /\ SoloOf(u) /\ up[u].id \in Id
      BY <1>1 DEF SoloInv, SoloOf
    <3>2. driver' = driver /\ ~ Touching(i, up[u].id)
      BY <1>4, <2>1, <3>1, ApartIsApart DEF DeleteBegin
    <3>3. CASE driver = "memory"
      <4>1. Drop(i) /\ del' = del
        BY <1>4, <3>3 DEF DeleteBegin
      <4>2. ~ Touching(del'.id, up[u].id)
        BY <3>1, <4>1 DEF SoloOf
      <4> QED BY <1>3, <3>2, <3>3, <4>1, <4>2
    <3>4. CASE driver # "memory"
      <4>1. UNCHANGED <<stores, up>> /\ del' \in {NoDelete, [pc |-> "remove", id |-> i]}
        BY <1>4, <3>4 DEF DeleteBegin
      <4>2. ~ Touching(del'.id, up[u].id)
        BY <3>2, <4>1, NoneIsOutside DEF NoDelete, Touching
      <4> QED BY <1>3, <3>2, <4>1, <4>2
    <3> QED BY <3>3, <3>4
  <2>2. solo' = { u \in solo : ~ Touching(up[u].id, i) }
    BY <1>4 DEF DeleteBegin
  <2> QED BY <2>1, <2>2 DEF SoloInv
<1>5. CASE DeleteRemove \/ DeleteMeta
  <2>1. /\ driver' = driver /\ solo' = solo /\ del.id \in Id /\ del'.id \in {None, del.id}
        /\ \/ Drop(del.id) /\ driver # "fs"
           \/ driver = "fs" /\ \E m \in {del.id, MetaName[del.id]} : Unlink(m)
    BY <1>5 DEF DeleteRemove, DeleteMeta, limits, NoDelete, AInv, TypeOK, EntryInv
  <2>2. \A u \in solo : ~ Touching(del.id, up[u].id) /\ ~ Touching(del'.id, up[u].id)
    BY <2>1, NoneIsOutside DEF SoloInv, SoloOf, Touching
  <2> QED BY <1>3, <2>1, <2>2 DEF SoloInv
<1> QED BY <1>2, <1>4, <1>5

\* An upload that returned and met no other call on its id or its files is
\* stored with its own metadata, patched unless the driver cannot: the
\* temporary file of the fs driver, which all writers of the id share, was
\* its own throughout.  A restart of the process changes nothing of it.
THEOREM SoloPutsAreDescribed == Spec => []SoloPutIsDescribed
<1>1. Init => SoloInv
  BY DEF Init, SoloInv
<1>2. AInv /\ SoloInv /\ [Next]_vars => SoloInv'
  <2> SUFFICES ASSUME AInv, SoloInv, [Next]_vars PROVE SoloInv'
    OBVIOUS
  <2>1. CASE UNCHANGED vars
    BY <2>1 DEF SoloInv, SoloOf, Ended, Patched, Header, Touching, Bytes, Described, vars, stores,
                limits
  <2>2. solo \subseteq Upload
    BY DEF AInv, TypeOK
  <2>3. ASSUME NEW w \in Upload, Pump(w) PROVE SoloInv'
    <3>1. solo' = solo
      BY <2>3 DEF Pump, RecvChunk, RecvEOF, RecvError, PumpClose, Pumps
    <3> QED BY <2>2, <2>3, <3>1, SoloPump DEF SoloInv
  <2>4. ASSUME NEW w \in Upload, Handler(w) PROVE SoloInv'
    <3>1. solo' \subseteq solo /\ (WriteMetaFails(w) => w \notin solo')
      BY <2>4 DEF Handler, Copy, CopyEnd, CopyFails, Join, PatchStat, StoreMemory, StoreS3,
                  RenameData, TruncMeta, FillMeta, RenameMeta, WriteMetaFails, PatchMemory, Pumps
    <3>2. ASSUME NEW u \in solo' PROVE SoloOf(u)'
      <4>1. u \in Upload /\ SoloOf(u) /\ up[u].id \in Id
        BY <2>2, <3>1 DEF SoloInv, SoloOf
      <4> QED BY <2>4, <3>1, <4>1, SoloOther, SoloOwn
    <3> QED BY <3>2 DEF SoloInv
  <2>5. ASSUME NEW w \in Upload, PutRefused(w) PROVE SoloInv'
    <3>1. /\ UNCHANGED <<data, meta, files, del, driver, solo>>
          /\ \A x \in Upload : up'[x] = IF x = w THEN [up[w] EXCEPT !.pc = "failed"] ELSE up[x]
          /\ up[w].pc = "idle" /\ up[w].id = None
      BY <2>5 DEF PutRefused, stores, limits, AInv, TypeOK, PutsInv, PutInv, NoUpload
    <3>2. [up[w] EXCEPT !.pc = "failed"].id = None
      BY <3>1 DEF AInv, TypeOK, PutCall
    <3>3. ASSUME NEW u \in solo PROVE SoloOf(u)'
      <4>1. u \in Upload /\ SoloOf(u) /\ u # w /\ up[u].id # None
        BY <2>2, <3>1, NoneIsOutside DEF SoloInv, SoloOf
      <4>2. \A x \in Upload \ {u} : Touching(up'[x].id, up[u].id) => up'[x].pc \in {"done", "failed"}
        BY <3>1, <3>2, <4>1, NoneIsOutside DEF SoloOf, Ended, Touching
      <4>3. ~ Touching(del'.id, up[u].id)
        BY <3>1, <4>1 DEF SoloOf
      <4> QED BY <3>1, <4>1, <4>2, <4>3, SoloFrame
    <3> QED BY <3>1, <3>3 DEF SoloInv
  <2>6. CASE Crash
    <3>1. CASE driver = "memory"
      BY <2>6, <3>1 DEF Crash, SoloInv
    <3>2. ASSUME driver # "memory", NEW u \in solo PROVE SoloOf(u)'
      <4>1. u \in Upload /\ SoloOf(u) /\ up \in [Upload -> PutCall]
        BY <2>2 DEF SoloInv, AInv, TypeOK
      <4>2. /\ UNCHANGED <<data, meta, files, driver, solo>> /\ del' = NoDelete
            /\ \A x \in Upload : up'[x] = IF up[x].pc = "idle" THEN up[x] ELSE
                 [up[x] EXCEPT !.pc = IF Ended(x) THEN @ ELSE "failed",
                               !.pump = "ended", !.fd = None, !.rec = None]
        BY <2>6, <3>2 DEF Crash
      <4>3. \A x \in Upload :
               /\ up'[x].id = up[x].id /\ up'[x].sent = up[x].sent
               /\ up'[x].pc = IF up[x].pc = "idle" \/ Ended(x) THEN up[x].pc ELSE "failed"
        <5> SUFFICES ASSUME NEW x \in Upload
                     PROVE  /\ up'[x].id = up[x].id /\ up'[x].sent = up[x].sent
                            /\ up'[x].pc = IF up[x].pc = "idle" \/ Ended(x) THEN up[x].pc ELSE "failed"
          OBVIOUS
        <5>1. ASSUME NEW r \in PutCall, NEW pc
              PROVE  LET q == [r EXCEPT !.pc = pc, !.pump = "ended", !.fd = None, !.rec = None]
                     IN  q.id = r.id /\ q.sent = r.sent /\ q.pc = pc
          BY DEF PutCall
        <5> DEFINE pc == IF Ended(x) THEN up[x].pc ELSE "failed"
                   q == [up[x] EXCEPT !.pc = pc, !.pump = "ended", !.fd = None, !.rec = None]
        <5>2. up[x] \in PutCall /\ up'[x] = IF up[x].pc = "idle" THEN up[x] ELSE q
          BY <4>1, <4>2
        <5> HIDE DEF pc
        <5>3. q.id = up[x].id /\ q.sent = up[x].sent /\ q.pc = pc
          BY <5>1, <5>2
        <5> HIDE DEF q
        <5> QED BY <5>2, <5>3 DEF pc
      <4>4. ~ Touching(del'.id, up[u].id)
        BY <4>2, NoneIsOutside DEF NoDelete, Touching
      <4> QED BY <4>1, <4>2, <4>3, <4>4 DEF SoloOf, Ended, Stored, Writing, Touching, Bytes,
                 Described, Patched
    <3> QED BY <2>6, <3>1, <3>2 DEF Crash, SoloInv
  <2> QED BY <2>1, <2>3, <2>4, <2>5, <2>6, SoloBegin, SoloRest DEF Next
<1>3. SoloInv => SoloPutIsDescribed
  BY DEF SoloInv, SoloOf, SoloPutIsDescribed, Patched, Stored
<1> QED BY <1>1, <1>2, <1>3, TypesAlways, PTL DEF Spec

=============================================================================
