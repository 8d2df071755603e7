----------------------------- MODULE FileHeader -----------------------------
(***************************************************************************)
(* The on-disk file headers of NonOS (filesys/filehdr.cc) and the three    *)
(* FileSystem calls that allocate and free sectors through them:           *)
(* Create, WriteUser and Remove, and the directory calls CreateDir,       *)
(* RemoveDir and ChangeDir (filesys/filesys.cc).                           *)
(*                                                                         *)
(* The disk is kept as raw 4-byte words, as FetchFrom and WriteBack copy   *)
(* a FileHeader to and from a sector: word 0 is the type, word 1 numBytes, *)
(* word 2 numSectors and words 3.. dataSectors.  The indirect block is a   *)
(* FileHeader of its own whose data sectors hold 4-byte sector numbers,    *)
(* read and written through OpenFile, so a sector that is not a header is  *)
(* read as one exactly where the code reads it as one.                     *)
(*                                                                         *)
(* Each call runs under directoryMutex (and freeMapMutex from the fetch of *)
(* the free map to its write-back), so the calls are atomic steps with     *)
(* respect to each other.  A directory's entries are kept per directory    *)
(* header sector rather than as words of its data sectors.                 *)
(***************************************************************************)
EXTENDS Integers, Sequences, FiniteSets, TLC

Seqs == INSTANCE SequencesExt

CONSTANTS
    SectorSize,     \* bytes per sector (disk.h)
    NumSectors,     \* sectors on the disk (disk.h)
    Names,          \* file and directory names user programs pass to the calls
    Dot, DotDot,    \* the names "." and ".."
    DirArgs,        \* names passed to CreateDir and RemoveDir
    Paths,          \* paths passed to ChangeDir, cut at '/' by ParsePath
    NumDirEntries,  \* capacity of every directory (NumDirEntries)
    FreeMapBytes,   \* FreeMapFileSize
    DirBytes,       \* DirectoryFileSize
    CreateSizes,    \* initialSize arguments of Create
    WriteSizes,     \* size arguments of WriteUser
    MaxBytes,       \* bound: no write makes a file longer than this
    MaxCalls,       \* bound: number of calls made
    UninitWord,     \* values an uninitialised word of a new FileHeader can hold
    DataWord,       \* the word user data is abstracted to
    Abort           \* model value: an ASSERT failed and Nachos halted

NumDirect == (SectorSize - 3 * 4) \div 4
Words == 0 .. (SectorSize \div 4) - 1
Sectors == 0 .. NumSectors - 1
FreeMapSector == 0
RootSector == 1
DATA_FILE == 0
DIRECTORY == 1
ROOT == 2
NoSector == -1

Entries == Names \cup {Dot, DotDot}

(* Paths for ChangeDir of one name, or of two names: "a", "..", "a/b". *)
ShortPaths == {<<n>> : n \in Entries} \cup {<<m, n>> : m, n \in Names}

ASSUME NumDirect >= 2 /\ Abort \notin Int
ASSUME Dot \notin Names /\ DotDot \notin Names /\ Dot # DotDot
ASSUME DirArgs \subseteq Entries /\ Paths \subseteq Seq(Entries) \ {<<>>}

VARIABLES
    disk,         \* disk[s][w]: word w of sector s
    freeMapDisk,  \* the free map as last written back to freeMapFile
    dirs,         \* dirs[d][n]: the entry n of the directory of header d, or NoSector
    cwd,          \* DirectorySector: the header sector of the current directory
    cdDone,       \* history: where the last ChangeDir that returned TRUE moved to
    owned,        \* history: live header sector -> its type and what Find gave it
    crashed,      \* an ASSERT failed
    calls         \* calls made so far, for the bound MaxCalls

vars == <<disk, freeMapDisk, dirs, cwd, cdDone, owned, crashed, calls>>

DivRoundUp(n, s) == (n + s - 1) \div s
ValidSector(s) == s \in Sectors

(***************************************************************************)
(* FetchFrom and WriteBack: a FileHeader is the first words of a sector.   *)
(***************************************************************************)
HdrAt(d, s) ==
    [type |-> d[s][0], numBytes |-> d[s][1], numSectors |-> d[s][2],
     ds |-> [i \in 0 .. NumDirect - 1 |-> d[s][3 + i]]]

WriteBack(d, s, h) ==
    [d EXCEPT ![s] = [w \in Words |->
        CASE w = 0 -> h.type [] w = 1 -> h.numBytes [] w = 2 -> h.numSectors
          [] OTHER -> h.ds[w - 3]]]

(* new FileHeader: a header whose words are uninitialised memory. *)
NewHdr(g) == [type |-> g, numBytes |-> g, numSectors |-> g,
              ds |-> [i \in 0 .. NumDirect - 1 |-> g]]

(* Allocate's initialisation before it calls Extend. *)
Fresh(h, which) == [h EXCEPT !.numBytes = 0, !.type = which, !.numSectors = 0]

(* BitMap::Find, called n times: the n lowest clear bits, all marked. *)
FreeSeq(fm) ==
    LET from[s \in 0 .. NumSectors] ==
            IF s = NumSectors THEN <<>>
            ELSE IF s \in fm THEN from[s + 1] ELSE <<s>> \o from[s + 1]
    IN from[0]

(***************************************************************************)
(* ByteToSector, and the 4-byte OpenFile::ReadAt it calls on the indirect  *)
(* block, which itself calls ByteToSector on the indirect block's header.  *)
(* A read past the end returns 0 bytes, and ByteToSector ASSERTs size == 4.*)
(***************************************************************************)
(* ASSERT(size == 4) on the word ReadAt returned. *)
SizeIs4(w) == IF w = NoSector THEN Abort ELSE w

ReadIn(d, s, pos) == IF ~ValidSector(s) THEN Abort ELSE d[s][(pos % SectorSize) \div 4]

RECURSIVE ByteToSector(_, _, _), ReadWord(_, _, _), ReadWordOf(_, _, _)
ByteToSector(d, h, offset) ==
    IF offset \div SectorSize < NumDirect - 1 THEN h.ds[offset \div SectorSize]
    ELSE SizeIs4(ReadWord(d, h.ds[NumDirect - 1],
                   4 * ((offset - SectorSize * (NumDirect - 1)) \div SectorSize)))

(* new OpenFile(hs) then ReadAt(&word, 4, pos); NoSector for a short read. *)
ReadWord(d, hs, pos) == IF ~ValidSector(hs) THEN Abort ELSE ReadWordOf(d, HdrAt(d, hs), pos)
ReadWordOf(d, h, pos) ==
    IF pos >= h.numBytes THEN NoSector ELSE ReadIn(d, ByteToSector(d, h, pos), pos)
(* OpenFile::WriteAt of one word through the cached header h. *)
WriteIn(d, s, pos, v) ==
    IF ~ValidSector(s) THEN Abort ELSE [d EXCEPT ![s][(pos % SectorSize) \div 4] = v]
WriteWord(d, h, pos, v) ==
    IF pos >= h.numBytes THEN d ELSE WriteIn(d, ByteToSector(d, h, pos), pos, v)

(* Consecutive word writes at pos, pos+4, ...: the values of vals. *)
WriteStep(d, h, pos, v) == IF d = Abort THEN Abort ELSE WriteWord(d, h, pos, v)
WriteWords(d, h, pos, vals) ==
    LET upto[j \in 0 .. Len(vals)] ==
            IF j = 0 THEN d ELSE WriteStep(upto[j - 1], h, pos + 4 * (j - 1), vals[j])
    IN upto[Len(vals)]

(* ExtendUndirectedBlock without its free map: the check against NumDirect *)
(* and the Finds for the sectors numSectors .. total-1.                    *)
GrowUndirected(ih, newSectors, total, free) ==
    IF total > NumDirect \/ Len(free) < total - ih.numSectors THEN [res |-> "fail"]
    ELSE [res |-> "ok", got |-> Seqs!ToSet(SubSeq(free, 1, total - ih.numSectors)),
          h |-> [ih EXCEPT
                  !.ds = [i \in 0 .. NumDirect - 1 |->
                           IF i >= ih.numSectors /\ i < total
                           THEN free[i - ih.numSectors + 1] ELSE ih.ds[i]],
                  !.numSectors = total,
                  !.numBytes = ih.numBytes + newSectors * 4]]
WithFreeMap(x, fm) == IF x.res = "fail" THEN x ELSE [res |-> "ok", got |-> x.got, h |-> x.h, fm |-> fm]
Marked(fm, x) == WithFreeMap(x, IF x.res = "fail" THEN fm ELSE fm \cup x.got)

(* Mutant: the sectors of the indirect block are not marked in freeMap. *)
ExtendUndirectedBlockNoMark(fm, ih, newSectors) ==
    WithFreeMap(GrowUndirected(ih, newSectors,
                  DivRoundUp(ih.numBytes + newSectors * 4, SectorSize), FreeSeq(fm)), fm)

ExtendUndirectedBlock(fm, ih, newSectors) ==
    Marked(fm, GrowUndirected(ih, newSectors,
                 DivRoundUp(ih.numBytes + newSectors * 4, SectorSize), FreeSeq(fm)))

(* file->Seek(file->Length() - newUndirectedSectors * 4) *)
(* Mutant: the entries are written at the end of the indirect block. *)
EntryPosAtEnd(ih, k) == ih.numBytes

EntryPos(ih, k) == ih.numBytes - k * 4

(***************************************************************************)
(* FileHeader::Extend(freeMap, newSize) on the in-memory header h, in the  *)
(* stages of the code.  The result carries the disk, because the indirect *)
(* header and its entries are written before the last Find can fail;      *)
(* "data" is the new data sectors in file order, "meta" the new indirect  *)
(* sectors.  e holds what the stages share: the header h as it was, the   *)
(* total of sectors after the call, newSize and the uninitialised word g. *)
(***************************************************************************)
Prefix(sq, n) == SubSeq(sq, 1, IF Len(sq) < n THEN Len(sq) ELSE n)
Failed(d) == [res |-> "fail", d |-> d]
Crashed(d) == [res |-> "crash", d |-> d]
Done(e, hh, d, fm, data, meta) ==
    [res |-> "ok", d |-> d, fm |-> fm, data |-> data, meta |-> meta,
     h |-> [hh EXCEPT !.numBytes = e.h.numBytes + e.newSize, !.numSectors = e.total]]

(* The loop of Find and file->Write for the newUnd entries, then the end. *)
WriteEntries(e, h2, d2, fm, direct, meta, entries, newUnd) ==
    CASE d2 = Abort -> Crashed(e.d)
      [] Len(entries) < newUnd -> Failed(d2)
      [] OTHER -> Done(e, h2, d2, fm \cup Seqs!ToSet(entries), direct \o entries, meta)

(* ExtendUndirectedBlock, WriteBack of the indirect header, new OpenFile. *)
IndirectEntries(e, h2, direct, ind, x, newUnd, meta) ==
    IF x.res = "fail" THEN Failed(e.d)
    ELSE LET entries == Prefix(FreeSeq(x.fm), newUnd)
         IN WriteEntries(e, h2, WriteWords(WriteBack(e.d, ind, x.h), x.h,
                                           EntryPos(x.h, newUnd), entries),
                         x.fm, direct, meta \cup x.got, entries, newUnd)

(* The undirected block: fetched if it exists, else Find and Allocate(0). *)
Undirected(e, h1, fm1, direct) ==
    LET ui == NumDirect - 1
        indFree == FreeSeq(fm1)
    IN CASE e.h.numSectors + Len(direct) >= e.total -> Done(e, h1, e.d, fm1, direct, {})
         [] e.h.numSectors > ui /\ ~ValidSector(h1.ds[ui]) -> Crashed(e.d)
         [] e.h.numSectors > ui ->
              IndirectEntries(e, h1, direct, h1.ds[ui],
                  ExtendUndirectedBlock(fm1, HdrAt(e.d, h1.ds[ui]), e.total - e.h.numSectors),
                  e.total - e.h.numSectors, {})
         [] indFree = <<>> -> Failed(e.d)
         [] OTHER ->
              IndirectEntries(e, [h1 EXCEPT !.ds[ui] = Head(indFree)], direct, Head(indFree),
                  ExtendUndirectedBlock(fm1 \cup {Head(indFree)},
                                        Fresh(NewHdr(e.g), DATA_FILE),
                                        e.total - e.h.numSectors - Len(direct)),
                  e.total - e.h.numSectors - Len(direct), {Head(indFree)})

(* The direct entries numSectors .. min(total, NumDirect-1)-1 by Find. *)
Direct(e, free) ==
    LET ui == NumDirect - 1
        nDirect == IF e.h.numSectors < ui /\ e.h.numSectors < e.total
                   THEN (IF e.total < ui THEN e.total ELSE ui) - e.h.numSectors ELSE 0
    IN IF Len(free) < nDirect THEN Failed(e.d)
       ELSE Undirected(e, [e.h EXCEPT !.ds = [i \in 0 .. NumDirect - 1 |->
                             IF i >= e.h.numSectors /\ i < e.h.numSectors + nDirect
                             THEN free[i - e.h.numSectors + 1] ELSE e.h.ds[i]]],
                       e.fm \cup Seqs!ToSet(SubSeq(free, 1, nDirect)), SubSeq(free, 1, nDirect))

Extend(d, fm, h, newSize, g) ==
    Direct([d |-> d, fm |-> fm, h |-> h, newSize |-> newSize, g |-> g,
            total |-> DivRoundUp(h.numBytes + newSize, SectorSize)], FreeSeq(fm))

(* FileHeader::Allocate: a fresh header of type which, then Extend. *)
Allocate(d, fm, hnew, size, which, g) == Extend(d, fm, Fresh(hnew, which), size, g)

(***************************************************************************)
(* FileHeader::Deallocate and DeallocateUndirectedBlock.  Every Clear is   *)
(* preceded by ASSERT(freeMap->Test(s)); BitMap::Test also ASSERTs that s  *)
(* is a sector.  The result is the free map, or Abort.                     *)
(***************************************************************************)
ClearOne(fm, s) ==
    IF fm = Abort \/ ~ValidSector(s) THEN Abort
    ELSE IF s \notin fm THEN Abort ELSE fm \ {s}
ClearEach(fm, secs) ==
    LET upto[j \in 0 .. Len(secs)] == IF j = 0 THEN fm ELSE ClearOne(upto[j - 1], secs[j])
    IN upto[Len(secs)]

(* file->Read(&sector, 4) left times from the start of the indirect block; *)
(* a short read leaves sector as it was, initially uninitialised (-1).     *)
ReadInto(w, old) == IF w = NoSector THEN old ELSE w
ReadEntries(d, ind, left) ==
    LET sector[j \in 0 .. left - 1] ==
            ReadInto(ReadWord(d, ind, 4 * j), IF j = 0 THEN NoSector ELSE sector[j - 1])
    IN [j \in 1 .. left |-> sector[j - 1]]

(* Mutant: the loop stops one sector short. *)
DeallocateUndirectedBlockKeepsLast(fm, ih) ==
    IF ih.numSectors > NumDirect THEN Abort
    ELSE ClearEach(fm, [i \in 1 .. ih.numSectors - 1 |-> ih.ds[i - 1]])

DeallocateUndirectedBlock(fm, ih) ==
    IF ih.numSectors > NumDirect THEN Abort   \* reads past dataSectors[]
    ELSE ClearEach(fm, [i \in 1 .. ih.numSectors |-> ih.ds[i - 1]])

(* Mutant: only the direct entries are deallocated. *)
DeallocateDirectOnly(d, fm, h) ==
    ClearEach(fm, [i \in 1 .. IF h.numSectors < NumDirect - 1 THEN h.numSectors
                               ELSE NumDirect - 1 |-> h.ds[i - 1]])

ThenUndirectedBlock(fm, ih) == IF fm = Abort THEN Abort ELSE DeallocateUndirectedBlock(fm, ih)

(* The undirected part: its entries, the block itself, then its sectors. *)
DeallocateIndirect(d, fm1, h) ==
    LET ind == h.ds[NumDirect - 1]
    IN IF fm1 = Abort \/ h.numSectors < NumDirect - 1 THEN fm1
       ELSE IF ~ValidSector(ind) THEN Abort
       ELSE ThenUndirectedBlock(ClearEach(fm1, ReadEntries(d, ind, h.numSectors - (NumDirect - 1))
                                               \o <<ind>>), HdrAt(d, ind))

Deallocate(d, fm, h) ==
    DeallocateIndirect(d, ClearEach(fm, [i \in 1 .. IF h.numSectors < NumDirect - 1
                                                   THEN h.numSectors ELSE NumDirect - 1
                                         |-> h.ds[i - 1]]), h)

(***************************************************************************)
(* FileSystem::FileSystem(format = TRUE): sectors 0 and 1 marked, then the *)
(* headers of the free-map file and of the root directory allocated and    *)
(* written back.  Both Allocates are ASSERTed to succeed.                  *)
(***************************************************************************)
ZeroDisk == [s \in Sectors |-> [w \in Words |-> 0]]
FormatDone(m, r) ==
    [d |-> WriteBack(WriteBack(r.d, FreeMapSector, m.h), RootSector, r.h), fm |-> r.fm]
FormatRoot(m, g) == FormatDone(m, Allocate(m.d, m.fm, NewHdr(g), DirBytes, ROOT, g))
Format(g) ==
    FormatRoot(Allocate(ZeroDisk, {FreeMapSector, RootSector}, NewHdr(g),
                        FreeMapBytes, DATA_FILE, g), g)
Formatted == Format(CHOOSE g \in UninitWord : TRUE)
FormatSectors == Formatted.fm
NoEntries == [n \in Entries |-> NoSector]

Init ==
    /\ disk = Formatted.d
    /\ freeMapDisk = FormatSectors
    /\ dirs = [d \in Sectors |-> NoEntries]
    /\ cwd = RootSector
    /\ cdDone = RootSector
    /\ owned = [s \in {} |-> NoSector]
    /\ crashed = FALSE
    /\ calls = 0

(* The history with header s given rec, or with s gone. *)
Own(s, rec) == [x \in DOMAIN owned \cup {s} |-> IF x = s THEN rec ELSE owned[x]]
Disown(s) == [x \in DOMAIN owned \ {s} |-> owned[x]]

LiveFiles == {s \in DOMAIN owned : owned[s].type = DATA_FILE}
LiveDirs == {RootSector} \cup {s \in DOMAIN owned : owned[s].type = DIRECTORY}

(* directory->FetchFrom(directoryFile) then Find(name). *)
Find(name) == dirs[cwd][name]

(* Directory::Add succeeds while one of the NumDirEntries entries is unused. *)
HasRoom(d) == Cardinality({e \in Entries : dirs[d][e] # NoSector}) < NumDirEntries

(* Directory::IsEmpty: every entry other than "." and ".." is unused. *)
IsEmpty(d) == \A n \in Names : dirs[d][n] = NoSector

(***************************************************************************)
(* FileSystem::Create(name, initialSize) in the current directory.  The    *)
(* early returns before Allocate change nothing ("." and "..", name taken, *)
(* no sector for the header, directory full: Add comes before Allocate)    *)
(* and are left out.  When Allocate fails, the free map, directory and     *)
(* header are dropped, but what Extend wrote to disk stays.                *)
(***************************************************************************)
Created(name, hs, r) ==
    IF r.res = "ok"
    THEN /\ disk' = WriteBack(r.d, hs, r.h)
         /\ freeMapDisk' = r.fm
         /\ dirs' = [dirs EXCEPT ![cwd][name] = hs]
         /\ owned' = Own(hs, [type |-> DATA_FILE, data |-> r.data, meta |-> r.meta])
         /\ UNCHANGED crashed
    ELSE /\ disk' = r.d
         /\ crashed' = (r.res = "crash")
         /\ UNCHANGED <<freeMapDisk, dirs, owned>>

Create(name, size, g) ==
    /\ ~crashed /\ calls < MaxCalls
    /\ Find(name) = NoSector
    /\ FreeSeq(freeMapDisk) # <<>>
    /\ HasRoom(cwd)
    /\ \E hs \in {Head(FreeSeq(freeMapDisk))} :
          Created(name, hs, Allocate(disk, freeMapDisk \cup {hs}, NewHdr(g), size, DATA_FILE, g))
    /\ calls' = calls + 1
    /\ UNCHANGED <<cwd, cdDone>>

(***************************************************************************)
(* FileSystem::WriteUser(buffer, size, index) on an open file of header hs *)
(* (opened in any directory), its seek at the start or at the end of the   *)
(* file.  The header is extended by seek + size - numBytes when that is    *)
(* positive; on success the free map and header are written back, then the *)
(* data is written through a new OpenFile from the seek position.          *)
(***************************************************************************)
DataWritten(d1, d2) ==
    /\ disk' = IF d2 = Abort THEN d1 ELSE d2
    /\ crashed' = (d2 = Abort)

Extended(hs, seek, size, r) ==
    IF r.res = "ok"
    THEN LET d1 == WriteBack(r.d, hs, r.h)
         IN /\ freeMapDisk' = r.fm
            /\ owned' = [owned EXCEPT ![hs].data = @ \o r.data, ![hs].meta = @ \cup r.meta]
            /\ DataWritten(d1, WriteWords(d1, HdrAt(d1, hs), seek,
                                          [i \in 1 .. size \div 4 |-> DataWord]))
    ELSE /\ disk' = r.d
         /\ crashed' = (r.res = "crash")
         /\ UNCHANGED <<freeMapDisk, owned>>

WriteUser(hs, seek, size, g) ==
    LET h == HdrAt(disk, hs)
    IN /\ ~crashed /\ calls < MaxCalls
       /\ hs \in LiveFiles
       /\ seek \in {0, h.numBytes}
       /\ seek + size <= MaxBytes
       /\ Extended(hs, seek, size,
              IF seek + size - h.numBytes > 0
              THEN Extend(disk, freeMapDisk, h, seek + size - h.numBytes, g)
              ELSE [res |-> "ok", d |-> disk, fm |-> freeMapDisk, h |-> h,
                    data |-> <<>>, meta |-> {}])
       /\ calls' = calls + 1
       /\ UNCHANGED <<dirs, cwd, cdDone>>

(***************************************************************************)
(* FileSystem::Remove(name) of a closed file of the current directory:     *)
(* refused unless the header is a DATA_FILE; Deallocate, clear the header  *)
(* sector, remove the entry, write back free map and directory.            *)
(***************************************************************************)
Removed(name, s, fm) ==
    IF fm = Abort THEN crashed' = TRUE /\ UNCHANGED <<freeMapDisk, dirs, owned>>
    ELSE /\ freeMapDisk' = fm \ {s}
         /\ dirs' = [dirs EXCEPT ![cwd][name] = NoSector]
         /\ owned' = Disown(s)
         /\ UNCHANGED crashed

Remove(name) ==
    LET s == Find(name)
    IN /\ ~crashed /\ calls < MaxCalls
       /\ s # NoSector
       /\ HdrAt(disk, s).type = DATA_FILE
       /\ Removed(name, s, Deallocate(disk, freeMapDisk, HdrAt(disk, s)))
       /\ calls' = calls + 1
       /\ UNCHANGED <<disk, cwd, cdDone>>

(***************************************************************************)
(* FileSystem::CreateDir(name): "." and "..", a name taken and no sector   *)
(* for the header return before anything is written.  Allocate of the      *)
(* directory file comes before Add here, so a full directory is found only *)
(* after Extend has run.  On success the header, the free map and the      *)
(* current directory are written back, then the new directory with "."    *)
(* naming itself and ".." naming DirectorySector.                          *)
(***************************************************************************)
DirCreated(name, hs, r) ==
    IF r.res = "ok" /\ HasRoom(cwd)
    THEN /\ disk' = WriteBack(r.d, hs, r.h)
         /\ freeMapDisk' = r.fm
         /\ dirs' = [dirs EXCEPT ![cwd][name] = hs,
                                 ![hs] = [NoEntries EXCEPT ![Dot] = hs, ![DotDot] = cwd]]
         /\ owned' = Own(hs, [type |-> DIRECTORY, data |-> r.data, meta |-> r.meta])
         /\ UNCHANGED crashed
    ELSE /\ disk' = r.d
         /\ crashed' = (r.res = "crash")
         /\ UNCHANGED <<freeMapDisk, dirs, owned>>

CreateDir(name, g) ==
    /\ ~crashed /\ calls < MaxCalls
    /\ name \notin {Dot, DotDot}
    /\ Find(name) = NoSector
    /\ FreeSeq(freeMapDisk) # <<>>
    /\ \E hs \in {Head(FreeSeq(freeMapDisk))} :
          DirCreated(name, hs, Allocate(disk, freeMapDisk \cup {hs}, NewHdr(g), DirBytes,
                                        DIRECTORY, g))
    /\ calls' = calls + 1
    /\ UNCHANGED <<cwd, cdDone>>

(***************************************************************************)
(* FileSystem::RemoveDir(name): Find in the current directory, refused     *)
(* unless the header is a DIRECTORY (not a file, not the root) and the     *)
(* directory it heads IsEmpty; then Deallocate, Clear(sector), Remove of   *)
(* the entry, free map and current directory written back.  Nothing       *)
(* compares the sector found with DirectorySector.                         *)
(***************************************************************************)
DirRemoved(name, s, fm) ==
    IF fm = Abort THEN crashed' = TRUE /\ UNCHANGED <<freeMapDisk, dirs, owned>>
    ELSE /\ freeMapDisk' = fm \ {s}
         /\ dirs' = [dirs EXCEPT ![cwd][name] = NoSector]
         /\ owned' = Disown(s)
         /\ UNCHANGED crashed

(* Mutant: the IsEmpty test is left out. *)
RemoveDirNotEmpty(name) ==
    LET s == Find(name)
    IN /\ ~crashed /\ calls < MaxCalls
       /\ s # NoSector
       /\ HdrAt(disk, s).type = DIRECTORY
       /\ DirRemoved(name, s, Deallocate(disk, freeMapDisk, HdrAt(disk, s)))
       /\ calls' = calls + 1
       /\ UNCHANGED <<disk, cwd, cdDone>>

RemoveDir(name) ==
    LET s == Find(name)
    IN /\ ~crashed /\ calls < MaxCalls
       /\ s # NoSector
       /\ HdrAt(disk, s).type = DIRECTORY
       /\ IsEmpty(s)
       /\ DirRemoved(name, s, Deallocate(disk, freeMapDisk, HdrAt(disk, s)))
       /\ calls' = calls + 1
       /\ UNCHANGED <<disk, cwd, cdDone>>

(***************************************************************************)
(* FileSystem::ChangeDir(name) and ChangeDirRec: the path, cut at '/' by   *)
(* ParsePath, is followed one Find at a time from the current directory;   *)
(* each step fetches the header, refuses a DATA_FILE and moves             *)
(* directoryFile and DirectorySector on.  When a step fails, ChangeDir     *)
(* puts back the directory it saved before the walk and returns FALSE.     *)
(***************************************************************************)
RECURSIVE ChangeDirRec(_, _)
ChangeDirRec(d, p) ==
    IF p = <<>> THEN d
    ELSE LET s == dirs[d][Head(p)]
         IN IF s = NoSector \/ HdrAt(disk, s).type \notin {DIRECTORY, ROOT} THEN NoSector
            ELSE ChangeDirRec(s, Tail(p))

(* Where DirectorySector stands when a walk from d along p stops: the last *)
(* directory ChangeDirRec moved to before the step that failed.            *)
RECURSIVE WalkStop(_, _)
WalkStop(d, p) ==
    IF p = <<>> THEN d
    ELSE LET s == dirs[d][Head(p)]
         IN IF s = NoSector \/ HdrAt(disk, s).type \notin {DIRECTORY, ROOT} THEN d
            ELSE WalkStop(s, Tail(p))

ChangeDir(p) ==
    LET to == ChangeDirRec(cwd, p)
    IN /\ ~crashed /\ calls < MaxCalls
       /\ cwd' = IF to = NoSector THEN cwd ELSE to
       /\ cdDone' = IF to = NoSector THEN cdDone ELSE to
       /\ calls' = calls + 1
       /\ UNCHANGED <<disk, freeMapDisk, dirs, owned, crashed>>

Next ==
    \/ \E n \in Names, size \in CreateSizes, g \in UninitWord : Create(n, size, g)
    \/ \E hs \in LiveFiles, size \in WriteSizes, g \in UninitWord :
          \E seek \in {0, HdrAt(disk, hs).numBytes} : WriteUser(hs, seek, size, g)
    \/ \E n \in Names : Remove(n)
    \/ \E n \in DirArgs, g \in UninitWord : CreateDir(n, g)
    \/ \E n \in DirArgs : RemoveDir(n)
    \/ \E p \in Paths : ChangeDir(p)

Spec == Init /\ [][Next]_vars

(* Names are only keys of the directories (Paths and DirArgs are closed   *)
(* under renaming in every configuration that uses this).                 *)
NameSymmetry == Permutations(Names)

-----------------------------------------------------------------------------
(* The sectors a live file or directory was given, by the history of its Finds. *)
Owns(s) == {s} \cup Seqs!ToSet(owned[s].data) \cup owned[s].meta

TypeOK ==
    /\ disk \in [Sectors -> [Words -> Int]]
    /\ freeMapDisk \subseteq Sectors
    /\ dirs \in [Sectors -> [Entries -> Sectors \cup {NoSector}]]
    /\ cwd \in Sectors /\ cdDone \in Sectors
    /\ DOMAIN owned \subseteq Sectors
    /\ \A s \in DOMAIN owned :
          owned[s] \in [type : {DATA_FILE, DIRECTORY}, data : Seq(Sectors), meta : SUBSET Sectors]
    /\ crashed \in BOOLEAN
    /\ calls \in 0 .. MaxCalls

(* No call ever halts Nachos on a failed ASSERT: every sector Deallocate  *)
(* clears was marked, every read of the indirect block returns 4 bytes    *)
(* and every sector read or written exists (spec section 6: an ASSERT is  *)
(* a programmer error, never a runtime fault).                            *)
NeverAborts == ~crashed

(* F-Bitmap: the free map on disk marks exactly the sectors of the two    *)
(* format files and the sectors Find gave to live files and directories   *)
(* (header, direct and indirect data sectors, the indirect block and its  *)
(* sectors), and no sector belongs to two of them: no leak by Remove,     *)
(* RemoveDir or a failed Extend, no sector handed out twice.              *)
SectorsAccounted ==
    /\ freeMapDisk = FormatSectors \cup UNION {Owns(s) : s \in DOMAIN owned}
    /\ \A s \in DOMAIN owned :
          /\ Owns(s) \cap FormatSectors = {}
          /\ Cardinality(Owns(s)) = 1 + Len(owned[s].data) + Cardinality(owned[s].meta)
    /\ \A s, t \in DOMAIN owned : s # t => Owns(s) \cap Owns(t) = {}

(* F-Size, and ByteToSector: the header on disk of every live file and    *)
(* directory has its type, counts the sectors it was given and covers its  *)
(* numBytes, and the k-th sector found by ByteToSector through the direct  *)
(* entries or the indirect block is the k-th data sector Extend gave it.   *)
ReadsResolve ==
    \A s \in DOMAIN owned :
        LET h == HdrAt(disk, s)
        IN /\ h.type = owned[s].type
           /\ h.numSectors = Len(owned[s].data)
           /\ h.numSectors = DivRoundUp(h.numBytes, SectorSize)
           /\ \A k \in 0 .. h.numSectors - 1 :
                 ByteToSector(disk, h, k * SectorSize) = owned[s].data[k + 1]

(* Deallocate of any live header, run on the disk as it is now, clears    *)
(* exactly the sectors it was given besides the header, which Remove and  *)
(* RemoveDir clear themselves: it neither leaks nor frees what others own. *)
RemoveFreesExactly ==
    \A s \in DOMAIN owned :
        Deallocate(disk, freeMapDisk, HdrAt(disk, s)) = freeMapDisk \ (Owns(s) \ {s})

(* The directory tree: the current directory is the root or a live        *)
(* directory; every name in a live directory names a live header, and     *)
(* every live header is named exactly once; "." of every other directory  *)
(* names itself and ".." the live directory that names it, the root has   *)
(* neither.  RemoveDir must refuse a non-empty directory, CreateDir must   *)
(* link the new directory to DirectorySector, and ChangeDir must leave    *)
(* DirectorySector on a directory whatever path it is given.               *)
DirTreeSound ==
    /\ cwd \in LiveDirs
    /\ \A d \in LiveDirs, n \in Names : dirs[d][n] \in DOMAIN owned \cup {NoSector}
    /\ \A s \in DOMAIN owned :
          Cardinality({dn \in LiveDirs \X Names : dirs[dn[1]][dn[2]] = s}) = 1
    /\ dirs[RootSector][Dot] = NoSector /\ dirs[RootSector][DotDot] = NoSector
    /\ \A d \in LiveDirs \ {RootSector} :
          /\ dirs[d][Dot] = d
          /\ dirs[d][DotDot] \in LiveDirs
          /\ \E n \in Names : dirs[dirs[d][DotDot]][n] = d

====
