-------------------------------- MODULE DosFiles --------------------------------
(***************************************************************************)
(* Drive D: of the DOS VM is a folder of the SD card.  The redirector      *)
(* (mpe5_redirector.cpp) serves the file calls of DOS processes and        *)
(* decides who may share a file; the folder's file system                  *)
(* (mpe5_folder_fs.h) has a file of the card's library for every handle.   *)
(*                                                                         *)
(* The library is external.  Each of its files that is open has an entry   *)
(* of its own: it takes size and cluster from the directory when it is     *)
(* opened, and writes them back when it is synchronised, if it is dirty    *)
(* (mpe5_folder_fs.h:294).  A file fits into one cluster.  No operation of *)
(* the card fails.                                                         *)
(***************************************************************************)
EXTENDS Integers, FiniteSets, Sequences, Functions

CONSTANTS
  Files,       \* the names of files
  Processes,   \* PSPs
  Modes,       \* how files are opened
  HandleCount, \* 16
  MaxBytes,    \* bound: the size of a file
  MaxWrites    \* bound: writes

Mode(access, deny) == [access |-> access, deny |-> deny]
AllModes ==
  [access : SUBSET {"read", "write"} \ {{}},
   deny : {"compatible", "all", "write", "read", "none"}]

ASSUME DosFilesAssumption ==
  /\ IsFiniteSet(Files) /\ Processes # {} /\ Modes \subseteq AllModes
  /\ {HandleCount, MaxBytes} \subseteq Nat \ {0} /\ MaxWrites \in Nat

VARIABLES
  directory,  \* the entry of each file
  clusters,   \* their bytes
  handles,    \* Redirector.handles_ with FolderFilesystem.slots_
  psp,        \* the process that called last
  writes,     \* bytes written; they are numbered
  expected,   \* history: the files as the calls should have left them
  staleWrite  \* history: a handle changed a file that another had changed

dosFiles == <<directory, clusters, handles, psp, writes, expected, staleWrite>>

Handles == 1..HandleCount
Clusters == 1..(HandleCount + Cardinality(Files))
Bytes == 0..MaxWrites
NoCluster == 0
DirEntry(first, size) == [first |-> first, size |-> size]
NoFile == DirEntry(-1, 0)
NoContents == <<-1>>
DirEntries ==
  {NoFile} \cup [first : {NoCluster} \cup Clusters, size : 0..MaxBytes]

Closed == [used |-> FALSE]
Handle(n, p, mode, e, dirty) ==
  [used |-> TRUE, file |-> n, owner |-> p, mode |-> mode, entry |-> e,
   dirty |-> dirty]
OpenHandles == {h \in Handles : handles[h].used}
HandlesOf(n) == {h \in OpenHandles : handles[h].file = n}

\* What a new open of the file would read.
FileContents(n) ==
  LET e == directory[n] IN
  CASE e = NoFile -> NoContents
    [] e # NoFile /\ e.first = NoCluster -> <<>>
    [] e.first \in Clusters -> [i \in 1..e.size |-> clusters[e.first][i]]

DosFilesTypeOK ==
  /\ directory \in [Files -> DirEntries]
  /\ clusters \in [Clusters -> [1..MaxBytes -> Bytes]]
  /\ handles \in [Handles -> {Closed} \cup
       [used : {TRUE}, file : Files, owner : Processes, mode : Modes,
        entry : DirEntries \ {NoFile}, dirty : BOOLEAN]]
  /\ psp \in Processes /\ writes \in Bytes /\ staleWrite \in BOOLEAN
  /\ expected \in [Files -> {NoContents} \cup Seq(Bytes)]

DosFilesInit ==
  /\ \E there \in SUBSET Files :
       LET first == CHOOSE c \in [Files -> Clusters] : IsInjective(c) IN
       directory = [n \in Files |->
         IF n \in there THEN DirEntry(first[n], 1) ELSE NoFile]
  /\ clusters = [c \in Clusters |-> [i \in 1..MaxBytes |-> 0]]
  /\ handles = [h \in Handles |-> Closed]
  /\ psp = (CHOOSE p \in Processes : TRUE) /\ writes = 0
  /\ expected = [n \in Files |-> FileContents(n)] /\ staleWrite = FALSE
--------------------------------------------------------------------------------
(* Opening: who may share a file.                                             *)

Denies(mode) ==
  CASE mode.deny = "compatible" ->
         IF "write" \in mode.access THEN {"read", "write"} ELSE {"write"}
    [] mode.deny = "all"   -> {"read", "write"}
    [] mode.deny = "write" -> {"write"}
    [] mode.deny = "read"  -> {"read"}
    [] mode.deny = "none"  -> {}

\* Seeded fault of Conflict: what the file was opened with is not asked.
ConflictOneWay(old, new) == Denies(new) \cap old.access # {}

Conflict(old, new) ==
  Denies(old) \cap new.access # {} \/ Denies(new) \cap old.access # {}

\* A process may open a file again, if it is compatible with itself.
SharingViolation(n, p, mode) ==
  \E h \in HandlesOf(n) :
    /\ Conflict(handles[h].mode, mode)
    /\ handles[h].owner = p =>
         {handles[h].mode.deny, mode.deny} # {"compatible"}

\* The first free handle is for file n from now on.
Opens(n, p, mode, e, dirty) ==
  \E h \in Handles \ OpenHandles :
    /\ 1..(h - 1) \subseteq OpenHandles
    /\ handles' = [handles EXCEPT ![h] = Handle(n, p, mode, e, dirty)]

\* Seeded fault of Published: a new or replaced file is not synchronised.
PublishedLater(n, p, mode) ==
  /\ directory[n] # NoFile => UNCHANGED directory
  /\ directory[n] = NoFile =>
       directory' = [directory EXCEPT ![n] = DirEntry(NoCluster, 0)]
  /\ Opens(n, p, mode, DirEntry(NoCluster, 0), TRUE)

\* A new or replaced file's entry is there before another handle takes it.
Published(n, p, mode) ==
  /\ directory' = [directory EXCEPT ![n] = DirEntry(NoCluster, 0)]
  /\ Opens(n, p, mode, DirEntry(NoCluster, 0), FALSE)

DosOpen(p, n, mode) ==
  /\ directory[n] # NoFile /\ ~SharingViolation(n, p, mode)
  /\ Opens(n, p, mode, directory[n], FALSE)
  /\ UNCHANGED <<directory, clusters, writes, expected, staleWrite>>

\* Create, or open and replace; the file must be writable.
DosCreate(p, n, mode) ==
  /\ "write" \in mode.access /\ ~SharingViolation(n, p, mode)
  /\ Published(n, p, mode)
  /\ expected' = [expected EXCEPT ![n] = <<>>]
  /\ UNCHANGED <<clusters, writes, staleWrite>>
--------------------------------------------------------------------------------
(* Changing and closing an open file.                                         *)

Stale(h) == handles[h].entry # directory[handles[h].file]

\* The handle's entry becomes e, and is synchronised.
Synchronised(h, e) ==
  /\ handles' = [handles EXCEPT ![h].entry = e, ![h].dirty = FALSE]
  /\ directory' = [directory EXCEPT ![handles[h].file] = e]
  /\ staleWrite' = (staleWrite \/ Stale(h))

\* A file without a cluster gets the first that no file has.
ClusterOf(e) ==
  IF e.first # NoCluster THEN e.first
  ELSE CHOOSE c \in Clusters : \A n \in Files : directory[n].first # c

\* The bytes s, cut or filled with zeros.
Resized(s, size) == [i \in 1..size |-> IF i \in DOMAIN s THEN s[i] ELSE 0]
Larger(a, b) == IF a > b THEN a ELSE b

\* The zeros up to a position, where the file was shorter, and the byte there.
DosWrite(p, h, at) ==
  LET f == handles[h]
      c == ClusterOf(f.entry)
      size == Larger(f.entry.size, at)
  IN
  /\ h \in OpenHandles /\ f.owner = p /\ "write" \in f.mode.access
  /\ writes < MaxWrites /\ writes' = writes + 1
  /\ clusters' = [clusters EXCEPT ![c] = [i \in 1..MaxBytes |->
       CASE i = at -> writes'
         [] i < at /\ i > f.entry.size -> 0
         [] OTHER -> @[i]]]
  /\ Synchronised(h, DirEntry(c, size))
  /\ expected' = [expected EXCEPT ![f.file] =
       [Resized(@, Larger(Len(@), at)) EXCEPT ![at] = writes']]

\* A write of no bytes cuts the file, or fills it with zeros.
DosTruncate(p, h, size) ==
  LET f == handles[h]
      c == ClusterOf(f.entry)
  IN
  /\ h \in OpenHandles /\ f.owner = p /\ "write" \in f.mode.access
  /\ IF size = 0 THEN UNCHANGED clusters
     ELSE clusters' = [clusters EXCEPT ![c] = [i \in 1..MaxBytes |->
            IF i > f.entry.size /\ i <= size THEN 0 ELSE @[i]]]
  /\ Synchronised(h, DirEntry(IF size = 0 THEN NoCluster ELSE c, size))
  /\ expected' = [expected EXCEPT ![f.file] = Resized(@, size)]
  /\ UNCHANGED writes

\* Closing synchronises what is dirty.
Closing(hs) ==
  /\ handles' = [h \in Handles |-> IF h \in hs THEN Closed ELSE handles[h]]
  /\ directory' = [n \in Files |->
       IF \E h \in hs \cap HandlesOf(n) : handles[h].dirty
       THEN handles[CHOOSE h \in hs \cap HandlesOf(n) : handles[h].dirty].entry
       ELSE directory[n]]
  /\ UNCHANGED <<clusters, writes, expected, staleWrite>>

DosClose(p, h) == h \in OpenHandles /\ handles[h].owner = p /\ Closing({h})
DosExit(p) == Closing({h \in OpenHandles : handles[h].owner = p})
DosReset == Closing(OpenHandles)

\* What was not synchronised is lost.
DosPowerCut ==
  /\ handles' = [h \in Handles |-> Closed]
  /\ UNCHANGED <<directory, clusters, writes, expected, staleWrite>>
--------------------------------------------------------------------------------
(* Calls that name a file.  One that is open is left alone.                   *)

DosRemove(n) ==
  /\ directory[n] # NoFile /\ HandlesOf(n) = {}
  /\ directory' = [directory EXCEPT ![n] = NoFile]
  /\ expected' = [expected EXCEPT ![n] = NoContents]
  /\ UNCHANGED <<clusters, handles, writes, staleWrite>>

\* Wildcards: file after file, up to one that is open.
DosRemoveAll ==
  LET closed == {n \in Files : directory[n] # NoFile /\ HandlesOf(n) = {}} IN
  \E gone \in SUBSET closed :
    /\ OpenHandles = {} => gone = closed
    /\ directory' = [n \in Files |->
         IF n \in gone THEN NoFile ELSE directory[n]]
    /\ expected' = [n \in Files |->
         IF n \in gone THEN NoContents ELSE expected[n]]
    /\ UNCHANGED <<clusters, handles, writes, staleWrite>>

DosRename(from, to) ==
  /\ directory[from] # NoFile /\ directory[to] = NoFile /\ HandlesOf(from) = {}
  /\ directory' = [directory EXCEPT ![to] = directory[from], ![from] = NoFile]
  /\ expected' = [expected EXCEPT ![to] = expected[from], ![from] = NoContents]
  /\ UNCHANGED <<clusters, handles, writes, staleWrite>>

DosCall(p) ==
  \/ \E n \in Files, mode \in Modes : DosOpen(p, n, mode) \/ DosCreate(p, n, mode)
  \/ \E h \in Handles, at \in 1..MaxBytes : DosWrite(p, h, at)
  \/ \E h \in Handles, size \in 0..MaxBytes : DosTruncate(p, h, size)
  \/ \E h \in Handles : DosClose(p, h)
  \/ DosExit(p) \/ DosRemoveAll
  \/ \E n \in Files : DosRemove(n)
  \/ \E from, to \in Files : DosRename(from, to)

\* What becomes of a file after a stale handle changed it is not followed.
DosFilesNext ==
  /\ ~staleWrite
  /\ \/ \E p \in Processes : psp' = p /\ DosCall(p)
     \/ (DosReset \/ DosPowerCut) /\ UNCHANGED psp

DosFilesSpec == DosFilesInit /\ [][DosFilesNext]_dosFiles
--------------------------------------------------------------------------------
\* "Create/truncate metadata is flushed before another handle opens the file"
\* (vms/DOSVM/README.md:98), and "successful file writes and closes flush to
\* the SD card" (dos/STORAGE.md:52): whatever handles are open, whichever is
\* closed last, after a reset or a power cut, each file is as the calls have
\* left it, unless a handle has changed one that another changed meanwhile.
SavedStays == ~staleWrite => \A n \in Files : FileContents(n) = expected[n]

\* "Explicit deny modes and other-process sharing checks remain enforced"
\* (vms/DOSVM/README.md:97): while a process has a file open and denies writing,
\* no other one changes what is in it, by whatever call.
DenyHolds ==
  [][\A h \in OpenHandles :
       /\ handles'[h].used /\ ~staleWrite'
       /\ "write" \in Denies(handles[h].mode) /\ handles[h].owner # psp'
       => UNCHANGED FileContents(handles[h].file)]_dosFiles
================================================================================
