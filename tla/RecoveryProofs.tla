--------------------------- MODULE RecoveryProofs ---------------------------
(***************************************************************************)
(* What TLAPS proves of Recovery, for any number of videos, blocks, folder *)
(* numbers and starts.                                                     *)
(*                                                                         *)
(* NamesInv is about folders and their names, BlocksInv about the files in *)
(* them.  Both hold through crashes because what a process knew is tied to *)
(* what is on disk: an entry of files always has its folder, and a block   *)
(* file that is cut has either a writer or the taint of an earlier one.    *)
(***************************************************************************)
EXTENDS Recovery, BlockMapLemmas, TLAPS

Names == Name \cup {Phantom}

-----------------------------------------------------------------------------
(* The invariant.                                                          *)

\* No two entries share a folder, and none is in a folder still to be read.
FoldersApart ==
  \A n \in Names :
    folderOf[n] # 0 =>
      /\ folderOf[n] \notin unread
      /\ \A m \in Names : folderOf[m] = folderOf[n] => m = n

\* An entry has its folder, which bears its name if the metadata is whole.
EntryHasFolder ==
  \A n \in Names :
    folderOf[n] # 0 =>
      /\ meta[folderOf[n]] \in {"partial", "whole"}
      /\ meta[folderOf[n]] = "whole" => owner[folderOf[n]] = n

\* A finished video is still to be read, or has an entry.
FolderHasEntry ==
  /\ process # "down" =>
       \A f \in FolderId : meta[f] = "whole" => f \in unread \/ folderOf[owner[f]] # 0
  /\ process # "initialize" => unread = {}
  /\ process = "down" => \A n \in Names : folderOf[n] = 0
  /\ \A f \in FolderId : meta[f] # "absent" => owner[f] \in Name

\* The folder that is being made is nobody's, and its video has no other.
OpeningRight ==
  opening # NoOpening =>
    /\ opening.name \in Name /\ opening.folder \in FolderId
    /\ opening.step # "none"
    /\ folderOf[opening.name] = 0
    /\ \A n \in Names : folderOf[n] # opening.folder
    /\ meta[opening.folder] \in {"none", "partial"}
    /\ owner[opening.folder] = opening.name
    /\ \A f \in FolderId : meta[f] = "whole" => owner[f] # opening.name

NamesInv ==
  /\ FoldersApart /\ EntryHasFolder /\ FolderHasEntry /\ OpeningRight /\ OneFolderPerVideo

Fetching(n, b) == fetch[<<n, b>>] # "none"

\* Only a video that has an entry is downloaded, by a process that runs.
FetchRight ==
  \A n \in Name : \A b \in Block :
    Fetching(n, b) => process = "running" /\ folderOf[n] # 0

\* Nor is any other in a map.
HeldRight ==
  \A n \in Names : held[n] # {} => n \in Name /\ folderOf[n] # 0

\* Files come into folders with metadata only, and never into the one that is
\* being made.
FilesInFolders ==
  \A f \in FolderId : \A b \in Block :
    disk[<<f, b>>] # "none" \/ scripts[<<f, b>>] # "none" =>
      meta[f] \in {"partial", "whole"} /\ opening.folder # f

ScriptsTaint == \A k \in BlockFile : scripts[k] # "none" => k \in tainted

\* A file that is cut has a writer.
PartHasWriter ==
  \A k \in BlockFile :
    disk[k] = "part" =>
      \/ k \in tainted
      \/ \E n \in Name : \E b \in Block :
           k = File(n, b) /\ fetch[<<n, b>>] \in {"write", "script"}

StoreIsWhole ==
  \A n \in Name : \A b \in Block :
    fetch[<<n, b>>] = "store" => disk[File(n, b)] = "whole" \/ File(n, b) \in tainted

\* A file in the folder of an entry is in its map, or is worked on.
FilesKnown ==
  \A n \in Name : \A b \in Block :
    /\ folderOf[n] # 0 /\ meta[folderOf[n]] = "whole" /\ disk[File(n, b)] # "none"
    => b \in held[n] \/ Fetching(n, b) \/ File(n, b) \in tainted

BlocksInv ==
  /\ FetchRight /\ HeldRight /\ FilesInFolders /\ ScriptsTaint
  /\ PartHasWriter /\ StoreIsWhole /\ FilesKnown /\ HeldIsWhole

IInv == TypeOK /\ NamesInv /\ BlocksInv

-----------------------------------------------------------------------------
(* Types.                                                                  *)

LEMMA Folders ==
  ASSUME TypeOK
  PROVE  /\ \A n \in Names : folderOf[n] # 0 => folderOf[n] \in FolderId
         /\ \A n \in Names, b \in Block : folderOf[n] # 0 => File(n, b) \in BlockFile
         /\ 0 \notin FolderId
<1>1. \A n \in Names : folderOf[n] \in 0..LastFolder
  BY DEF TypeOK, Names
<1>2. 0 \notin FolderId /\ \A n \in Names : folderOf[n] # 0 => folderOf[n] \in FolderId
  BY <1>1, RecoveryAssumption DEF FolderId
<1> QED
  BY <1>2 DEF BlockFile, File

\* The folder of an entry.
LEMMA EntryFolder ==
  ASSUME IInv, NEW n \in Names, folderOf[n] # 0
  PROVE  /\ folderOf[n] \in FolderId /\ meta[folderOf[n]] \in {"partial", "whole"}
         /\ opening.folder # folderOf[n]
<1>1. CASE opening = NoOpening
  BY <1>1, Folders DEF IInv, NamesInv, EntryHasFolder, NoOpening
<1>2. CASE opening # NoOpening
  BY <1>2, Folders DEF IInv, NamesInv, EntryHasFolder, OpeningRight
<1> QED
  BY <1>1, <1>2

LEMMA InitIInv == Init => IInv
<1> SUFFICES ASSUME Init PROVE IInv
  OBVIOUS
<1>1. TypeOK
  BY RecoveryAssumption DEF Init, TypeOK, NoOpening
<1>2. /\ \A f \in FolderId : meta[f] = "absent"
      /\ \A n \in Names : folderOf[n] = 0 /\ held[n] = {}
      /\ \A n \in Name, b \in Block : fetch[<<n, b>>] = "none"
      /\ process = "down" /\ unread = {} /\ opening = NoOpening
      /\ \A k \in BlockFile : disk[k] = "none" /\ scripts[k] = "none"
  BY DEF Init, Names
<1>3. NamesInv
  BY <1>2 DEF NamesInv, FoldersApart, EntryHasFolder, FolderHasEntry, OpeningRight,
              OneFolderPerVideo
<1>4. FetchRight /\ HeldRight /\ StoreIsWhole /\ FilesKnown
  BY <1>2 DEF FetchRight, HeldRight, StoreIsWhole, FilesKnown, Fetching, Names
<1>5. FilesInFolders /\ ScriptsTaint /\ PartHasWriter
  BY <1>2 DEF FilesInFolders, ScriptsTaint, PartHasWriter, BlockFile
<1>6. HeldIsWhole
  BY <1>2 DEF HeldIsWhole, Names
<1> QED
  BY <1>1, <1>3, <1>4, <1>5, <1>6 DEF IInv, BlocksInv

\* Downloads leave folders and entries alone.
LEMMA NamesKept ==
  ASSUME NamesInv, UNCHANGED <<meta, owner, process, unread, folderOf, opening>>
  PROVE  NamesInv'
<1>1. FoldersApart' /\ EntryHasFolder'
  BY DEF NamesInv, FoldersApart, EntryHasFolder
<1>2. FolderHasEntry' /\ OpeningRight' /\ OneFolderPerVideo'
  BY DEF NamesInv, FolderHasEntry, OpeningRight, OneFolderPerVideo
<1> QED
  BY <1>1, <1>2 DEF NamesInv

\* What concerns the process alone leaves the files alone.
LEMMA BlocksKept ==
  ASSUME BlocksInv, UNCHANGED <<meta, disk, scripts, folderOf, held, opening, fetch, tainted>>,
         process = "running" => process' = "running"
  PROVE  BlocksInv'
<1>1. FetchRight' /\ HeldRight' /\ FilesInFolders' /\ ScriptsTaint'
  BY DEF BlocksInv, FetchRight, HeldRight, FilesInFolders, ScriptsTaint, Fetching
<1>2. PartHasWriter' /\ StoreIsWhole' /\ FilesKnown' /\ HeldIsWhole'
  BY DEF BlocksInv, PartHasWriter, StoreIsWhole, FilesKnown, HeldIsWhole, Fetching, File
<1> QED
  BY <1>1, <1>2 DEF BlocksInv

-----------------------------------------------------------------------------
(* Start and end of a process.                                             *)

LEMMA StartStep == ASSUME IInv, Start PROVE IInv'
<1>1. /\ process = "down" /\ process' = "initialize" /\ starts' = starts + 1 /\ starts < Starts
      /\ unread' = { f \in FolderId : meta[f] # "absent" }
      /\ UNCHANGED <<meta, owner, disk, scripts, folderOf, held, opening, fetch, tainted>>
  BY DEF Start, folders
<1>2. opening = NoOpening
  BY <1>1 DEF IInv, TypeOK
<1>3. TypeOK'
  <2>1. starts' \in 0..Starts
    BY <1>1, RecoveryAssumption DEF IInv, TypeOK
  <2> QED
    BY <1>1, <1>2, <2>1 DEF IInv, TypeOK
<1>4. \A n \in Names : folderOf[n] = 0
  BY <1>1 DEF IInv, NamesInv, FolderHasEntry
<1>5. FoldersApart' /\ EntryHasFolder' /\ OpeningRight'
  BY <1>1, <1>2, <1>4 DEF FoldersApart, EntryHasFolder, OpeningRight
<1>6. FolderHasEntry' /\ OneFolderPerVideo'
  BY <1>1 DEF IInv, NamesInv, FolderHasEntry, OneFolderPerVideo
<1>7. BlocksInv'
  BY <1>1, BlocksKept DEF IInv
<1> QED
  BY <1>3, <1>5, <1>6, <1>7 DEF IInv, NamesInv

LEMMA InitializeDoneStep == ASSUME IInv, InitializeDone PROVE IInv'
<1>1. /\ process = "initialize" /\ unread = {} /\ process' = "running"
      /\ UNCHANGED <<meta, owner, disk, scripts, starts, unread, folderOf, held, opening,
                     fetch, tainted>>
  BY DEF InitializeDone, folders, memory
<1>2. TypeOK'
  BY <1>1 DEF IInv, TypeOK
<1>3. FoldersApart' /\ EntryHasFolder'
  BY <1>1 DEF IInv, NamesInv, FoldersApart, EntryHasFolder
<1>4. FolderHasEntry' /\ OpeningRight' /\ OneFolderPerVideo'
  BY <1>1 DEF IInv, NamesInv, FolderHasEntry, OpeningRight, OneFolderPerVideo
<1>5. BlocksInv'
  BY <1>1, BlocksKept DEF IInv
<1> QED
  BY <1>2, <1>3, <1>4, <1>5 DEF IInv, NamesInv

\* An entry that initialize makes: a folder that no entry has had, with the
\* files in it if its metadata is whole, with some of them if it is partial.
LEMMA InsertStep ==
  ASSUME IInv, process = "initialize", NEW f \in unread, unread' = unread \ {f},
         UNCHANGED <<meta, owner, disk, scripts, process, starts, opening, fetch, tainted>>,
         NEW n \in Names, NEW blocks \in SUBSET Block, Insert(n, f, blocks),
         blocks \subseteq FilesIn(f), n = Phantom => blocks = {},
         \/ meta[f] = "partial"
         \/ meta[f] = "whole" /\ n = owner[f] /\ blocks = FilesIn(f)
  PROVE  IInv'
<1>1. f \in FolderId /\ f # 0
  BY Folders DEF IInv, TypeOK
<1>2. /\ folderOf' \in [Names -> 0..LastFolder]
      /\ held' \in [Names -> SUBSET Block]
      /\ \/ folderOf[n] # 0 /\ UNCHANGED <<folderOf, held>>
         \/ /\ folderOf[n] = 0
            /\ folderOf'[n] = f /\ held'[n] = blocks
            /\ \A m \in Names \ {n} : folderOf'[m] = folderOf[m] /\ held'[m] = held[m]
  <2>1. f \in 0..LastFolder
    BY <1>1, RecoveryAssumption DEF FolderId
  <2> QED
    BY <2>1 DEF Insert, IInv, TypeOK, Names
<1>3. \A m \in Names : folderOf[m] # f
  BY <1>1 DEF IInv, NamesInv, FoldersApart
<1>4. \A m \in Name, b \in Block : ~Fetching(m, b)
  BY DEF IInv, BlocksInv, FetchRight
<1>5. opening = NoOpening
  BY DEF IInv, TypeOK
<1>6. TypeOK'
  BY <1>2, <1>4, <1>5 DEF IInv, TypeOK, Names, Fetching
<1>7. FoldersApart'
  BY <1>2, <1>3 DEF IInv, NamesInv, FoldersApart
<1>8. EntryHasFolder'
  BY <1>2 DEF IInv, NamesInv, EntryHasFolder
<1>9. FolderHasEntry'
  <2>1. \A g \in FolderId : meta[g] = "whole" => g \in unread' \/ folderOf'[owner[g]] # 0
    <3> SUFFICES ASSUME NEW g \in FolderId, meta[g] = "whole"
                 PROVE  g \in unread' \/ folderOf'[owner[g]] # 0
      OBVIOUS
    <3>1. owner[g] \in Names /\ (g \in unread \/ folderOf[owner[g]] # 0)
      BY DEF IInv, NamesInv, FolderHasEntry, Names
    <3>2. CASE g = f
      BY <3>2, <1>1, <1>2
    <3>3. CASE g # f
      BY <3>1, <3>3, <1>1, <1>2
    <3> QED
      BY <3>2, <3>3
  <2> QED
    BY <2>1 DEF IInv, NamesInv, FolderHasEntry
<1>10. OpeningRight' /\ OneFolderPerVideo'
  BY <1>5 DEF IInv, NamesInv, OpeningRight, OneFolderPerVideo
<1>11. FetchRight' /\ FilesInFolders' /\ ScriptsTaint'
  BY <1>4 DEF IInv, BlocksInv, FetchRight, FilesInFolders, ScriptsTaint, Fetching
<1>12. HeldRight'
  BY <1>1, <1>2 DEF IInv, BlocksInv, HeldRight, Names
<1>13. PartHasWriter' /\ StoreIsWhole'
  BY <1>4 DEF IInv, BlocksInv, PartHasWriter, StoreIsWhole, Fetching
<1>14. FilesKnown'
  <2> SUFFICES ASSUME NEW m \in Name, NEW b \in Block, folderOf'[m] # 0,
                      meta[folderOf'[m]] = "whole", disk[<<folderOf'[m], b>>] # "none"
               PROVE  b \in held'[m] \/ <<folderOf'[m], b>> \in tainted
    BY <1>4 DEF FilesKnown, Fetching, File
  <2>1. CASE folderOf'[m] = folderOf[m] /\ held'[m] = held[m]
    BY <2>1, <1>4 DEF IInv, BlocksInv, FilesKnown, File, Fetching
  <2>2. CASE m = n /\ folderOf'[n] = f /\ held'[n] = blocks
    BY <2>2 DEF FilesIn
  <2> QED
    BY <2>1, <2>2, <1>2 DEF Names
<1>15. HeldIsWhole'
  <2> SUFFICES ASSUME NEW m \in Name, NEW b \in held'[m]
               PROVE  \/ disk[<<folderOf'[m], b>>] = "whole"
                      \/ <<folderOf'[m], b>> \in tainted
    BY DEF HeldIsWhole, File
  <2>1. CASE folderOf'[m] = folderOf[m] /\ held'[m] = held[m]
    BY <2>1 DEF IInv, BlocksInv, HeldIsWhole, File
  <2>2. CASE m = n /\ folderOf'[n] = f /\ held'[n] = blocks
    <3>1. b \in Block /\ disk[<<f, b>>] # "none"
      BY <2>2 DEF FilesIn
    <3>2. <<f, b>> \in BlockFile /\ disk[<<f, b>>] \in {"none", "part", "whole"}
      BY <3>1, <1>1 DEF IInv, TypeOK, BlockFile
    <3>3. disk[<<f, b>>] = "part" => <<f, b>> \in tainted
      BY <3>2, <1>4 DEF IInv, BlocksInv, PartHasWriter, Fetching
    <3> QED
      BY <2>2, <3>1, <3>2, <3>3
  <2> QED
    BY <2>1, <2>2, <1>2 DEF Names
<1> QED
  BY <1>6, <1>7, <1>8, <1>9, <1>10, <1>11, <1>12, <1>13, <1>14, <1>15
     DEF IInv, NamesInv, BlocksInv

LEMMA ReadFolderStep == ASSUME IInv, NEW f \in FolderId, ReadFolder(f) PROVE IInv'
<1>1. /\ process = "initialize" /\ f \in unread /\ unread' = unread \ {f}
      /\ UNCHANGED <<meta, owner, disk, scripts, process, starts, opening, fetch, tainted>>
  BY DEF ReadFolder, folders
<1>2. CASE meta[f] = "none" /\ UNCHANGED <<folderOf, held>>
  <2>1. TypeOK'
    BY <1>1, <1>2 DEF IInv, TypeOK
  <2>2. FoldersApart' /\ EntryHasFolder'
    BY <1>1, <1>2 DEF IInv, NamesInv, FoldersApart, EntryHasFolder
  <2>3. FolderHasEntry' /\ OpeningRight' /\ OneFolderPerVideo'
    BY <1>1, <1>2 DEF IInv, NamesInv, FolderHasEntry, OpeningRight, OneFolderPerVideo
  <2>4. BlocksInv'
    BY <1>1, <1>2, BlocksKept DEF IInv
  <2> QED
    BY <2>1, <2>2, <2>3, <2>4 DEF IInv, NamesInv
<1>3. owner[f] \in Names /\ FilesIn(f) \in SUBSET Block
  BY DEF IInv, TypeOK, Names, FilesIn
<1>4. FilesIn(f) # {} \/ meta[f] = "whole" => owner[f] # Phantom
  BY RecoveryAssumption DEF IInv, NamesInv, FolderHasEntry, BlocksInv, FilesInFolders, FilesIn
<1>5. CASE meta[f] = "partial" /\ \E blocks \in SUBSET FilesIn(f) : Insert(owner[f], f, blocks)
  <2> PICK blocks \in SUBSET FilesIn(f) : Insert(owner[f], f, blocks)
    BY <1>5
  <2> QED
    BY <1>1, <1>3, <1>4, <1>5, InsertStep
<1>6. CASE meta[f] = "partial" /\ FilesIn(f) = {} /\ Insert(Phantom, f, {})
  BY <1>1, <1>6, InsertStep DEF Names
<1>7. CASE meta[f] = "whole" /\ Insert(owner[f], f, FilesIn(f))
  BY <1>1, <1>3, <1>4, <1>7, InsertStep
<1> QED
  BY <1>2, <1>5, <1>6, <1>7 DEF ReadFolder

\* A download is of a file in the folder of an entry.
LEMMA FetchOfFetching ==
  ASSUME IInv, NEW k \in BlockFile, FetchOf(k) # "none"
  PROVE  meta[k[1]] \in {"partial", "whole"}
<1> DEFINE here == { n \in Name : folderOf[n] = k[1] /\ fetch[<<n, k[2]>>] # "none" }
<1>1. here # {}
  BY DEF FetchOf
<1>2. PICK n \in Name : folderOf[n] = k[1] /\ fetch[<<n, k[2]>>] # "none"
  BY <1>1
<1>3. k[2] \in Block
  BY DEF BlockFile
<1> QED
  BY <1>2, <1>3, EntryFolder DEF IInv, BlocksInv, FetchRight, Fetching, Names

\* A crash takes with it what the process knew; what it left cut is tainted.
LEMMA CrashStep == ASSUME IInv, Crash PROVE IInv'
<1>1. /\ process' = "down" /\ unread' = {} /\ NothingRead
      /\ UNCHANGED <<meta, owner, disk, starts>>
  BY DEF Crash
<1>2. PICK going \in SUBSET Scripted :
        /\ scripts' = [k \in BlockFile |->
                         IF k \notin going THEN scripts[k]
                         ELSE IF FetchOf(k) = "source" THEN "ready" ELSE "open"]
        /\ tainted' = tainted \cup going \cup { k \in BlockFile : disk[k] = "part" }
  BY DEF Crash
<1>3. /\ \A n \in Names : folderOf'[n] = 0 /\ held'[n] = {}
      /\ \A n \in Name, b \in Block : fetch'[<<n, b>>] = "none"
      /\ opening' = NoOpening
  BY <1>1 DEF NothingRead, Names
<1>4. going \in SUBSET BlockFile /\ \A k \in going : FetchOf(k) # "none"
  BY DEF Scripted
<1>5. TypeOK'
  <2>1. /\ scripts' \in [BlockFile -> {"none", "ready", "open"}]
        /\ tainted' \in SUBSET BlockFile
    BY <1>2, <1>4 DEF IInv, TypeOK
  <2>2. /\ folderOf' \in [Names -> 0..LastFolder]
        /\ held' \in [Names -> SUBSET Block]
        /\ fetch' \in [Name \X Block -> {"none", "peer", "source", "write", "script",
                                         "look", "store"}]
    BY <1>1, RecoveryAssumption DEF NothingRead, Names
  <2>3. NoOpening \in [step : {"none", "mkdir", "metadata"}, name : Name \cup {Phantom},
                       folder : 0..LastFolder]
    BY RecoveryAssumption DEF NoOpening
  <2>4. \A n \in Name : \A b \in held'[n] : fetch'[<<n, b>>] = "none"
    BY <1>3 DEF Names
  <2> QED
    BY <1>1, <1>3, <2>1, <2>2, <2>3, <2>4 DEF IInv, TypeOK, Names
<1>6. FoldersApart' /\ EntryHasFolder' /\ OpeningRight'
  BY <1>3 DEF FoldersApart, EntryHasFolder, OpeningRight
<1>7. FolderHasEntry' /\ OneFolderPerVideo'
  BY <1>1, <1>3 DEF IInv, NamesInv, FolderHasEntry, OneFolderPerVideo
<1>8. FetchRight' /\ HeldRight' /\ StoreIsWhole' /\ FilesKnown' /\ HeldIsWhole'
  BY <1>3 DEF FetchRight, HeldRight, StoreIsWhole, FilesKnown, HeldIsWhole, Fetching, Names
<1>9. FilesInFolders'
  <2> SUFFICES ASSUME NEW f \in FolderId, NEW b \in Block,
                      disk[<<f, b>>] # "none" \/ scripts'[<<f, b>>] # "none"
               PROVE  meta[f] \in {"partial", "whole"}
    BY <1>1, <1>3, Folders DEF FilesInFolders, NoOpening, IInv
  <2>1. <<f, b>> \in BlockFile
    BY DEF BlockFile
  <2>2. CASE <<f, b>> \in going
    BY <2>1, <2>2, <1>4, FetchOfFetching
  <2>3. CASE <<f, b>> \notin going
    <3>1. scripts'[<<f, b>>] = scripts[<<f, b>>]
      BY <1>2, <2>1, <2>3
    <3> QED
      BY <3>1 DEF IInv, BlocksInv, FilesInFolders
  <2> QED
    BY <2>2, <2>3
<1>10. ScriptsTaint' /\ PartHasWriter'
  BY <1>1, <1>2, <1>4 DEF IInv, BlocksInv, ScriptsTaint, PartHasWriter
<1> QED
  BY <1>5, <1>6, <1>7, <1>8, <1>9, <1>10 DEF IInv, NamesInv, BlocksInv

\* An old script works on a tainted file, in a finished folder.
LEMMA ScriptGoesOnStep == ASSUME IInv, NEW k \in BlockFile, ScriptGoesOn(k) PROVE IInv'
<1>1. UNCHANGED <<meta, owner, process, starts, unread, folderOf, held, opening, fetch, tainted>>
  BY DEF ScriptGoesOn, memory
<1>2. /\ scripts[k] # "none" /\ k \in tainted
      /\ disk' \in [BlockFile -> {"none", "part", "whole"}]
      /\ scripts' \in [BlockFile -> {"none", "ready", "open"}]
      /\ \A j \in BlockFile \ {k} : disk'[j] = disk[j] /\ scripts'[j] = scripts[j]
  BY DEF ScriptGoesOn, IInv, TypeOK, BlocksInv, ScriptsTaint
<1>3. TypeOK'
  BY <1>1, <1>2 DEF IInv, TypeOK
<1>4. NamesInv'
  BY <1>1, NamesKept DEF IInv
<1>5. FetchRight' /\ HeldRight'
  BY <1>1 DEF IInv, BlocksInv, FetchRight, HeldRight, Fetching
<1>6. FilesInFolders'
  <2> SUFFICES ASSUME NEW f \in FolderId, NEW b \in Block,
                      disk'[<<f, b>>] # "none" \/ scripts'[<<f, b>>] # "none"
               PROVE  meta[f] \in {"partial", "whole"} /\ opening.folder # f
    BY <1>1 DEF FilesInFolders
  <2>1. <<f, b>> \in BlockFile
    BY DEF BlockFile
  <2>2. scripts[<<f, b>>] # "none" \/ disk[<<f, b>>] # "none"
    BY <2>1, <1>2
  <2> QED
    BY <2>2 DEF IInv, BlocksInv, FilesInFolders
<1>7. ScriptsTaint' /\ PartHasWriter'
  BY <1>1, <1>2 DEF IInv, BlocksInv, ScriptsTaint, PartHasWriter, File
<1>8. \A n \in Name, b \in Block : folderOf[n] # 0 => <<folderOf[n], b>> \in BlockFile
  BY Folders DEF IInv, File, Names
<1>9. StoreIsWhole' /\ FilesKnown'
  BY <1>1, <1>2, <1>8
     DEF IInv, BlocksInv, StoreIsWhole, FilesKnown, FetchRight, Fetching, File
<1>10. HeldIsWhole'
  <2>1. \A n \in Name : \A b \in held[n] : b \in Block /\ folderOf[n] # 0
    BY DEF IInv, TypeOK, BlocksInv, HeldRight, Names
  <2> QED
    BY <1>1, <1>2, <1>8, <2>1 DEF IInv, BlocksInv, HeldIsWhole, File
<1> QED
  BY <1>3, <1>4, <1>5, <1>6, <1>7, <1>9, <1>10 DEF IInv, BlocksInv

-----------------------------------------------------------------------------
(* A new video.                                                            *)

\* What a step does to a folder without a file and an entry concerns no block.
LEMMA BlocksKeptByFolder ==
  ASSUME IInv, UNCHANGED <<disk, scripts, process, folderOf, held, fetch, tainted>>,
         NEW f \in FolderId, meta[f] # "whole", meta'[f] # "whole",
         \A b \in Block : disk[<<f, b>>] = "none" /\ scripts[<<f, b>>] = "none",
         \A g \in FolderId \ {f} : meta'[g] = meta[g],
         opening'.folder = f
  PROVE  BlocksInv'
<1>1. \A n \in Names : folderOf[n] # 0 => folderOf[n] \in FolderId
  BY Folders DEF IInv
<1>2. \A g \in FolderId : meta'[g] = "whole" <=> meta[g] = "whole"
  OBVIOUS
<1>3. FetchRight' /\ HeldRight' /\ FilesInFolders' /\ ScriptsTaint'
  BY <1>1, <1>2
     DEF IInv, BlocksInv, FetchRight, HeldRight, FilesInFolders, ScriptsTaint, Fetching, Names
<1>4. PartHasWriter' /\ StoreIsWhole' /\ HeldIsWhole'
  BY DEF IInv, BlocksInv, PartHasWriter, StoreIsWhole, HeldIsWhole, Fetching, File
<1>5. FilesKnown'
  BY <1>1, <1>2 DEF IInv, BlocksInv, FilesKnown, Fetching, File, Names
<1> QED
  BY <1>3, <1>4, <1>5 DEF BlocksInv

LEMMA MakeFolderStep == ASSUME IInv, NEW n \in Name, MakeFolder(n) PROVE IInv'
<1> DEFINE f == NextFolder
<1>1. /\ process = "running" /\ opening = NoOpening /\ folderOf[n] = 0
      /\ f \in FolderId /\ meta[f] = "absent"
      /\ opening' = [step |-> "mkdir", name |-> n, folder |-> f]
      /\ meta' = [meta EXCEPT ![f] = "none"]
      /\ owner' = [owner EXCEPT ![f] = n]
      /\ UNCHANGED <<disk, scripts, process, starts, unread, folderOf, held, fetch, tainted>>
  BY DEF MakeFolder, Idle
<1> HIDE DEF f
<1>2. /\ meta'[f] = "none" /\ owner'[f] = n
      /\ \A g \in FolderId \ {f} : meta'[g] = meta[g] /\ owner'[g] = owner[g]
  BY <1>1 DEF IInv, TypeOK
<1>3. \A m \in Names : folderOf[m] # 0 => folderOf[m] \in FolderId /\ folderOf[m] # f
  BY <1>1, Folders DEF IInv, NamesInv, EntryHasFolder
<1>4. opening'.name = n /\ opening'.folder = f /\ opening'.step = "mkdir"
  BY <1>1
<1>5. f # 0
  BY <1>1, Folders DEF IInv
<1>6. TypeOK'
  <2>1. opening' \in [step : {"none", "mkdir", "metadata"}, name : Name \cup {Phantom},
                      folder : 0..LastFolder]
    BY <1>1, RecoveryAssumption DEF FolderId
  <2>2. /\ meta' \in [FolderId -> {"absent", "none", "partial", "whole"}]
        /\ owner' \in [FolderId -> Name \cup {Phantom}]
    BY <1>1 DEF IInv, TypeOK
  <2> QED
    BY <1>1, <2>1, <2>2 DEF IInv, TypeOK
<1>7. FoldersApart'
  BY <1>1 DEF IInv, NamesInv, FoldersApart
<1>8. EntryHasFolder'
  BY <1>1, <1>2, <1>3 DEF IInv, NamesInv, EntryHasFolder
<1>9. FolderHasEntry'
  <2>1. \A g \in FolderId : meta'[g] = "whole" =>
          g # f /\ meta[g] = "whole" /\ owner'[g] = owner[g]
    BY <1>2
  <2>2. \A g \in FolderId : meta'[g] # "absent" => owner'[g] \in Name
    BY <1>2 DEF IInv, NamesInv, FolderHasEntry
  <2> QED
    BY <1>1, <2>1, <2>2 DEF IInv, NamesInv, FolderHasEntry
<1>10. OpeningRight'
  <2>1. \A g \in FolderId : meta[g] = "whole" => folderOf[owner[g]] # 0
    BY <1>1 DEF IInv, NamesInv, FolderHasEntry
  <2>2. \A g \in FolderId : meta'[g] = "whole" => owner'[g] # n
    BY <1>1, <1>2, <2>1
  <2>3. \A m \in Names : folderOf[m] # f
    BY <1>3, <1>5
  <2> QED
    BY <1>1, <1>2, <1>4, <2>2, <2>3 DEF OpeningRight
<1>11. OneFolderPerVideo'
  BY <1>2 DEF IInv, NamesInv, OneFolderPerVideo
<1>12. BlocksInv'
  <2>1. \A b \in Block : disk[<<f, b>>] = "none" /\ scripts[<<f, b>>] = "none"
    BY <1>1 DEF IInv, BlocksInv, FilesInFolders
  <2> QED
    BY <1>1, <1>2, <1>4, <2>1, BlocksKeptByFolder
<1> QED
  BY <1>6, <1>7, <1>8, <1>9, <1>10, <1>11, <1>12 DEF IInv, NamesInv

LEMMA CreateMetadataStep == ASSUME IInv, CreateMetadata PROVE IInv'
<1> DEFINE f == opening.folder
<1>1. /\ opening.step = "mkdir" /\ opening # NoOpening
      /\ opening' = [opening EXCEPT !.step = "metadata"]
      /\ meta' = [meta EXCEPT ![f] = "partial"]
      /\ UNCHANGED <<owner, disk, scripts, process, starts, unread, folderOf, held, fetch,
                     tainted>>
  BY DEF CreateMetadata, NoOpening
<1>2. /\ opening.name \in Name /\ f \in FolderId /\ folderOf[opening.name] = 0
      /\ \A n \in Names : folderOf[n] # f
      /\ meta[f] \in {"none", "partial"} /\ owner[f] = opening.name
      /\ \A g \in FolderId : meta[g] = "whole" => owner[g] # opening.name
  BY <1>1 DEF IInv, NamesInv, OpeningRight
<1>3. opening'.name = opening.name /\ opening'.folder = f /\ opening'.step = "metadata"
  BY <1>1 DEF IInv, TypeOK
<1>4. process = "running"
  BY <1>1 DEF IInv, TypeOK
<1>5. TypeOK'
  <2>1. /\ opening' \in [step : {"none", "mkdir", "metadata"}, name : Name \cup {Phantom},
                         folder : 0..LastFolder]
        /\ meta' \in [FolderId -> {"absent", "none", "partial", "whole"}]
    BY <1>1, <1>2 DEF IInv, TypeOK
  <2> QED
    BY <1>1, <1>4, <2>1 DEF IInv, TypeOK
<1> HIDE DEF f
<1>6. meta'[f] = "partial" /\ \A g \in FolderId \ {f} : meta'[g] = meta[g]
  BY <1>1, <1>2 DEF IInv, TypeOK
<1>7. FoldersApart'
  BY <1>1 DEF IInv, NamesInv, FoldersApart
<1>8. EntryHasFolder'
  <2>1. \A n \in Names : folderOf[n] # 0 => meta'[folderOf[n]] = meta[folderOf[n]]
    BY <1>2, <1>6, Folders DEF IInv
  <2> QED
    BY <1>1, <2>1 DEF IInv, NamesInv, EntryHasFolder
<1>9. \A g \in FolderId : meta'[g] = "whole" => meta[g] = "whole"
  BY <1>6
<1>10. FolderHasEntry' /\ OneFolderPerVideo'
  <2>1. \A g \in FolderId : meta'[g] # "absent" => owner[g] \in Name
    BY <1>2, <1>6 DEF IInv, NamesInv, FolderHasEntry
  <2> QED
    BY <1>1, <1>9, <2>1 DEF IInv, NamesInv, FolderHasEntry, OneFolderPerVideo
<1>11. OpeningRight'
  BY <1>1, <1>2, <1>3, <1>6, <1>9 DEF OpeningRight
<1>12. BlocksInv'
  <2>1. \A b \in Block : disk[<<f, b>>] = "none" /\ scripts[<<f, b>>] = "none"
    BY <1>2 DEF IInv, BlocksInv, FilesInFolders, f
  <2> QED
    BY <1>1, <1>2, <1>3, <1>6, <2>1, BlocksKeptByFolder
<1> QED
  BY <1>5, <1>7, <1>8, <1>10, <1>11, <1>12 DEF IInv, NamesInv

LEMMA CloseMetadataStep == ASSUME IInv, CloseMetadata PROVE IInv'
<1> DEFINE f == opening.folder
           n == opening.name
<1>1. /\ opening.step = "metadata" /\ opening # NoOpening /\ opening' = NoOpening
      /\ meta' = [meta EXCEPT ![f] = "whole"]
      /\ folderOf' = [folderOf EXCEPT ![n] = f]
      /\ held' = [held EXCEPT ![n] = {}]
      /\ UNCHANGED <<owner, disk, scripts, process, starts, unread, fetch, tainted>>
  BY DEF CloseMetadata, NoOpening
<1>2. /\ n \in Name /\ f \in FolderId /\ folderOf[n] = 0
      /\ \A m \in Names : folderOf[m] # f
      /\ meta[f] \in {"none", "partial"} /\ owner[f] = n
      /\ \A g \in FolderId : meta[g] = "whole" => owner[g] # n
  BY <1>1 DEF IInv, NamesInv, OpeningRight
<1>3. process = "running" /\ unread = {}
  BY <1>1 DEF IInv, TypeOK, NamesInv, FolderHasEntry
<1> HIDE DEF f, n
<1>4. /\ meta'[f] = "whole" /\ \A g \in FolderId \ {f} : meta'[g] = meta[g]
      /\ folderOf'[n] = f /\ held'[n] = {}
      /\ \A m \in Names \ {n} : folderOf'[m] = folderOf[m] /\ held'[m] = held[m]
  BY <1>1, <1>2 DEF IInv, TypeOK, Names
<1>5. held[n] = {} /\ \A b \in Block : ~Fetching(n, b)
  BY <1>2 DEF IInv, BlocksInv, HeldRight, FetchRight, Names
<1>6. TypeOK'
  <2>1. NoOpening \in [step : {"none", "mkdir", "metadata"}, name : Name \cup {Phantom},
                       folder : 0..LastFolder]
    BY RecoveryAssumption DEF NoOpening
  <2>2. /\ meta' \in [FolderId -> {"absent", "none", "partial", "whole"}]
        /\ folderOf' \in [Name \cup {Phantom} -> 0..LastFolder]
        /\ held' \in [Name \cup {Phantom} -> SUBSET Block]
    BY <1>1, <1>2, RecoveryAssumption DEF IInv, TypeOK, FolderId
  <2>3. ASSUME NEW m \in Name, NEW b \in held'[m] PROVE fetch[<<m, b>>] = "none"
    <3>1. m # n /\ b \in held[m]
      BY <1>4 DEF Names
    <3> QED
      BY <3>1 DEF IInv, TypeOK
  <2> QED
    BY <1>1, <2>1, <2>2, <2>3 DEF IInv, TypeOK
<1>7. \A m \in Names : folderOf[m] # 0 => folderOf[m] \in FolderId \ {f}
  BY <1>2, Folders DEF IInv
<1>8. FoldersApart'
  BY <1>1, <1>2, <1>3, <1>4 DEF IInv, NamesInv, FoldersApart, Names
<1>9. EntryHasFolder'
  <2> SUFFICES ASSUME NEW m \in Names, folderOf'[m] # 0
               PROVE  /\ meta'[folderOf'[m]] \in {"partial", "whole"}
                      /\ meta'[folderOf'[m]] = "whole" => owner[folderOf'[m]] = m
    BY <1>1 DEF EntryHasFolder
  <2>1. CASE m = n
    BY <2>1, <1>2, <1>4
  <2>2. CASE m # n
    BY <2>2, <1>4, <1>7 DEF IInv, NamesInv, EntryHasFolder
  <2> QED
    BY <2>1, <2>2
<1>10. FolderHasEntry'
  <2>1. \A g \in FolderId : meta'[g] = "whole" => owner[g] \in Name /\ folderOf'[owner[g]] # 0
    <3> SUFFICES ASSUME NEW g \in FolderId, meta'[g] = "whole"
                 PROVE  owner[g] \in Name /\ folderOf'[owner[g]] # 0
      OBVIOUS
    <3>1. CASE g = f
      BY <3>1, <1>2, <1>4, Folders DEF IInv
    <3>2. CASE g # f
      BY <3>2, <1>2, <1>3, <1>4 DEF IInv, NamesInv, FolderHasEntry, Names
    <3> QED
      BY <3>1, <3>2
  <2>2. \A g \in FolderId : meta'[g] # "absent" => owner[g] \in Name
    BY <1>2, <1>4 DEF IInv, NamesInv, FolderHasEntry
  <2> QED
    BY <1>1, <1>3, <2>1, <2>2 DEF FolderHasEntry
<1>11. OpeningRight'
  BY <1>1 DEF OpeningRight
<1>12. OneFolderPerVideo'
  BY <1>1, <1>2, <1>4 DEF IInv, NamesInv, OneFolderPerVideo
<1>13. \A m \in Name, b \in Block : Fetching(m, b) => m # n /\ File(m, b)' = File(m, b)
  BY <1>4, <1>5 DEF File, Names
<1>14. FetchRight'
  BY <1>1, <1>4, <1>7, <1>13 DEF IInv, BlocksInv, FetchRight, Fetching, Names
<1>15. HeldRight'
  BY <1>2, <1>4 DEF IInv, BlocksInv, HeldRight
<1>16. FilesInFolders' /\ ScriptsTaint'
  BY <1>1, <1>4, Folders DEF IInv, BlocksInv, FilesInFolders, ScriptsTaint, NoOpening
<1>17. PartHasWriter' /\ StoreIsWhole'
  BY <1>1, <1>13 DEF IInv, BlocksInv, PartHasWriter, StoreIsWhole, Fetching
<1>18. FilesKnown'
  <2> SUFFICES ASSUME NEW m \in Name, NEW b \in Block, folderOf'[m] # 0,
                      meta'[folderOf'[m]] = "whole", disk[<<folderOf'[m], b>>] # "none"
               PROVE  \/ b \in held'[m] \/ Fetching(m, b)
                      \/ <<folderOf'[m], b>> \in tainted
    BY <1>1 DEF FilesKnown, Fetching, File
  <2>1. CASE m = n
    BY <2>1, <1>2, <1>4 DEF IInv, BlocksInv, FilesInFolders, f
  <2>2. CASE m # n
    BY <2>2, <1>4, <1>7 DEF IInv, BlocksInv, FilesKnown, File, Names
  <2> QED
    BY <2>1, <2>2
<1>19. HeldIsWhole'
  BY <1>1, <1>4 DEF IInv, BlocksInv, HeldIsWhole, File, Names
<1> QED
  BY <1>6, <1>8, <1>9, <1>10, <1>11, <1>12, <1>14, <1>15, <1>16, <1>17, <1>18, <1>19
     DEF IInv, NamesInv, BlocksInv

-----------------------------------------------------------------------------
(* A download.                                                             *)

\* Two downloads, or a download and a held block, have different files.
LEMMA FilesApart ==
  ASSUME IInv, NEW n \in Name, NEW m \in Name, NEW b \in Block, NEW c \in Block,
         folderOf[n] # 0, File(m, c) = File(n, b)
  PROVE  m = n /\ c = b
<1>1. folderOf[m] = folderOf[n] /\ c = b
  BY DEF File
<1> QED
  BY <1>1 DEF IInv, NamesInv, FoldersApart, Names

\* A step of a download but the first and the last: it changes one file.
LEMMA FileStep ==
  ASSUME IInv, NEW n \in Name, NEW b \in Block, Fetching(n, b),
         NEW label \in {"peer", "source", "write", "script", "look", "store"},
         Goto(n, b, label),
         UNCHANGED <<meta, owner, scripts, process, starts, unread, folderOf, held, opening>>,
         disk' \in [BlockFile -> {"none", "part", "whole"}],
         tainted' \subseteq tainted,
         \A k \in BlockFile \ {File(n, b)} :
           disk'[k] = disk[k] /\ (k \in tainted => k \in tainted'),
         scripts[File(n, b)] # "none" => File(n, b) \in tainted',
         disk'[File(n, b)] = "part" =>
           File(n, b) \in tainted' \/ label \in {"write", "script"},
         label = "store" => disk'[File(n, b)] = "whole" \/ File(n, b) \in tainted'
  PROVE  IInv'
<1> DEFINE F == File(n, b)
<1>1. /\ fetch' \in [Name \X Block -> {"none", "peer", "source", "write", "script", "look",
                                       "store"}]
      /\ fetch'[<<n, b>>] = label
      /\ \A m \in Name, c \in Block :
           m # n \/ c # b => fetch'[<<m, c>>] = fetch[<<m, c>>]
  BY DEF Goto, IInv, TypeOK
<1>2. /\ process = "running" /\ folderOf[n] # 0
      /\ meta[folderOf[n]] \in {"partial", "whole"} /\ opening.folder # folderOf[n]
      /\ F \in BlockFile
  BY EntryFolder, Folders DEF IInv, BlocksInv, FetchRight, Names
<1>3. \A m \in Name, c \in Block :
        /\ File(m, c)' = File(m, c)
        /\ File(m, c) = F => m = n /\ c = b
        /\ folderOf[m] # 0 => File(m, c) \in BlockFile
  BY <1>2, FilesApart, Folders DEF IInv, File, Names
<1>4. \A m \in Name : \A c \in held[m] :
        c \in Block /\ (m # n \/ c # b) /\ folderOf[m] # 0 /\ fetch[<<m, c>>] = "none"
  <2> SUFFICES ASSUME NEW m \in Name, NEW c \in held[m]
               PROVE  /\ c \in Block /\ (m # n \/ c # b) /\ folderOf[m] # 0
                      /\ fetch[<<m, c>>] = "none"
    OBVIOUS
  <2>1. c \in Block /\ fetch[<<m, c>>] = "none"
    BY DEF IInv, TypeOK
  <2>2. folderOf[m] # 0
    BY DEF IInv, BlocksInv, HeldRight, Names
  <2> QED
    BY <2>1, <2>2 DEF Fetching
<1> HIDE DEF F
<1>5. TypeOK'
  <2>1. ASSUME NEW m \in Name, NEW c \in held[m] PROVE fetch'[<<m, c>>] = "none"
    <3>1. c \in Block /\ (m # n \/ c # b) /\ fetch[<<m, c>>] = "none"
      BY <1>4
    <3> QED
      BY <3>1, <1>1
  <2>2. tainted' \in SUBSET BlockFile
    BY DEF IInv, TypeOK
  <2> QED
    BY <1>1, <2>1, <2>2 DEF IInv, TypeOK
<1>6. NamesInv'
  BY NamesKept DEF IInv
<1>7. FetchRight'
  BY <1>1, <1>2 DEF IInv, BlocksInv, FetchRight, Fetching
<1>8. HeldRight'
  BY DEF IInv, BlocksInv, HeldRight
<1>9. FilesInFolders'
  <2> SUFFICES ASSUME NEW f \in FolderId, NEW c \in Block,
                      disk'[<<f, c>>] # "none" \/ scripts[<<f, c>>] # "none"
               PROVE  meta[f] \in {"partial", "whole"} /\ opening.folder # f
    BY DEF FilesInFolders
  <2>1. CASE <<f, c>> = F
    <3>1. f = folderOf[n]
      BY <2>1 DEF F, File
    <3> QED
      BY <3>1, <1>2
  <2>2. CASE <<f, c>> # F
    <3>1. disk'[<<f, c>>] = disk[<<f, c>>]
      BY <2>2 DEF BlockFile, F
    <3> QED
      BY <3>1 DEF IInv, BlocksInv, FilesInFolders
  <2> QED
    BY <2>1, <2>2
<1>10. ScriptsTaint'
  <2>1. \A k \in BlockFile : k # F /\ k \in tainted => k \in tainted'
    BY DEF F
  <2> QED
    BY <2>1 DEF IInv, BlocksInv, ScriptsTaint, F
<1>11. PartHasWriter'
  <2> SUFFICES ASSUME NEW k \in BlockFile, disk'[k] = "part", k \notin tainted'
               PROVE  \E m \in Name : \E c \in Block :
                        k = File(m, c)' /\ fetch'[<<m, c>>] \in {"write", "script"}
    BY DEF PartHasWriter
  <2>1. CASE k = F
    <3>1. k = File(n, b)' /\ fetch'[<<n, b>>] \in {"write", "script"}
      BY <2>1, <1>1, <1>3 DEF F
    <3> QED
      BY <3>1
  <2>2. CASE k # F
    <3>1. disk[k] = "part" /\ k \notin tainted
      BY <2>2 DEF F
    <3>2. PICK m \in Name, c \in Block :
            k = File(m, c) /\ fetch[<<m, c>>] \in {"write", "script"}
      BY <3>1 DEF IInv, BlocksInv, PartHasWriter
    <3>3. m # n \/ c # b
      BY <3>2, <2>2 DEF F
    <3>4. k = File(m, c)' /\ fetch'[<<m, c>>] \in {"write", "script"}
      BY <3>2, <3>3, <1>1, <1>3
    <3> QED
      BY <3>4
  <2> QED
    BY <2>1, <2>2
<1>12. StoreIsWhole'
  <2> SUFFICES ASSUME NEW m \in Name, NEW c \in Block, fetch'[<<m, c>>] = "store"
               PROVE  disk'[File(m, c)] = "whole" \/ File(m, c) \in tainted'
    BY <1>3 DEF StoreIsWhole
  <2>1. CASE m = n /\ c = b
    BY <2>1, <1>1 DEF F
  <2>2. CASE m # n \/ c # b
    <3>1. fetch[<<m, c>>] = "store" /\ File(m, c) # F
      BY <2>2, <1>1, <1>3
    <3>2. File(m, c) \in BlockFile
      BY <3>1, <1>3 DEF IInv, BlocksInv, FetchRight, Fetching
    <3> QED
      BY <3>1, <3>2 DEF IInv, BlocksInv, StoreIsWhole, F
  <2> QED
    BY <2>1, <2>2
<1>13. FilesKnown'
  <2> SUFFICES ASSUME NEW m \in Name, NEW c \in Block, folderOf[m] # 0,
                      meta[folderOf[m]] = "whole", disk'[File(m, c)] # "none",
                      fetch'[<<m, c>>] = "none"
               PROVE  c \in held[m] \/ File(m, c) \in tainted'
    BY <1>3 DEF FilesKnown, Fetching
  <2>1. m # n \/ c # b
    BY <1>1
  <2>2. File(m, c) # F /\ File(m, c) \in BlockFile /\ fetch[<<m, c>>] = "none"
    BY <2>1, <1>1, <1>3
  <2>3. disk[File(m, c)] # "none"
    BY <2>2 DEF F
  <2> QED
    BY <2>2, <2>3 DEF IInv, BlocksInv, FilesKnown, Fetching, F
<1>14. HeldIsWhole'
  <2> SUFFICES ASSUME NEW m \in Name, NEW c \in held[m]
               PROVE  disk'[File(m, c)'] = "whole" \/ File(m, c)' \in tainted'
    BY DEF HeldIsWhole
  <2>1. /\ File(m, c) # F /\ File(m, c) \in BlockFile
        /\ File(m, c)' = File(m, c)
    <3>1. c \in Block /\ (m # n \/ c # b) /\ folderOf[m] # 0
      BY <1>4
    <3> QED
      BY <3>1, <1>3
  <2> QED
    BY <2>1 DEF IInv, BlocksInv, HeldIsWhole, F
<1> QED
  BY <1>5, <1>6, <1>7, <1>8, <1>9, <1>10, <1>11, <1>12, <1>13, <1>14
     DEF IInv, BlocksInv

\* Steps that touch no file.
LEMMA LabelStep ==
  ASSUME IInv, NEW n \in Name, NEW b \in Block, Fetching(n, b),
         NEW label \in {"source", "look", "store"}, Goto(n, b, label),
         UNCHANGED <<folders, process, starts, unread, folderOf, held, opening, tainted>>,
         fetch[<<n, b>>] \notin {"write", "script"},
         label = "store" => disk[File(n, b)] = "whole" \/ File(n, b) \in tainted
  PROVE  IInv'
<1>1. /\ disk' = disk /\ tainted' = tainted
      /\ UNCHANGED <<meta, owner, scripts, process, starts, unread, folderOf, held, opening>>
  BY DEF folders
<1>2. File(n, b) \in BlockFile
  BY Folders DEF IInv, BlocksInv, FetchRight, Names
<1>3. scripts[File(n, b)] # "none" => File(n, b) \in tainted
  BY <1>2 DEF IInv, BlocksInv, ScriptsTaint
<1>4. disk[File(n, b)] = "part" => File(n, b) \in tainted
  <2> SUFFICES ASSUME disk[File(n, b)] = "part", File(n, b) \notin tainted PROVE FALSE
    OBVIOUS
  <2>1. PICK m \in Name, c \in Block :
          File(n, b) = File(m, c) /\ fetch[<<m, c>>] \in {"write", "script"}
    BY <1>2 DEF IInv, BlocksInv, PartHasWriter
  <2>2. folderOf[n] # 0
    BY DEF IInv, BlocksInv, FetchRight
  <2>3. m = n /\ c = b
    BY <2>1, <2>2, FilesApart
  <2> QED
    BY <2>1, <2>3
<1>5. disk' \in [BlockFile -> {"none", "part", "whole"}]
  BY <1>1 DEF IInv, TypeOK
<1>6. \A k \in BlockFile \ {File(n, b)} :
        disk'[k] = disk[k] /\ (k \in tainted => k \in tainted')
  BY <1>1
<1> QED
  BY <1>1, <1>3, <1>4, <1>5, <1>6, FileStep

\* fopen, by the process or by wget.
LEMMA OpenStep ==
  ASSUME IInv, NEW n \in Name, NEW b \in Block, Fetching(n, b),
         NEW label \in {"write", "script"}, Goto(n, b, label),
         disk' = [disk EXCEPT ![File(n, b)] = "part"], Untaint({File(n, b)}),
         UNCHANGED <<meta, owner, scripts, process, starts, unread, folderOf, held, opening>>
  PROVE  IInv'
<1>1. File(n, b) \in BlockFile
  BY Folders DEF IInv, BlocksInv, FetchRight, Names
<1>2. /\ tainted' \subseteq tainted
      /\ \A k \in BlockFile \ {File(n, b)} : k \in tainted => k \in tainted'
      /\ scripts[File(n, b)] # "none" => File(n, b) \in tainted'
  BY <1>1 DEF Untaint, IInv, BlocksInv, ScriptsTaint
<1>3. /\ disk' \in [BlockFile -> {"none", "part", "whole"}]
      /\ \A k \in BlockFile \ {File(n, b)} : disk'[k] = disk[k]
  BY <1>1 DEF IInv, TypeOK
<1> QED
  BY <1>2, <1>3, FileStep

\* The end of a writer.
LEMMA CloseStep ==
  ASSUME IInv, NEW n \in Name, NEW b \in Block, Fetching(n, b),
         NEW label \in {"look", "store"}, Goto(n, b, label),
         NEW left \in {"none", "part", "whole"},
         (left = "part" \/ label = "store") => left = "whole" \/ File(n, b) \in tainted,
         disk' = [disk EXCEPT ![File(n, b)] = left],
         UNCHANGED <<meta, owner, scripts, process, starts, unread, folderOf, held, opening,
                     tainted>>
  PROVE  IInv'
<1>1. File(n, b) \in BlockFile
  BY Folders DEF IInv, BlocksInv, FetchRight, Names
<1>2. scripts[File(n, b)] # "none" => File(n, b) \in tainted
  BY <1>1 DEF IInv, BlocksInv, ScriptsTaint
<1>3. /\ disk' \in [BlockFile -> {"none", "part", "whole"}]
      /\ disk'[File(n, b)] = left
      /\ \A k \in BlockFile \ {File(n, b)} : disk'[k] = disk[k]
  BY <1>1 DEF IInv, TypeOK
<1> QED
  BY <1>2, <1>3, FileStep

\* handleCache removes held blocks: a block that goes also
\* goes from its map, and one whose file was gone before stays there, tainted.
LEMMA MissStep == ASSUME IInv, NEW n \in Name, NEW b \in Block, Miss(n, b) PROVE IInv'
<1>1. /\ process = "running" /\ folderOf[n] # 0
      /\ b \notin held[n] /\ fetch[<<n, b>>] = "none"
      /\ UNCHANGED <<meta, owner, scripts, process, starts, unread, folderOf, opening>>
  BY DEF Miss, Idle
<1>2. PICK gone \in SUBSET UNION { {folderOf[m]} \X held[m] : m \in Name \ {n} } :
        /\ disk' = [k \in BlockFile |-> IF k \in gone THEN "none" ELSE disk[k]]
        /\ Unset(gone)
        /\ Untaint({ k \in gone : disk[k] # "none" })
  BY DEF Miss
<1>3. PICK label \in {"peer", "source"} : Goto(n, b, label)
  BY DEF Miss
<1>4. /\ fetch' \in [Name \X Block -> {"none", "peer", "source", "write", "script", "look",
                                       "store"}]
      /\ fetch'[<<n, b>>] = label
      /\ \A m \in Name, c \in Block :
           m # n \/ c # b => fetch'[<<m, c>>] = fetch[<<m, c>>]
  BY <1>3 DEF Goto, IInv, TypeOK
<1>5. \A k \in gone : \E m \in Name : \E c \in held[m] : k = File(m, c)
  BY <1>2 DEF File
<1>6. ASSUME NEW m \in Name, NEW c \in held[m]
      PROVE  c \in Block /\ folderOf[m] # 0 /\ fetch[<<m, c>>] = "none"
  BY DEF IInv, TypeOK, BlocksInv, HeldRight, Names
<1>7. ASSUME NEW m \in Name, NEW c \in Block, Fetching(m, c) PROVE File(m, c) \notin gone
  <2> SUFFICES ASSUME File(m, c) \in gone PROVE FALSE
    OBVIOUS
  <2>1. PICK l \in Name, d \in Block : d \in held[l] /\ File(m, c) = File(l, d)
    BY <1>5, <1>6
  <2>2. fetch[<<l, d>>] = "none"
    BY <2>1, <1>6
  <2>3. folderOf[m] # 0
    BY <1>7 DEF IInv, BlocksInv, FetchRight
  <2>4. l = m /\ d = c
    BY <2>1, <2>3, FilesApart
  <2> QED
    BY <1>7, <2>2, <2>4 DEF Fetching
<1>8. /\ disk' \in [BlockFile -> {"none", "part", "whole"}]
      /\ \A k \in BlockFile : disk'[k] = IF k \in gone THEN "none" ELSE disk[k]
  BY <1>2 DEF IInv, TypeOK
<1>9. /\ held' \in [Names -> SUBSET Block]
      /\ \A m \in Names : held'[m] =
           { c \in held[m] : File(m, c) \notin gone \/ disk[File(m, c)] = "none" }
  <2>1. \A m \in Names : held[m] \subseteq Block
    BY DEF IInv, TypeOK, Names
  <2> QED
    BY <1>2, <2>1 DEF Unset, Names
<1>10. /\ tainted' \subseteq tainted
       /\ \A k \in tainted : k \notin tainted' =>
            k \in gone /\ disk[k] # "none" /\ scripts[k] = "none"
  BY <1>2 DEF Untaint
<1>11. \A m \in Name, c \in Block : File(m, c)' = File(m, c)
  BY <1>1 DEF File
<1>12. TypeOK'
  <2>1. ASSUME NEW m \in Name, NEW c \in held'[m] PROVE fetch'[<<m, c>>] = "none"
    <3>1. c \in held[m]
      BY <1>9 DEF Names
    <3>2. m # n \/ c # b
      BY <3>1, <1>1
    <3> QED
      BY <3>1, <3>2, <1>4, <1>6
  <2>2. tainted' \in SUBSET BlockFile
    BY <1>10 DEF IInv, TypeOK
  <2> QED
    BY <1>1, <1>4, <1>8, <1>9, <2>1, <2>2 DEF IInv, TypeOK, Names
<1>13. NamesInv'
  BY <1>1, NamesKept DEF IInv
<1>14. FetchRight'
  BY <1>1, <1>4 DEF IInv, BlocksInv, FetchRight, Fetching
<1>15. HeldRight'
  BY <1>1, <1>9 DEF IInv, BlocksInv, HeldRight
<1>16. FilesInFolders'
  BY <1>1, <1>8 DEF IInv, BlocksInv, FilesInFolders, BlockFile
<1>17. ScriptsTaint'
  BY <1>1, <1>10 DEF IInv, BlocksInv, ScriptsTaint
<1>18. PartHasWriter'
  <2> SUFFICES ASSUME NEW k \in BlockFile, disk'[k] = "part", k \notin tainted'
               PROVE  \E m \in Name : \E c \in Block :
                        k = File(m, c)' /\ fetch'[<<m, c>>] \in {"write", "script"}
    BY DEF PartHasWriter
  <2>1. disk[k] = "part" /\ k \notin tainted
    BY <1>8, <1>10
  <2>2. PICK m \in Name, c \in Block :
          k = File(m, c) /\ fetch[<<m, c>>] \in {"write", "script"}
    BY <2>1 DEF IInv, BlocksInv, PartHasWriter
  <2>3. k = File(m, c)' /\ fetch'[<<m, c>>] \in {"write", "script"}
    BY <2>2, <1>1, <1>4, <1>11
  <2> QED
    BY <2>3
<1>19. StoreIsWhole'
  <2> SUFFICES ASSUME NEW m \in Name, NEW c \in Block, fetch'[<<m, c>>] = "store"
               PROVE  disk'[File(m, c)] = "whole" \/ File(m, c) \in tainted'
    BY <1>11 DEF StoreIsWhole
  <2>1. fetch[<<m, c>>] = "store"
    BY <1>4
  <2>2. File(m, c) \notin gone /\ File(m, c) \in BlockFile
    BY <2>1, <1>7, Folders DEF Fetching, IInv, BlocksInv, FetchRight, Names
  <2> QED
    BY <2>1, <2>2, <1>8, <1>10 DEF IInv, BlocksInv, StoreIsWhole
<1>20. FilesKnown'
  <2> SUFFICES ASSUME NEW m \in Name, NEW c \in Block, folderOf[m] # 0,
                      meta[folderOf[m]] = "whole", disk'[File(m, c)] # "none",
                      fetch'[<<m, c>>] = "none"
               PROVE  c \in held'[m] \/ File(m, c) \in tainted'
    BY <1>1, <1>11 DEF FilesKnown, Fetching
  <2>1. File(m, c) \in BlockFile
    BY Folders DEF IInv, Names
  <2>2. File(m, c) \notin gone /\ disk[File(m, c)] # "none"
    BY <2>1, <1>8
  <2>3. fetch[<<m, c>>] = "none"
    BY <1>1, <1>4
  <2>4. c \in held[m] \/ File(m, c) \in tainted
    BY <2>2, <2>3 DEF IInv, BlocksInv, FilesKnown, Fetching
  <2> QED
    BY <2>2, <2>4, <1>9, <1>10 DEF Names
<1>21. HeldIsWhole'
  <2> SUFFICES ASSUME NEW m \in Name, NEW c \in held'[m]
               PROVE  disk'[File(m, c)'] = "whole" \/ File(m, c)' \in tainted'
    BY DEF HeldIsWhole
  <2>1. c \in held[m] /\ (File(m, c) \notin gone \/ disk[File(m, c)] = "none")
    BY <1>9 DEF Names
  <2>2. c \in Block /\ File(m, c) \in BlockFile /\ File(m, c)' = File(m, c)
    BY <2>1, <1>6, <1>11, Folders DEF IInv, Names
  <2>3. disk[File(m, c)] = "whole" \/ File(m, c) \in tainted
    BY <2>1 DEF IInv, BlocksInv, HeldIsWhole
  <2> QED
    BY <2>1, <2>2, <2>3, <1>8, <1>10
<1> QED
  BY <1>12, <1>13, <1>14, <1>15, <1>16, <1>17, <1>18, <1>19, <1>20, <1>21
     DEF IInv, BlocksInv

LEMMA StoreStep == ASSUME IInv, NEW n \in Name, NEW b \in Block, Store(n, b) PROVE IInv'
<1>1. /\ fetch[<<n, b>>] = "store" /\ Goto(n, b, "none")
      /\ held' = [held EXCEPT ![n] = @ \cup {b}]
      /\ UNCHANGED <<meta, owner, disk, scripts, process, starts, unread, folderOf, opening,
                     tainted>>
  BY DEF Store, folders
<1>2. /\ fetch' \in [Name \X Block -> {"none", "peer", "source", "write", "script", "look",
                                       "store"}]
      /\ fetch'[<<n, b>>] = "none"
      /\ \A m \in Name, c \in Block :
           m # n \/ c # b => fetch'[<<m, c>>] = fetch[<<m, c>>]
  BY <1>1 DEF Goto, IInv, TypeOK
<1>3. /\ held' \in [Names -> SUBSET Block]
      /\ held'[n] = held[n] \cup {b}
      /\ \A m \in Names \ {n} : held'[m] = held[m]
  BY <1>1 DEF IInv, TypeOK, Names
<1>4. \A m \in Name, c \in Block : File(m, c)' = File(m, c)
  BY <1>1 DEF File
<1>5. TypeOK'
  <2>1. ASSUME NEW m \in Name, NEW c \in held'[m] PROVE fetch'[<<m, c>>] = "none"
    <3>1. c \in Block /\ (c \in held[m] \/ (m = n /\ c = b))
      BY <1>3 DEF Names
    <3>2. CASE c \in held[m]
      <4>1. fetch[<<m, c>>] = "none"
        BY <3>2 DEF IInv, TypeOK
      <4> QED
        BY <4>1, <3>1, <1>2
    <3>3. CASE m = n /\ c = b
      BY <3>3, <1>2
    <3> QED
      BY <3>1, <3>2, <3>3
  <2> QED
    BY <1>1, <1>2, <1>3, <2>1 DEF IInv, TypeOK, Names
<1>6. NamesInv'
  BY <1>1, NamesKept DEF IInv
<1>7. folderOf[n] # 0 /\ process = "running"
  BY <1>1 DEF IInv, BlocksInv, FetchRight, Fetching
<1>8. FetchRight'
  BY <1>1, <1>2 DEF IInv, BlocksInv, FetchRight, Fetching
<1>9. HeldRight'
  BY <1>1, <1>3, <1>7 DEF IInv, BlocksInv, HeldRight
<1>10. FilesInFolders' /\ ScriptsTaint'
  BY <1>1 DEF IInv, BlocksInv, FilesInFolders, ScriptsTaint
<1>11. PartHasWriter'
  <2> SUFFICES ASSUME NEW k \in BlockFile, disk[k] = "part", k \notin tainted
               PROVE  \E m \in Name : \E c \in Block :
                        k = File(m, c)' /\ fetch'[<<m, c>>] \in {"write", "script"}
    BY <1>1 DEF PartHasWriter
  <2>1. PICK m \in Name, c \in Block :
          k = File(m, c) /\ fetch[<<m, c>>] \in {"write", "script"}
    BY DEF IInv, BlocksInv, PartHasWriter
  <2>2. k = File(m, c)' /\ fetch'[<<m, c>>] \in {"write", "script"}
    BY <2>1, <1>1, <1>2, <1>4
  <2> QED
    BY <2>2
<1>12. StoreIsWhole'
  BY <1>1, <1>2, <1>4 DEF IInv, BlocksInv, StoreIsWhole
<1>13. FilesKnown'
  <2> SUFFICES ASSUME NEW m \in Name, NEW c \in Block, folderOf[m] # 0,
                      meta[folderOf[m]] = "whole", disk[File(m, c)] # "none",
                      fetch'[<<m, c>>] = "none"
               PROVE  c \in held'[m] \/ File(m, c) \in tainted
    BY <1>1, <1>4 DEF FilesKnown, Fetching
  <2>1. CASE m = n /\ c = b
    BY <2>1, <1>3
  <2>2. CASE m # n \/ c # b
    <3>1. c \in held[m] \/ File(m, c) \in tainted
      BY <2>2, <1>2 DEF IInv, BlocksInv, FilesKnown, Fetching
    <3> QED
      BY <3>1, <1>3 DEF Names
  <2> QED
    BY <2>1, <2>2
<1>14. HeldIsWhole'
  <2> SUFFICES ASSUME NEW m \in Name, NEW c \in held'[m]
               PROVE  disk[File(m, c)] = "whole" \/ File(m, c) \in tainted
    BY <1>1, <1>4 DEF HeldIsWhole, File
  <2>1. CASE c \in held[m]
    BY <2>1 DEF IInv, BlocksInv, HeldIsWhole
  <2>2. CASE m = n /\ c = b
    BY <2>2, <1>1 DEF IInv, BlocksInv, StoreIsWhole
  <2> QED
    BY <2>1, <2>2, <1>3 DEF Names
<1> QED
  BY <1>5, <1>6, <1>8, <1>9, <1>10, <1>11, <1>12, <1>13, <1>14 DEF IInv, BlocksInv

LEMMA DownloadStep ==
  ASSUME IInv, NEW n \in Name, NEW b \in Block, Download(n, b) PROVE IInv'
<1>1. CASE Miss(n, b)
  BY <1>1, MissStep
<1>2. CASE PeerSends(n, b)
  BY <1>2, OpenStep DEF PeerSends, Fetching
<1>3. CASE PeerFails(n, b)
  BY <1>3, LabelStep DEF PeerFails, Fetching
<1>4. CASE Written(n, b)
  <2>1. PICK left \in Left(File(n, b)) : disk' = [disk EXCEPT ![File(n, b)] = left]
    BY <1>4 DEF Written
  <2>2. left \in {"none", "part", "whole"} /\ (left = "whole" \/ File(n, b) \in tainted)
    BY DEF Left
  <2> QED
    BY <1>4, <2>1, <2>2, CloseStep DEF Written, Fetching
<1>5. CASE ScriptOpens(n, b)
  BY <1>5, OpenStep DEF ScriptOpens, Fetching
<1>6. CASE ScriptGivesUp(n, b)
  BY <1>6, LabelStep DEF ScriptGivesUp, Fetching
<1>7. CASE ScriptEnds(n, b)
  <2>1. PICK left \in Left(File(n, b)) \cup {LeftByFailure} :
          disk' = [disk EXCEPT ![File(n, b)] = left]
    BY <1>7 DEF ScriptEnds
  <2>2. /\ left \in {"none", "part", "whole"}
        /\ left = "part" => File(n, b) \in tainted
    BY DEF Left, LeftByFailure
  <2> QED
    BY <1>7, <2>1, <2>2, CloseStep DEF ScriptEnds, Fetching
<1>8. CASE LookForFile(n, b)
  <2> DEFINE label == IF disk[File(n, b)] = "none" THEN "source" ELSE "store"
  <2>1. /\ fetch[<<n, b>>] = "look" /\ Goto(n, b, label)
        /\ UNCHANGED <<folders, process, starts, unread, folderOf, held, opening, tainted>>
    BY <1>8 DEF LookForFile
  <2>2. folderOf[n] # 0 /\ File(n, b) \in BlockFile
    BY <2>1, Folders DEF Fetching, IInv, BlocksInv, FetchRight, Names
  <2>3. disk[File(n, b)] = "part" => File(n, b) \in tainted
    <3> SUFFICES ASSUME disk[File(n, b)] = "part", File(n, b) \notin tainted PROVE FALSE
      OBVIOUS
    <3>1. PICK m \in Name, c \in Block :
            File(n, b) = File(m, c) /\ fetch[<<m, c>>] \in {"write", "script"}
      BY <2>2 DEF IInv, BlocksInv, PartHasWriter
    <3>2. m = n /\ c = b
      BY <2>2, <3>1, FilesApart
    <3> QED
      BY <2>1, <3>1, <3>2
  <2>4. disk[File(n, b)] \in {"none", "part", "whole"}
    BY <2>2 DEF IInv, TypeOK
  <2>5. label \in {"source", "look", "store"}
    OBVIOUS
  <2>6. label = "store" => disk[File(n, b)] = "whole" \/ File(n, b) \in tainted
    BY <2>3, <2>4
  <2>7. Fetching(n, b) /\ fetch[<<n, b>>] \notin {"write", "script"}
    BY <2>1 DEF Fetching
  <2> HIDE DEF label
  <2> QED
    BY <2>1, <2>5, <2>6, <2>7, LabelStep
<1>9. CASE Store(n, b)
  BY <1>9, StoreStep
<1> QED
  BY <1>1, <1>2, <1>3, <1>4, <1>5, <1>6, <1>7, <1>8, <1>9 DEF Download

-----------------------------------------------------------------------------
(* The theorems.                                                           *)

LEMMA NextIInv == IInv /\ [Next]_vars => IInv'
<1> SUFFICES ASSUME IInv, [Next]_vars PROVE IInv'
  OBVIOUS
<1>1. CASE Start
  BY <1>1, StartStep
<1>2. CASE \E f \in FolderId : ReadFolder(f)
  BY <1>2, ReadFolderStep
<1>3. CASE InitializeDone
  BY <1>3, InitializeDoneStep
<1>4. CASE Crash
  BY <1>4, CrashStep
<1>5. CASE \E k \in BlockFile : ScriptGoesOn(k)
  BY <1>5, ScriptGoesOnStep
<1>6. CASE NewVideo
  BY <1>6, MakeFolderStep, CreateMetadataStep, CloseMetadataStep DEF NewVideo
<1>7. CASE \E n \in Name : \E b \in Block : Download(n, b)
  BY <1>7, DownloadStep
<1>8. CASE UNCHANGED vars
  <2>1. UNCHANGED <<meta, owner, disk, scripts, process, starts, unread, folderOf, held,
                    opening, fetch, tainted>>
    BY <1>8 DEF vars, folders, memory
  <2>2. TypeOK'
    BY <2>1 DEF IInv, TypeOK
  <2> QED
    BY <2>1, <2>2, NamesKept, BlocksKept DEF IInv
<1> QED
  BY <1>1, <1>2, <1>3, <1>4, <1>5, <1>6, <1>7, <1>8 DEF Next

LEMMA AlwaysIInv == Spec => []IInv
<1> QED
  BY InitIInv, NextIInv, PTL DEF Spec

\* Every state of the directory and of the client is of its type, whatever
\* crashes there were.
THEOREM TypeCorrect == Spec => []TypeOK
<1>1. IInv => TypeOK
  BY DEF IInv
<1> QED
  BY <1>1, AlwaysIInv, PTL

\* What the map of a file has is a whole file on disk, unless a crash cut it
\* short or a script of an earlier process worked on it: getBlock's hit serves
\* whole blocks.
THEOREM HitsServeWholeBlocks == Spec => []HeldIsWhole
<1>1. IInv => HeldIsWhole
  BY DEF IInv, BlocksInv
<1> QED
  BY <1>1, AlwaysIInv, PTL

\* No video has two folders with whole metadata: getBlock makes one only for a
\* video that initialize has not found.
THEOREM VideosHaveOneFolder == Spec => []OneFolderPerVideo
<1>1. IInv => OneFolderPerVideo
  BY DEF IInv, NamesInv
<1> QED
  BY <1>1, AlwaysIInv, PTL

\* A finished folder that is not the one of its video's entry has lost to
\* partial metadata, of a video that has one finished folder only.
LEMMA EntryOfWhole ==
  ASSUME IInv, process = "running", NEW f \in FolderId, meta[f] = "whole"
  PROVE  /\ owner[f] \in Name
         /\ folderOf[owner[f]] \in FolderId
         /\ meta[folderOf[owner[f]]] \in {"partial", "whole"}
         /\ meta[folderOf[owner[f]]] = "whole" => folderOf[owner[f]] = f
<1>1. owner[f] \in Name /\ folderOf[owner[f]] # 0
  BY DEF IInv, NamesInv, FolderHasEntry
<1>2. folderOf[owner[f]] \in FolderId
  BY <1>1, Folders DEF IInv, Names
<1>3. /\ meta[folderOf[owner[f]]] \in {"partial", "whole"}
      /\ meta[folderOf[owner[f]]] = "whole" => owner[folderOf[owner[f]]] = owner[f]
  BY <1>1 DEF IInv, NamesInv, EntryHasFolder, Names
<1> QED
  BY <1>1, <1>2, <1>3 DEF IInv, NamesInv, OneFolderPerVideo

\* NextFolder is larger than every number that is taken.
LEMMA NextFolderIsLarger ==
  ASSUME TypeOK, NEW g \in KnownFolders
  PROVE  g < NextFolder
<1> DEFINE S == {0} \cup KnownFolders
           Below == { LastFolder - h : h \in S }
           largest == CHOOSE h \in S : \A k \in S : k <= h
<1>1. S \subseteq 0..LastFolder
  BY RecoveryAssumption DEF KnownFolders, TypeOK
<1>2. Below \in SUBSET Nat /\ Below # {}
  BY <1>1, RecoveryAssumption
<1>3. PICK m \in Below : \A k \in Below : m <= k
  BY <1>2, LeastNumber
<1>4. PICK h \in S : m = LastFolder - h
  OBVIOUS
<1>5. \A k \in S : k <= h
  <2> SUFFICES ASSUME NEW k \in S PROVE k <= h
    OBVIOUS
  <2>1. m <= LastFolder - k
    BY <1>3
  <2>2. k \in Int /\ h \in Int /\ LastFolder \in Int
    BY <1>1, RecoveryAssumption
  <2> QED
    BY <1>4, <2>1, <2>2
<1>6. largest \in S /\ \A k \in S : k <= largest
  BY <1>5
<1>7. NextFolder = 1 + largest
  BY DEF NextFolder
<1>8. g \in S /\ g \in Int /\ largest \in Int
  BY <1>1, <1>6
<1> HIDE DEF largest, S
<1> QED
  BY <1>6, <1>7, <1>8

\* mkdir does not fail, unless an earlier process ended while it made a video:
\* the number of getBlock's next folder is free.
THEOREM MkdirSucceeds == Spec => []NextFolderIsFree
<1>1. ASSUME IInv PROVE NextFolderIsFree
  <2> SUFFICES ASSUME Idle, \A f \in FolderId : meta[f] \in {"absent", "whole"},
                      NextFolder \in FolderId, meta[NextFolder] = "whole"
               PROVE  FALSE
    BY DEF NextFolderIsFree
  <2> DEFINE n == owner[NextFolder]
  <2>1. n \in Name /\ folderOf[n] = NextFolder
    BY <1>1, EntryOfWhole DEF Idle
  <2>2. NextFolder \in KnownFolders
    BY <2>1 DEF KnownFolders
  <2>3. NextFolder < NextFolder
    BY <1>1, <2>2, NextFolderIsLarger DEF IInv
  <2> QED
    BY <2>3 DEF FolderId
<1> QED
  BY <1>1, AlwaysIInv, PTL

\* initialize finds whatever earlier processes had finished, but for a video
\* whose name partial metadata of another folder has taken.
THEOREM RestartFindsEverything == Spec => []NothingForgotten
<1>1. ASSUME IInv PROVE NothingForgotten
  <2> SUFFICES ASSUME process = "running", NEW f \in FolderId, meta[f] = "whole",
                      folderOf[owner[f]] = f \/ meta[folderOf[owner[f]]] # "partial"
               PROVE  /\ folderOf[owner[f]] = f
                      /\ \A b \in Block :
                           disk[<<f, b>>] # "none" =>
                             \/ b \in held[owner[f]] \/ fetch[<<owner[f], b>>] # "none"
                             \/ <<f, b>> \in tainted
    BY <1>1, EntryOfWhole DEF NothingForgotten
  <2>1. owner[f] \in Name /\ folderOf[owner[f]] = f
    BY <1>1, EntryOfWhole
  <2>2. f # 0
    BY <1>1, Folders DEF IInv
  <2> QED
    BY <1>1, <2>1, <2>2 DEF IInv, BlocksInv, FilesKnown, File, Fetching
<1> QED
  BY <1>1, AlwaysIInv, PTL

=============================================================================
