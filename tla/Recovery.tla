------------------------------ MODULE Recovery ------------------------------
(***************************************************************************)
(* The cache directory of one client (common.cpp) over the crashes and     *)
(* restarts of its process: what getBlock leaves there, step by step, and  *)
(* what initialize makes of it.                                            *)
(*                                                                         *)
(* A video has a folder, named by a number, with a file metadata and one   *)
(* file per block.  The C library writes metadata when it is closed, or    *)
(* what there is of it when exit is called before: until then it is        *)
(* partial.  A block file is written by the process itself, with what a    *)
(* peer sent, or by the download script, which is a process of its own and *)
(* may go on when the client is gone.  The maps of BlockCache are the sets *)
(* held; its locks are left out, but that a thread that opens a new video  *)
(* holds client_mutex all the time.                                        *)
(***************************************************************************)
EXTENDS Integers

CONSTANTS
  Name,          \* the videos
  Phantom,       \* what initialize may read for a name in partial metadata
  Block,         \* the block numbers of each
  LastFolder,    \* bound: the number of folders
  Starts         \* bound: how often the client is started

ASSUME RecoveryAssumption ==
  /\ Phantom \notin Name
  /\ LastFolder \in Nat
  /\ Starts \in Nat

FolderId == 1..LastFolder

\* The block files there can be.
BlockFile == FolderId \X Block

NoOpening == [step |-> "none", name |-> Phantom, folder |-> 0]

VARIABLES
  meta,          \* of each folder number: "absent", "none", "partial", "whole"
  owner,         \* the video whose folder it is
  disk,          \* of each block file: "none", "part" or "whole"
  scripts,       \* the scripts of earlier processes: "none", "ready" or "open"
  process,       \* "down", "initialize" or "running"
  starts,        \* the number of starts so far
  unread,        \* the folders that readdir has still to return
  folderOf,      \* url_to_folder, 0 for a name that is not in files
  held,          \* the blocks in the map of each name
  opening,       \* the new video getBlock makes a folder for
  fetch,         \* where the download of each block is
  tainted        \* history: block files that a crash cut, or a script of an
                 \* earlier process has worked on since they were made

folders == <<meta, owner, disk, scripts>>
memory  == <<unread, folderOf, held, opening, fetch>>
vars    == <<folders, process, starts, memory, tainted>>

File(n, b) == <<folderOf[n], b>>

NothingRead ==
  /\ folderOf' = [n \in Name \cup {Phantom} |-> 0]
  /\ held' = [n \in Name \cup {Phantom} |-> {}]
  /\ opening' = NoOpening
  /\ fetch' = [k \in Name \X Block |-> "none"]

Init ==
  /\ meta = [f \in FolderId |-> "absent"]
  /\ owner = [f \in FolderId |-> Phantom]
  /\ disk = [k \in BlockFile |-> "none"]
  /\ scripts = [k \in BlockFile |-> "none"]
  /\ process = "down"
  /\ starts = 0
  /\ unread = {}
  /\ folderOf = [n \in Name \cup {Phantom} |-> 0]
  /\ held = [n \in Name \cup {Phantom} |-> {}]
  /\ opening = NoOpening
  /\ fetch = [k \in Name \X Block |-> "none"]
  /\ tainted = {}

-----------------------------------------------------------------------------
(* initialize.                                                             *)

Start ==
  /\ process = "down" /\ starts < Starts
  /\ process' = "initialize"
  /\ starts' = starts + 1
  /\ unread' = { f \in FolderId : meta[f] # "absent" }
  /\ UNCHANGED <<folders, folderOf, held, opening, fetch, tainted>>

\* Broken variant: the first file of a folder is taken for metadata.
FilesInButFirst(f) == { b \in Block : disk[<<f, b>>] # "none" /\ \E c \in Block : c < b }

\* Whatever is there counts as a block, however long it is.
FilesIn(f) == { b \in Block : disk[<<f, b>>] # "none" }

\* Broken variant: a folder without a block gets no entry.
InsertNonEmpty(n, f, blocks) ==
  IF folderOf[n] = 0 /\ blocks # {}
  THEN folderOf' = [folderOf EXCEPT ![n] = f] /\ held' = [held EXCEPT ![n] = blocks]
  ELSE UNCHANGED <<folderOf, held>>

\* A name that is already there stays where it is, in url_to_folder as well as
\* for getFileIdxByURL.
Insert(n, f, blocks) ==
  IF folderOf[n] = 0
  THEN folderOf' = [folderOf EXCEPT ![n] = f] /\ held' = [held EXCEPT ![n] = blocks]
  ELSE UNCHANGED <<folderOf, held>>

\* A folder without metadata is skipped.  Partial metadata leaves the name and
\* the sizes, or the sizes, to what the variables happen to hold: the process
\* may end by a division by zero (see Crash), or it takes the sizes of another
\* video, and the entry works for the blocks that such a video has.  Under a
\* name that nobody asks for nothing is downloaded.
ReadFolder(f) ==
  /\ process = "initialize" /\ f \in unread
  /\ unread' = unread \ {f}
  /\ \/ meta[f] = "none"    /\ UNCHANGED <<folderOf, held>>
     \/ meta[f] = "partial" /\ \E blocks \in SUBSET FilesIn(f) : Insert(owner[f], f, blocks)
     \/ meta[f] = "partial" /\ FilesIn(f) = {} /\ Insert(Phantom, f, {})
     \/ meta[f] = "whole"   /\ Insert(owner[f], f, FilesIn(f))
  /\ UNCHANGED <<folders, process, starts, opening, fetch, tainted>>

InitializeDone ==
  /\ process = "initialize" /\ unread = {}
  /\ process' = "running"
  /\ UNCHANGED <<folders, starts, memory, tainted>>

-----------------------------------------------------------------------------
(* The end of the process, anywhere.                                       *)

KnownFolders == { folderOf[n] : n \in Name \cup {Phantom} }

\* The download of a block file, if there is one.
FetchOf(k) ==
  LET here == { n \in Name : folderOf[n] = k[1] /\ fetch[<<n, k[2]>>] # "none" }
  IN  IF here = {} THEN "none" ELSE fetch[<<CHOOSE n \in here : TRUE, k[2]>>]

Scripted == { k \in BlockFile : FetchOf(k) \in {"source", "script"} }

Crash ==
  /\ process # "down"
  /\ process' = "down"
  /\ \E going \in SUBSET Scripted :
       /\ scripts' = [k \in BlockFile |->
                        IF k \notin going THEN scripts[k]
                        ELSE IF FetchOf(k) = "source" THEN "ready" ELSE "open"]
       /\ tainted' = tainted \cup going \cup { k \in BlockFile : disk[k] = "part" }
  /\ unread' = {}
  /\ NothingRead
  /\ UNCHANGED <<meta, owner, disk, starts>>

\* A script that goes on: wget makes or truncates the file and fills it, or
\* the script unlinks it.
ScriptGoesOn(k) ==
  /\ \/ /\ scripts[k] = "ready"
        /\ scripts' = [scripts EXCEPT ![k] = "open"]
        /\ disk' = [disk EXCEPT ![k] = "part"]
     \/ /\ scripts[k] = "open"
        /\ scripts' = [scripts EXCEPT ![k] = "none"]
        /\ \E left \in {"none", "part", "whole"} : disk' = [disk EXCEPT ![k] = left]
  /\ UNCHANGED <<meta, owner, process, starts, memory, tainted>>

-----------------------------------------------------------------------------
(* A new video.                                                            *)

Idle == process = "running" /\ opening = NoOpening

\* Broken variant: the largest number that is taken, and not the next one.
LargestFolder ==
  CHOOSE f \in {1} \cup KnownFolders : \A g \in {1} \cup KnownFolders : g <= f

\* One more than the largest number in url_to_folder.
NextFolder ==
  1 + CHOOSE f \in {0} \cup KnownFolders : \A g \in {0} \cup KnownFolders : g <= f

\* mkdir.  It fails, and the process exits, when there is a folder with that
\* number already: see Crash.
MakeFolder(n) ==
  /\ Idle /\ folderOf[n] = 0
  /\ NextFolder \in FolderId /\ meta[NextFolder] = "absent"
  /\ opening' = [step |-> "mkdir", name |-> n, folder |-> NextFolder]
  /\ meta' = [meta EXCEPT ![NextFolder] = "none"]
  /\ owner' = [owner EXCEPT ![NextFolder] = n]
  /\ UNCHANGED <<disk, scripts, process, starts, unread, folderOf, held, fetch, tainted>>

\* fopen.
CreateMetadata ==
  /\ opening.step = "mkdir"
  /\ opening' = [opening EXCEPT !.step = "metadata"]
  /\ meta' = [meta EXCEPT ![opening.folder] = "partial"]
  /\ UNCHANGED <<owner, disk, scripts, process, starts, unread, folderOf, held,
                 fetch, tainted>>

\* fclose; then the new file gets its entry.
CloseMetadata ==
  /\ opening.step = "metadata"
  /\ opening' = NoOpening
  /\ meta' = [meta EXCEPT ![opening.folder] = "whole"]
  /\ folderOf' = [folderOf EXCEPT ![opening.name] = opening.folder]
  /\ held' = [held EXCEPT ![opening.name] = {}]
  /\ UNCHANGED <<owner, disk, scripts, process, starts, unread, fetch, tainted>>

-----------------------------------------------------------------------------
(* A download.                                                             *)

Goto(n, b, label) == fetch' = [fetch EXCEPT ![<<n, b>>] = label]

\* Fresh block files, and those that are gone, have no past, unless an old
\* script is still at work.
Untaint(K) == tainted' = tainted \ { k \in K : scripts[k] = "none" }

\* unsetBlock for each block that unlink has removed.
Unset(gone) ==
  held' = [m \in Name \cup {Phantom} |->
             { b \in held[m] : File(m, b) \notin gone \/ disk[File(m, b)] = "none" }]

\* A block is missing.  It is marked; handleCache may unlink blocks of other
\* videos (see BlockCache for which); a peer or the source is chosen.
Miss(n, b) ==
  /\ Idle /\ folderOf[n] # 0
  /\ b \notin held[n] /\ fetch[<<n, b>>] = "none"
  /\ \E label \in {"peer", "source"} : Goto(n, b, label)
  /\ \E gone \in SUBSET UNION { {folderOf[m]} \X held[m] : m \in Name \ {n} } :
       /\ disk' = [k \in BlockFile |-> IF k \in gone THEN "none" ELSE disk[k]]
       /\ Unset(gone)
       /\ Untaint({ k \in gone : disk[k] # "none" })
  /\ UNCHANGED <<meta, owner, scripts, process, starts, unread, folderOf, opening>>

\* The peer has sent the block: fopen.
PeerSends(n, b) ==
  /\ fetch[<<n, b>>] = "peer"
  /\ Goto(n, b, "write")
  /\ disk' = [disk EXCEPT ![File(n, b)] = "part"]
  /\ Untaint({File(n, b)})
  /\ UNCHANGED <<meta, owner, scripts, process, starts, unread, folderOf, held, opening>>

PeerFails(n, b) ==
  /\ fetch[<<n, b>>] = "peer"
  /\ Goto(n, b, "source")
  /\ UNCHANGED <<folders, process, starts, unread, folderOf, held, opening, tainted>>

\* What a writer leaves: a whole file, if nobody else writes it.
Left(k) == IF k \in tainted THEN {"none", "part", "whole"} ELSE {"whole"}

\* fwrite and fclose.
Written(n, b) ==
  /\ fetch[<<n, b>>] = "write"
  /\ Goto(n, b, "store")
  /\ \E left \in Left(File(n, b)) : disk' = [disk EXCEPT ![File(n, b)] = left]
  /\ UNCHANGED <<meta, owner, scripts, process, starts, unread, folderOf, held,
                 opening, tainted>>

\* The script: wget opens the file, if it comes that far.
ScriptOpens(n, b) ==
  /\ fetch[<<n, b>>] = "source"
  /\ Goto(n, b, "script")
  /\ disk' = [disk EXCEPT ![File(n, b)] = "part"]
  /\ Untaint({File(n, b)})
  /\ UNCHANGED <<meta, owner, scripts, process, starts, unread, folderOf, held, opening>>

ScriptGivesUp(n, b) ==
  /\ fetch[<<n, b>>] = "source"
  /\ Goto(n, b, "look")
  /\ UNCHANGED <<folders, process, starts, unread, folderOf, held, opening, tainted>>

\* Broken variant: what a failed wget has left stays.
LeftByFailureStays == "part"

\* wget has failed, and the script unlinks the file.
LeftByFailure == "none"

ScriptEnds(n, b) ==
  /\ fetch[<<n, b>>] = "script"
  /\ Goto(n, b, "look")
  /\ \E left \in Left(File(n, b)) \cup {LeftByFailure} :
       disk' = [disk EXCEPT ![File(n, b)] = left]
  /\ UNCHANGED <<meta, owner, scripts, process, starts, unread, folderOf, held,
                 opening, tainted>>

\* A file that is there is taken for the block; else the script is run again.
LookForFile(n, b) ==
  /\ fetch[<<n, b>>] = "look"
  /\ Goto(n, b, IF disk[File(n, b)] = "none" THEN "source" ELSE "store")
  /\ UNCHANGED <<folders, process, starts, unread, folderOf, held, opening, tainted>>

\* Broken variant: the mark stays.
StoreKeepMark(n, b) ==
  /\ Idle /\ fetch[<<n, b>>] = "store"
  /\ held' = [held EXCEPT ![n] = @ \cup {b}]
  /\ UNCHANGED <<folders, process, starts, unread, folderOf, opening, fetch, tainted>>

\* Holding client_mutex: the map gets the block.
Store(n, b) ==
  /\ Idle /\ fetch[<<n, b>>] = "store"
  /\ Goto(n, b, "none")
  /\ held' = [held EXCEPT ![n] = @ \cup {b}]
  /\ UNCHANGED <<folders, process, starts, unread, folderOf, opening, tainted>>

-----------------------------------------------------------------------------
Download(n, b) ==
  \/ Miss(n, b) \/ PeerSends(n, b) \/ PeerFails(n, b) \/ Written(n, b)
  \/ ScriptOpens(n, b) \/ ScriptGivesUp(n, b) \/ ScriptEnds(n, b)
  \/ LookForFile(n, b) \/ Store(n, b)

NewVideo == (\E n \in Name : MakeFolder(n)) \/ CreateMetadata \/ CloseMetadata

Next ==
  \/ Start \/ (\E f \in FolderId : ReadFolder(f)) \/ InitializeDone \/ Crash
  \/ \E k \in BlockFile : ScriptGoesOn(k)
  \/ NewVideo
  \/ \E n \in Name : \E b \in Block : Download(n, b)

Spec == Init /\ [][Next]_vars

-----------------------------------------------------------------------------
(* Properties.                                                             *)

\* Type invariant.  A block that is fetched is in the map of no file, and a
\* folder is being made only by a process that runs.
TypeOK ==
  /\ meta \in [FolderId -> {"absent", "none", "partial", "whole"}]
  /\ owner \in [FolderId -> Name \cup {Phantom}]
  /\ disk \in [BlockFile -> {"none", "part", "whole"}]
  /\ scripts \in [BlockFile -> {"none", "ready", "open"}]
  /\ process \in {"down", "initialize", "running"}
  /\ starts \in 0..Starts
  /\ unread \in SUBSET FolderId
  /\ folderOf \in [Name \cup {Phantom} -> 0..LastFolder]
  /\ held \in [Name \cup {Phantom} -> SUBSET Block]
  /\ opening \in [step : {"none", "mkdir", "metadata"}, name : Name \cup {Phantom},
                 folder : 0..LastFolder]
  /\ fetch \in [Name \X Block -> {"none", "peer", "source", "write", "script", "look", "store"}]
  /\ tainted \in SUBSET BlockFile
  /\ \A n \in Name : \A b \in held[n] : fetch[<<n, b>>] = "none"
  /\ opening # NoOpening => process = "running"

\* The number of the next folder is free, so that mkdir succeeds, unless an
\* earlier process ended between mkdir and the end of the metadata.
NextFolderIsFree ==
  /\ Idle
  /\ \A f \in FolderId : meta[f] \in {"absent", "whole"}
  /\ NextFolder \in FolderId
  => meta[NextFolder] = "absent"

\* No video has two folders, but for those without whole metadata.
OneFolderPerVideo ==
  \A f, g \in FolderId :
    meta[f] = "whole" /\ meta[g] = "whole" /\ owner[f] = owner[g] => f = g

\* After a start, whatever the earlier processes had finished is there: every
\* video with whole metadata, under its name, and every block file of it,
\* unless its name was also read from partial metadata of another folder.  A
\* file that is not in the map is being written, by this process or by a
\* script of an earlier one.
NothingForgotten ==
  process = "running" =>
    \A f \in FolderId : meta[f] = "whole" =>
      \/ folderOf[owner[f]] \in FolderId \ {f} /\ meta[folderOf[owner[f]]] = "partial"
      \/ /\ folderOf[owner[f]] = f
         /\ \A b \in Block :
              disk[<<f, b>>] # "none" =>
                \/ b \in held[owner[f]] \/ fetch[<<owner[f], b>>] # "none"
                \/ <<f, b>> \in tainted

\* What the map of a file has is a whole file on disk: a cache hit serves the
\* block and all of it (as long as the block was when it was downloaded), unless
\* a crash cut the file short or a script of an earlier process worked on it.
HeldIsWhole ==
  \A n \in Name : \A b \in held[n] : disk[File(n, b)] = "whole" \/ File(n, b) \in tainted

=============================================================================
