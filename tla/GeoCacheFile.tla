---------------------------- MODULE GeoCacheFile ----------------------------
(***************************************************************************)
(* The file of the location cache (internal/geo/cache.go): every           *)
(* PersistEvery new entries a goroutine saves the cache, main saves it     *)
(* once more when it is told to stop, and the next start loads the file.   *)
(*                                                                         *)
(* A save writes a temporary file and renames it, and all saves use the    *)
(* same temporary name.  A file is an inode: a name may move to another    *)
(* one while somebody still writes through a descriptor.  Entries go by    *)
(* the goroutine that put them; one that expires is gone (a save leaves    *)
(* expired ones out, Get never returns them).                              *)
(***************************************************************************)
EXTENDS Integers, FiniteSets

CONSTANTS
    Putters,      \* goroutines that put an entry, each one entry
    Flusher,      \* the save of main when it is told to stop
    None,         \* no file
    PersistEvery, \* entries between two saves
    MaxStarts     \* bound: how often the server starts again

ASSUME FileAssumption ==
    /\ Flusher \notin Putters /\ None \notin Putters \cup {Flusher}
    /\ PersistEvery \in Nat \ {0} /\ MaxStarts \in Nat

VARIABLES
    items,    \* the entries in the cache
    newOps,   \* GeoCache.newOps
    pc,       \* where a putter is
    save,     \* where the save started by a putter, or by main, is
    clean,    \* the snapshot it saves
    fd,       \* the inode it opened
    tmp,      \* the inode with the temporary name
    disk,     \* the inode with the name of the cache file
    content,  \* what is in the inodes
    starts,   \* how often the server started again
    met,      \* history: the saves that ran at the same time as another
    last,     \* history: the snapshot of the last save that met no other
    mixed,    \* history: a save that met another has named the file since
    missed    \* history: a save failed or met another since

memory == <<items, newOps, pc>>
saving == <<save, clean, fd>>
files == <<tmp, disk, content>>
fileHistory == <<met, last, mixed, missed>>
fileVars == <<memory, saving, files, starts, fileHistory>>

Savers == Putters \cup {Flusher}

\* Inodes go by the save that created them.
Whole(S) == [kind |-> "whole", of |-> S]
Empty == [kind |-> "empty", of |-> {}]
Torn == [kind |-> "torn", of |-> {}]

FileTypeOK ==
    /\ items \subseteq Putters /\ newOps \in Nat
    /\ pc \in [Putters -> {"idle", "count", "reset", "done"}]
    /\ save \in [Savers -> {"none", "snap", "open", "write", "rename", "remove", "done"}]
    /\ clean \in [Savers -> SUBSET Putters]
    /\ fd \in [Savers -> Savers \cup {None}]
    /\ tmp \in Savers \cup {None} /\ disk \in Savers \cup {None}
    /\ content \in [Savers -> {Empty, Torn} \cup {Whole(S) : S \in SUBSET Putters}]
    /\ starts \in 0 .. MaxStarts
    /\ met \subseteq Savers /\ last \subseteq Putters
    /\ mixed \in BOOLEAN /\ missed \in BOOLEAN

FileInit ==
    /\ items = {} /\ newOps = 0
    /\ pc = [p \in Putters |-> "idle"]
    /\ save = [s \in Savers |-> "none"]
    /\ clean = [s \in Savers |-> {}]
    /\ fd = [s \in Savers |-> None]
    /\ tmp = None /\ disk = None
    /\ content = [s \in Savers |-> Empty]
    /\ starts = 0
    /\ met = {} /\ last = {} /\ mixed = FALSE /\ missed = FALSE

-----------------------------------------------------------------------------
(* GeoCache.Put                                                            *)

PutItem(p) ==
    /\ pc[p] = "idle"
    /\ items' = items \cup {p}
    /\ pc' = [pc EXCEPT ![p] = "count"]
    /\ UNCHANGED <<newOps, saving, files, starts, fileHistory>>

\* Bug: a save is due only after one entry more.
CountOver(p) ==
    /\ pc[p] = "count"
    /\ newOps' = newOps + 1
    /\ pc' = [pc EXCEPT ![p] = IF newOps' > PersistEvery THEN "reset" ELSE "done"]
    /\ UNCHANGED <<items, saving, files, starts, fileHistory>>

\* The counter is read as it was increased: of two that come together both
\* may find the save due.
Count(p) ==
    /\ pc[p] = "count"
    /\ newOps' = newOps + 1
    /\ pc' = [pc EXCEPT ![p] = IF newOps' >= PersistEvery THEN "reset" ELSE "done"]
    /\ UNCHANGED <<items, saving, files, starts, fileHistory>>

\* The counter starts again and a goroutine is started for the save.
Reset(p) ==
    /\ pc[p] = "reset"
    /\ newOps' = 0
    /\ pc' = [pc EXCEPT ![p] = "done"]
    /\ save' = [save EXCEPT ![p] = "snap"]
    /\ UNCHANGED <<items, clean, fd, files, starts, fileHistory>>

Expire(p) ==
    /\ p \in items /\ pc[p] = "done"
    /\ items' = items \ {p}
    /\ UNCHANGED <<newOps, pc, saving, files, starts, fileHistory>>

\* main is told to stop: FlushCache; requests are still served meanwhile.
Flush ==
    /\ save[Flusher] = "none"
    /\ save' = [save EXCEPT ![Flusher] = "snap"]
    /\ UNCHANGED <<memory, clean, fd, files, starts, fileHistory>>

-----------------------------------------------------------------------------
(* saveToDisk                                                              *)

Running(s) == save[s] \notin {"none", "snap", "done"}
Goto(s, l) == save' = [save EXCEPT ![s] = l]
Return(s) == Goto(s, "done") /\ clean' = [clean EXCEPT ![s] = {}]
Close(s) == fd' = [fd EXCEPT ![s] = None]

TakeSnapshot(s) ==
    /\ save[s] = "snap"
    /\ clean' = [clean EXCEPT ![s] = items]
    /\ Goto(s, "open")
    /\ LET others == {o \in Savers : Running(o)}
       IN met' = IF others = {} THEN met ELSE met \cup others \cup {s}
    /\ UNCHANGED <<memory, fd, files, starts, last, mixed, missed>>

\* Bug: what is left in the temporary file stays in it.
OpenUntruncated(s) ==
    /\ save[s] = "open"
    /\ tmp' = IF tmp = None THEN s ELSE tmp
    /\ fd' = [fd EXCEPT ![s] = tmp']
    /\ Goto(s, "write")
    /\ UNCHANGED <<memory, clean, disk, content, starts, fileHistory>>

\* os.WriteFile opens the temporary file, a new one or the one that is there,
\* and truncates it ...
OpenTmp(s) ==
    /\ save[s] = "open"
    /\ tmp' = IF tmp = None THEN s ELSE tmp
    /\ fd' = [fd EXCEPT ![s] = tmp']
    /\ content' = [content EXCEPT ![tmp'] = Empty]
    /\ Goto(s, "write")
    /\ UNCHANGED <<memory, clean, disk, starts, fileHistory>>

\* ... and writes from its start.  What another save has written there
\* meanwhile shows beyond the end, unless it is shorter.
WriteTmp(s) ==
    /\ save[s] = "write"
    /\ \E c \in {Whole(clean[s]), Torn} :
          /\ content[fd[s]] = Empty => c # Torn
          /\ content' = [content EXCEPT ![fd[s]] = c]
    /\ Close(s) /\ Goto(s, "rename")
    /\ UNCHANGED <<memory, clean, tmp, disk, starts, fileHistory>>

\* No space: nothing or a part is written.
WriteFails(s) ==
    /\ save[s] = "write"
    /\ \E c \in {content[fd[s]], Torn} : content' = [content EXCEPT ![fd[s]] = c]
    /\ Close(s) /\ Return(s)
    /\ missed' = TRUE
    /\ UNCHANGED <<memory, tmp, disk, starts, met, last, mixed>>

\* os.Rename gives the name of the cache file to whatever has the temporary
\* name by now.
Rename(s) ==
    /\ save[s] = "rename" /\ tmp # None
    /\ disk' = tmp /\ tmp' = None
    /\ Return(s)
    /\ last' = IF s \in met THEN last ELSE clean[s]
    /\ mixed' = (s \in met) /\ missed' = (s \in met)
    /\ UNCHANGED <<memory, fd, content, starts, met>>

RenameFails(s) ==
    /\ save[s] = "rename"
    /\ Goto(s, "remove")
    /\ missed' = TRUE
    /\ UNCHANGED <<memory, clean, fd, files, starts, met, last, mixed>>

RemoveTmp(s) ==
    /\ save[s] = "remove"
    /\ tmp' = None
    /\ Return(s)
    /\ UNCHANGED <<memory, fd, disk, content, starts, fileHistory>>

-----------------------------------------------------------------------------

\* The process ends, after the flush or at any other moment, and starts again:
\* loadFromDisk takes what the file has if it is JSON, or starts empty.
Restart ==
    /\ starts < MaxStarts
    /\ starts' = starts + 1
    /\ items' = IF disk = None THEN {} ELSE content[disk].of
    /\ newOps' = 0
    /\ pc' = [p \in Putters |-> IF pc[p] = "idle" THEN "idle" ELSE "done"]
    /\ save' = [s \in Savers |-> IF save[s] = "none" THEN "none" ELSE "done"]
    /\ clean' = [s \in Savers |-> {}] /\ fd' = [s \in Savers |-> None]
    /\ missed' = FALSE
    /\ UNCHANGED <<files, met, last, mixed>>

Put(p) == PutItem(p) \/ Count(p) \/ Reset(p)

Save(s) ==
    \/ TakeSnapshot(s) \/ OpenTmp(s) \/ WriteTmp(s) \/ WriteFails(s)
    \/ Rename(s) \/ RenameFails(s) \/ RemoveTmp(s)

FileNext ==
    \/ \E p \in Putters : Put(p) \/ Expire(p)
    \/ \E s \in Savers : Save(s)
    \/ Flush \/ Restart

FileSpec == FileInit /\ [][FileNext]_fileVars

-----------------------------------------------------------------------------
(* Properties                                                              *)

\* At every moment, and so after every crash, the cache file is the complete
\* snapshot of the last save, whatever failed half-way, left its temporary
\* file behind or was mixed up before: saves that met another do damage only
\* until the next one that runs alone.
FileIsLastSave ==
    ~mixed => IF disk = None THEN last = {} ELSE content[disk] = Whole(last)

Quiet ==
    /\ \A p \in Putters : pc[p] \in {"idle", "done"}
    /\ \A s \in Savers : save[s] \in {"none", "done"}

\* cache.go:19: PersistEvery new queries at most wait for a save.  However the
\* counter is increased and reset, a cache at rest is ahead of its file by
\* fewer entries than that, as long as saves succeed and run one at a time.
FileLagsLittle ==
    Quiet /\ ~missed =>
        Cardinality(items \ (IF disk = None THEN {} ELSE content[disk].of)) < PersistEvery

-----------------------------------------------------------------------------
(* What the documentation says and the code does not do                    *)

\* README.md:196: the cache is kept in data/geo_cache.json; main.go:396: it is
\* saved before the program exits.  So there is a complete file to load.
FileAlwaysLoads == disk # None => content[disk].kind = "whole"

=============================================================================
