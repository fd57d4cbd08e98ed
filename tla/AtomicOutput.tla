------------------------------ MODULE AtomicOutput ------------------------------
(***************************************************************************)
(* Saving a file by atomic replacement (shelltype/src/io.h, and sg_io.h of *)
(* shellgate, over shellsplit/src/shell_file_internal.h): a temporary file *)
(* beside the destination is written, flushed, given the mode of the file  *)
(* it replaces, synchronised, renamed, and the directory synchronised.     *)
(* Any call may fail, and the machine may crash between any two of them.   *)
(*                                                                         *)
(* The file system is what POSIX leaves of it: beside its current value,   *)
(* every directory entry and file has the values a crash may restore, one  *)
(* by one; a sync reduces them to the current value.  Contents count the   *)
(* parts that reached the file.  Calls that fail before they touched       *)
(* anything, and wording of errno, are left out.  Saves to one path are    *)
(* serialised by the caller.                                               *)
(***************************************************************************)
EXTENDS Integers, FiniteSets

CONSTANTS
    Names,      \* names in the directory that temporary files may get
    Dest,       \* the name to be replaced
    Parts,      \* parts of a complete file
    Modes,      \* permission bits
    Private,    \* 0600
    MaxInode    \* bound on files made, for TLC

Inodes  == 1..MaxInode      \* 1 is the regular file found at first, if any
Absent  == 0
Symlink == -1
Special == -2               \* a directory, a device, "path/"
Foreign == -3               \* somebody else's file under a temporary name
Entries == Inodes \cup {Absent, Symlink, Special, Foreign}
NoName  == ""
NoMode  == ""

ASSUME OutputAssumption ==
    /\ Dest \in Names /\ Private \in Modes
    /\ Parts \in Nat /\ MaxInode \in Nat \ {0}
    /\ NoName \notin Names /\ NoMode \notin Modes

VARIABLES
    pc,         \* the next call of the save
    out,        \* st_atomic_output_t
    written,    \* parts handed to the stream
    failed,     \* result is -1
    dir, dirMay,    \* name -> its entry, and those a crash may restore
    inode,      \* inode -> its contents and mode, and those a crash may restore
    made,       \* the last inode made
    acked,      \* history: the inode of the last save that reported success
    left        \* history: temporary names no save owns any more

disk == <<dir, dirMay, inode, made>>
vars == <<pc, out, written, failed, disk, acked, left>>

NoOutput == [open |-> FALSE, stream |-> FALSE, temp |-> NoName, mode |-> NoMode]

File(parts, mode) == [parts |-> parts, mode |-> mode,
                      partsMay |-> {parts}, modeMay |-> {mode}]

Present == {n \in Names \ {Dest} : dir[n] # Absent}

Init ==
    /\ pc = "idle" /\ out = NoOutput /\ written = 0 /\ failed = FALSE
    /\ \E entry \in {1, Absent, Symlink, Special},
          foreign \in SUBSET (Names \ {Dest}) :
           dir = [n \in Names |-> IF n = Dest THEN entry
                                  ELSE IF n \in foreign THEN Foreign ELSE Absent]
    /\ dirMay = [n \in Names |-> {dir[n]}]
    /\ \E mode \in IF dir[Dest] = 1 THEN Modes ELSE {Private} :
           inode = [i \in Inodes |-> File(Parts, mode)]
    /\ made = 1 /\ acked = 0 /\ left = Present

-------------------------------------------------------------------------------
(* Directory entries and file attributes change in place; until the next   *)
(* sync a crash may restore any value they had.                            *)
Link(n, entry) ==
    /\ dir' = [dir EXCEPT ![n] = entry]
    /\ dirMay' = [dirMay EXCEPT ![n] = @ \cup {entry}]

Reach(parts) == inode' = [inode EXCEPT ![made].parts = parts,
                                       ![made].partsMay = @ \cup {parts}]

Goto(step) == pc' = step /\ UNCHANGED failed
Fail(step) == pc' = step /\ failed' = TRUE

(* What the stream still holds reaches the file, at least in part. *)
Drain == \E parts \in inode[made].parts..written : Reach(parts)

OpenDirectory ==
    /\ pc = "idle" /\ made < MaxInode
    /\ pc' = "stat" /\ failed' = FALSE /\ written' = 0
    /\ out' = [NoOutput EXCEPT !.open = TRUE]
    /\ UNCHANGED <<disk, acked, left>>

Stat ==
    /\ pc = "stat" /\ dir[Dest] # Special
    /\ Goto("create")
    /\ out' = [out EXCEPT !.mode = IF dir[Dest] \in Inodes
                                   THEN inode[dir[Dest]].mode ELSE NoMode]
    /\ UNCHANGED <<written, disk, acked, left>>

StatFails ==
    /\ pc = "stat" /\ Fail("closedir")
    /\ UNCHANGED <<out, written, disk, acked, left>>

CreateAt(n) ==
    /\ pc = "create" /\ Goto("attach")
    /\ made' = made + 1
    /\ inode' = [inode EXCEPT ![made'] = File(0, Private)]
    /\ Link(n, made')
    /\ out' = [out EXCEPT !.temp = n]
    /\ UNCHANGED <<written, acked, left>>

CreateShared(n) ==      \* faulty variant: opens without O_EXCL
    n # Dest /\ CreateAt(n)

CreateAnywhere(n) ==    \* faulty variant: the destination is a candidate
    dir[n] = Absent /\ CreateAt(n)

(* shell_file_create_temp_at: a name that is neither taken nor the one to  *)
(* be published                                                            *)
Create(n) == n # Dest /\ dir[n] = Absent /\ CreateAt(n)

CreateFails ==
    /\ pc = "create" /\ Fail("closedir")
    /\ UNCHANGED <<out, written, disk, acked, left>>

Attach ==
    /\ pc = "attach"
    /\ \/ Goto("write") /\ out' = [out EXCEPT !.stream = TRUE]
       \/ Fail("unlink") /\ UNCHANGED out
    /\ UNCHANGED <<written, disk, acked, left>>

-------------------------------------------------------------------------------
(* Between begin and commit the caller writes; on any error it discards.   *)
Write ==
    /\ pc = "write" /\ written < Parts
    /\ written' = written + 1
    /\ \E parts \in inode[made].parts..written' : Reach(parts)
    /\ UNCHANGED <<pc, out, failed, dir, dirMay, made, acked, left>>

Discard ==
    /\ pc = "write" /\ Fail("close")
    /\ UNCHANGED <<out, written, disk, acked, left>>

Flush ==
    /\ pc = "write" /\ written = Parts
    /\ \/ Goto("mode") /\ Reach(written)
       \/ Fail("close") /\ Drain
    /\ UNCHANGED <<out, written, dir, dirMay, made, acked, left>>

SetModeSkipped ==       \* faulty variant: the new file stays private
    /\ pc = "mode" /\ Goto("sync")
    /\ UNCHANGED <<out, written, disk, acked, left>>

SetMode ==
    /\ pc = "mode"
    /\ \/ out.mode = NoMode /\ Goto("sync") /\ UNCHANGED inode
       \/ /\ out.mode # NoMode /\ Goto("sync")
          /\ inode' = [inode EXCEPT ![made].mode = out.mode,
                                    ![made].modeMay = @ \cup {out.mode}]
       \/ out.mode # NoMode /\ Fail("close") /\ UNCHANGED inode
    /\ UNCHANGED <<out, written, dir, dirMay, made, acked, left>>

SyncFile ==
    /\ pc = "sync"
    /\ \/ /\ Goto("close")
          /\ inode' = [inode EXCEPT ![made] = File(@.parts, @.mode)]
       \/ Fail("close") /\ UNCHANGED inode
    /\ UNCHANGED <<out, written, dir, dirMay, made, acked, left>>

(* fclose, of commit and of discard: it gives up the stream even if it     *)
(* fails, and writes what a failed save left in it.                        *)
Close ==
    /\ pc = "close"
    /\ \/ Goto(IF failed THEN "unlink" ELSE "rename")
       \/ Fail("unlink")
    /\ Drain
    /\ out' = [out EXCEPT !.stream = FALSE]
    /\ UNCHANGED <<written, dir, dirMay, made, acked, left>>

Rename ==
    /\ pc = "rename" /\ Goto("syncdir")
    /\ dir' = [dir EXCEPT ![Dest] = made, ![out.temp] = Absent]
    /\ dirMay' = [dirMay EXCEPT ![Dest] = @ \cup {made},
                                ![out.temp] = @ \cup {Absent}]
    /\ out' = [out EXCEPT !.temp = NoName]
    /\ UNCHANGED <<written, inode, made, acked, left>>

RenameFails ==
    /\ pc = "rename" /\ Fail("unlink")
    /\ UNCHANGED <<out, written, disk, acked, left>>

SyncDirectoryIgnored == \* faulty variant: the result of the sync is ignored
    /\ pc = "syncdir" /\ Goto("closedir")
    /\ UNCHANGED <<out, written, disk, acked, left>>

SyncDirectory ==
    /\ pc = "syncdir"
    /\ \/ Goto("closedir") /\ dirMay' = [n \in Names |-> {dir[n]}]
       \/ Fail("closedir") /\ UNCHANGED dirMay
    /\ UNCHANGED <<out, written, dir, inode, made, acked, left>>

(* unlinkat, whose result is ignored *)
Unlink ==
    /\ pc = "unlink" /\ Goto("closedir")
    /\ \/ Link(out.temp, Absent) /\ UNCHANGED left
       \/ left' = left \cup {out.temp} /\ UNCHANGED <<dir, dirMay>>
    /\ out' = [out EXCEPT !.temp = NoName]
    /\ UNCHANGED <<written, inode, made, acked>>

(* The save returns: with success, unless this close or a call before it   *)
(* failed.                                                                 *)
CloseDirectory ==
    /\ pc = "closedir" /\ Goto("idle")
    /\ acked' \in IF failed THEN {acked} ELSE {acked, made}
    /\ out' = NoOutput
    /\ UNCHANGED <<written, disk, left>>

Crash ==
    /\ pc' = "idle" /\ out' = NoOutput /\ written' = 0 /\ failed' = FALSE
    /\ dir' \in {d \in [Names -> Entries] : \A n \in Names : d[n] \in dirMay[n]}
    /\ dirMay' = [n \in Names |-> {dir'[n]}]
    /\ \E parts \in 0..Parts, mode \in Modes :
           /\ parts \in inode[made].partsMay /\ mode \in inode[made].modeMay
           /\ inode' = [inode EXCEPT ![made] = File(parts, mode)]
    /\ left' = Present'
    /\ UNCHANGED <<made, acked>>

Next ==
    \/ OpenDirectory \/ Stat \/ StatFails
    \/ \E n \in Names : Create(n)
    \/ CreateFails \/ Attach \/ Write \/ Discard
    \/ Flush \/ SetMode \/ SyncFile \/ Close
    \/ Rename \/ RenameFails \/ SyncDirectory \/ Unlink \/ CloseDirectory
    \/ Crash

Spec == Init /\ [][Next]_vars

-------------------------------------------------------------------------------
(* A save that reported success survives every later failure and crash,    *)
(* until a later save replaces it.                                         *)
AckedSurvives ==
    acked # 0 => \A entry \in dirMay[Dest] : entry >= acked

(* "Existing regular files retain their mode" (shelltype.h:689), and a new *)
(* file or a replaced symlink is private, through any sequence of saves    *)
(* and crashes; "temporary files remain private until" they are complete   *)
(* (shelltype.h:694).                                                      *)
ModeKept ==
    /\ \A i \in dirMay[Dest] \cap Inodes : inode[i].modeMay = inode[1].modeMay
    /\ out.temp # NoName /\ inode[made].mode # Private =>
           inode[made].parts = Parts


(* "A nonempty temporary_name denotes an owned, not-yet-renamed file"      *)
(* (shell_file_internal.h:23): a save removes its own file and no other,   *)
(* and one that returned owns nothing.                                     *)
OwnsItsFile ==
    /\ Present = left \cup ({out.temp} \ {NoName})
    /\ out.temp # NoName => dir[out.temp] = made /\ out.temp \notin left
    /\ pc = "idle" => out = NoOutput

Torn == -9
Shows(entry, parts) ==
    IF entry \in Inodes /\ parts # Parts THEN Torn ELSE entry

Promise == INSTANCE ReplacedFile
    WITH Versions <- Entries,
         shown <- Shows(dir[Dest], IF dir[Dest] \in Inodes
                                   THEN inode[dir[Dest]].parts ELSE Parts),
         stable <- UNION {{Shows(entry, parts) :
                             parts \in IF entry \in Inodes
                                       THEN inode[entry].partsMay ELSE {Parts}} :
                            entry \in dirMay[Dest]}

(* The path is a ReplacedFile. *)
ImplementsReplacement == Promise!Spec
===============================================================================
