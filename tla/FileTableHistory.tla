-------------------------- MODULE FileTableHistory --------------------------
(***************************************************************************)
(* FileTable with history variables: what was last stored under each name, *)
(* and which names could not be kept in memory for want of room.           *)
(***************************************************************************)
EXTENDS FileTable

VARIABLES
    newest,      \* newest[n]: what was stored last under n, NoFile if removed
    diskOnly,    \* names whose newest contents did not get into the table
    saveFailed   \* a write of the save in progress failed

hvars == <<vars, newest, diskOnly, saveFailed>>

HInit ==
    /\ Init
    /\ newest = [n \in Names |-> NoFile]
    /\ diskOnly = {}
    /\ saveFailed = FALSE

\* Did this step enter c under n into the table?
Entered == FILE_COUNT' = FILE_COUNT + 1

\* n now holds c, in the table or only on the volume.
Stored(n, c) ==
    /\ newest' = [newest EXCEPT ![n] = c]
    /\ diskOnly' = IF Entered THEN diskOnly \ {n} ELSE diskOnly \union {n}
    /\ UNCHANGED saveFailed

Same == UNCHANGED <<newest, diskOnly, saveFailed>>

HStep ==
    \/ \E n \in Names : BootLoad(n) /\ IF Entered THEN Stored(n, fat[n]) ELSE Same
    \/ \E n \in Names, c \in Contents, ok \in BOOLEAN :
         \/ CmdWrite(n, c, ok) /\ IF ok THEN Stored(n, c) ELSE Same
         \/ CmdEdit(n, c, ok) /\ IF ok \/ CanAlloc(c) THEN Stored(n, c) ELSE Same
         \/ HostFsWrite(n, c, ok) /\ IF CanAlloc(c) THEN Stored(n, c) ELSE Same
    \/ \E n \in Names, c \in Contents, ok, inRoot \in BOOLEAN :
         CmdAsm(n, c, ok, inRoot) /\ IF (inRoot /\ ok) \/ CanAlloc(c) THEN Stored(n, c) ELSE Same
    \/ \E n \in Names, ok \in BOOLEAN :
         /\ CmdRm(n, ok)
         /\ newest' = [newest EXCEPT ![n] = NoFile]
         /\ diskOnly' = diskOnly \ {n}
         /\ UNCHANGED saveFailed
    \/ \E ok \in BOOLEAN :
         /\ SaveStep(ok)
         /\ saveFailed' = (saveFailed \/ ~ok)
         /\ UNCHANGED <<newest, diskOnly>>
    \/ SaveBegin /\ saveFailed' = FALSE /\ UNCHANGED <<newest, diskOnly>>
    \/ BootDone /\ Same
    \/ SaveEnd /\ Same
    \/ \E n \in Names : Take(n) /\ Same
    \/ \E r \in held : Release(r) /\ Same

HReboot ==
    /\ Reboot
    /\ newest' = [n \in Names |-> NoFile]
    /\ diskOnly' = {}
    /\ saveFailed' = FALSE

HNext == HStep \/ HReboot

HSpec == HInit /\ [][HNext]_hvars

-----------------------------------------------------------------------------

IsLastMatch(n, i) == i \in Matches(n) /\ \A j \in Matches(n) : j <= i

\* write, edit and asm leave older entries of the name in front of theirs and
\* remove_file takes only one away, but the LAST entry of a name is always the
\* newest contents that got into the table.
LastIsNewest ==
    \A n \in Names \ diskOnly :
        newest[n] # NoFile =>
            \E i \in Matches(n) : IsLastMatch(n, i) /\ Bytes(fileData[i]) = newest[n]

\* A save none of whose writes failed leaves the newest contents of every file
\* on the volume, although it also writes the stale entries of the name
\* (save_to_fat goes through the table from the front).
SaveKeepsNewest ==
    [][SaveEnd /\ ~saveFailed =>
         \A n \in Names \ diskOnly : newest[n] # NoFile => fat[n] = newest[n]]_hvars

\* "so a subsequent `run` or `ls` sees them" (write.rs), "so the new one takes
\* precedence" (host_fs_write), "Remove from the in-memory table too" (rm.rs): what
\* find_file returns for a name is what was last stored under it, or nothing.
FindsNewest == \A n \in Names \ diskOnly : find_file(n) = newest[n]

=============================================================================
