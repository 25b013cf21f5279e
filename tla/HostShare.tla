----------------------------- MODULE HostShare -----------------------------
(***************************************************************************)
(* One shared directory on the host: the FileProxy that serves the VM's     *)
(* FUSE requests one at a time, its PathManager, and the calls that change   *)
(* the directory, force or cancel a change, and remove the mapping.          *)
(*                                                                         *)
(* A lock taken and released is one step.  The proxy's life is one          *)
(* connection: the next one makes a new proxy.                              *)
(***************************************************************************)
EXTENDS Naturals, FiniteSets

CONSTANTS
    Roots, NoRoot,
    MaxFds      \* bound: files opened

ASSUME ShareAssumption == NoRoot \notin Roots /\ MaxFds \in Nat

VARIABLES
    readOnly,
    root, pend,     \* current_path; pending_path, NoRoot in state Active
    handles,        \* PathManager.open_handles
    files,          \* open_files: fd -> the root it was opened under, or NoRoot
    nextFd,
    serving,        \* the request being handled
    listening,      \* the listen loop runs
    permit,         \* shutdown_notify holds a permit
    mapped,         \* the proxy is in file_proxies
    row,            \* the mapping's row
    removing,       \* in pending_mapping_removals: "no", then the removal's next step
    unmountTx,      \* "none", "set" or "sent"
    forcing,        \* force_unmount between its locks
    changed,        \* the VM has changed the host's files
    excused         \* files that outlived a forced switch, or whose open a switch overtook

shareVars == <<readOnly, root, pend, handles, files, nextFd, serving, listening, permit, mapped,
               row, removing, unmountTx, forcing, changed, excused>>
pathVars    == <<root, pend, handles>>
removeVars  == <<mapped, row, removing, forcing>>

Fds == 1..MaxFds
Open == {fd \in Fds : files[fd] # NoRoot}
None == [at |-> "none", fd |-> 0, root |-> NoRoot, writes |-> FALSE]

ShareInit ==
    /\ readOnly \in BOOLEAN
    /\ root \in Roots /\ pend = NoRoot
    /\ handles = {} /\ files = [fd \in Fds |-> NoRoot] /\ nextFd = 1
    /\ serving = None /\ listening = TRUE /\ permit = FALSE
    /\ mapped = TRUE /\ row = TRUE /\ removing = "no"
    /\ unmountTx = "none" /\ forcing = "no"
    /\ changed = FALSE /\ excused = {}

Idle == listening /\ serving.at = "none"

-----------------------------------------------------------------------------
(* Requests. *)

\* Busy while a switch is pending; a read-only share takes neither a writing
\* nor a creating open; a path that does not resolve is refused.
OpenResolve(writes) ==
    /\ Idle /\ nextFd <= MaxFds
    /\ pend = NoRoot
    /\ ~(readOnly /\ writes)
    /\ serving' = [at |-> "open", fd |-> 0, root |-> root, writes |-> writes]
    /\ UNCHANGED <<readOnly, pathVars, files, nextFd, listening, permit, removeVars, unmountTx, changed, excused>>

\* The file is opened (or the open fails), then its fd registered, by when a
\* switch may have happened.
OpenRegister ==
    /\ serving.at = "open"
    /\ \/ /\ serving' = None
          /\ UNCHANGED <<handles, nextFd, changed, excused>>
       \/ /\ serving' = [at |-> "insert", fd |-> nextFd, root |-> serving.root, writes |-> serving.writes]
          /\ nextFd' = nextFd + 1
          /\ handles' = handles \cup {nextFd}
          /\ changed' = (changed \/ serving.writes)
          /\ excused' = IF serving.root = root THEN excused ELSE excused \cup {nextFd}
    /\ UNCHANGED <<readOnly, root, pend, files, listening, permit, removeVars, unmountTx>>

OpenInsert ==
    /\ serving.at = "insert"
    /\ files' = [files EXCEPT ![serving.fd] = serving.root]
    /\ serving' = None
    /\ UNCHANGED <<readOnly, pathVars, nextFd, listening, permit, removeVars, unmountTx, changed, excused>>

\* A write goes to the file that is open under the fd.
Write(fd) ==
    /\ Idle /\ ~readOnly /\ fd \in Open
    /\ changed' = TRUE
    /\ UNCHANGED <<readOnly, pathVars, files, nextFd, serving, listening, permit, removeVars, unmountTx, excused>>

\* mkdir, remove, rename, truncate.
ChangeTree ==
    /\ Idle /\ ~readOnly
    /\ changed' = TRUE
    /\ UNCHANGED <<readOnly, pathVars, files, nextFd, serving, listening, permit, removeVars, unmountTx, excused>>

Close(fd) ==
    /\ Idle /\ fd < nextFd
    /\ files' = [files EXCEPT ![fd] = NoRoot]
    /\ serving' = [at |-> "close", fd |-> fd, root |-> NoRoot, writes |-> FALSE]
    /\ UNCHANGED <<readOnly, pathVars, nextFd, listening, permit, removeVars, unmountTx, changed, excused>>

\* fault: the last handle's close does not complete the switch
CloseUnregisterOnly ==
    /\ serving.at = "close"
    /\ handles' = handles \ {serving.fd}
    /\ unmountTx' = IF unmountTx = "set" /\ handles' = {} THEN "sent" ELSE unmountTx
    /\ serving' = None
    /\ UNCHANGED <<readOnly, root, pend, files, nextFd, listening, permit, removeVars, changed, excused>>

\* unregister_handle: the last one completes a pending switch and answers a
\* pending unmount.
CloseUnregister ==
    /\ serving.at = "close"
    /\ handles' = handles \ {serving.fd}
    /\ IF pend # NoRoot /\ handles' = {}
       THEN root' = pend /\ pend' = NoRoot
       ELSE UNCHANGED <<root, pend>>
    /\ unmountTx' = IF unmountTx = "set" /\ handles' = {} THEN "sent" ELSE unmountTx
    /\ serving' = None
    /\ UNCHANGED <<readOnly, files, nextFd, listening, permit, removeVars, changed, excused>>

\* The stream is closed, or a request does not decode.
StreamCloses ==
    /\ Idle
    /\ listening' = FALSE
    /\ UNCHANGED <<readOnly, pathVars, files, nextFd, serving, permit, removeVars, unmountTx, changed, excused>>

ShutdownTaken ==
    /\ Idle /\ permit
    /\ listening' = FALSE /\ permit' = FALSE
    /\ UNCHANGED <<readOnly, pathVars, files, nextFd, serving, removeVars, unmountTx, changed, excused>>

-----------------------------------------------------------------------------
(* Changing the shared directory. *)

\* At once if nothing is open, else pending.  The current directory is
\* accepted and changes nothing, a pending switch included.
ChangeShared(r) ==
    /\ mapped /\ r # root
    /\ IF handles = {} THEN root' = r /\ pend' = NoRoot ELSE pend' = r /\ UNCHANGED root
    /\ UNCHANGED <<readOnly, handles, files, nextFd, serving, listening, permit, removeVars, unmountTx, changed, excused>>

\* The handles are forgotten; their files stay open.
ForceSwitch ==
    /\ mapped /\ pend # NoRoot
    /\ root' = pend /\ pend' = NoRoot /\ handles' = {}
    /\ excused' = excused \cup Open \cup ({serving.fd} \cap Fds)
    /\ UNCHANGED <<readOnly, files, nextFd, serving, listening, permit, removeVars, unmountTx, changed>>

CancelChange ==
    /\ mapped /\ pend # NoRoot
    /\ pend' = NoRoot
    /\ UNCHANGED <<readOnly, root, handles, files, nextFd, serving, listening, permit, removeVars, unmountTx, changed, excused>>

-----------------------------------------------------------------------------
(* Removing the mapping.  A second removal is refused while one goes on. *)

RemoveRow ==
    /\ removing = "no" /\ row
    /\ row' = FALSE /\ removing' = "take"
    /\ UNCHANGED <<readOnly, pathVars, files, nextFd, serving, listening, permit, mapped, unmountTx, forcing, changed, excused>>

RemoveTake ==
    /\ removing = "take"
    /\ mapped' = FALSE
    /\ removing' = IF mapped THEN "unmount" ELSE "no"
    /\ UNCHANGED <<readOnly, pathVars, files, nextFd, serving, listening, permit, row, unmountTx, forcing, changed, excused>>

\* request_unmount: the loop is told to stop now, or when the last handle is
\* closed.
RequestUnmount ==
    /\ removing = "unmount"
    /\ IF handles = {} THEN permit' = TRUE /\ removing' = "no" /\ UNCHANGED unmountTx
                       ELSE unmountTx' = "set" /\ removing' = "wait" /\ UNCHANGED permit
    /\ UNCHANGED <<readOnly, pathVars, files, nextFd, serving, listening, mapped, row, forcing, changed, excused>>

UnmountSignalled ==
    /\ removing = "wait" /\ unmountTx = "sent"
    /\ permit' = TRUE /\ removing' = "no"
    /\ UNCHANGED <<readOnly, pathVars, files, nextFd, serving, listening, mapped, row, unmountTx, forcing, changed, excused>>

\* fault: nothing is forced when the wait is over
UnmountTimeoutGivesUp ==
    /\ removing = "wait" /\ unmountTx = "set" /\ forcing = "no"
    /\ removing' = "no"
    /\ UNCHANGED <<readOnly, pathVars, files, nextFd, serving, listening, permit, mapped, row, unmountTx, forcing, changed, excused>>

\* FILE_UNMOUNT_TIMEOUT_SECS are over.
UnmountTimeout ==
    /\ removing = "wait" /\ unmountTx = "set" /\ forcing = "no"
    /\ forcing' = "files" /\ removing' = "no"
    /\ UNCHANGED <<readOnly, pathVars, files, nextFd, serving, listening, permit, mapped, row, unmountTx, changed, excused>>

\* The user's forced unmount takes the proxy and leaves the row.
UserForceUnmount ==
    /\ mapped /\ forcing = "no"
    /\ mapped' = FALSE /\ forcing' = "files"
    /\ UNCHANGED <<readOnly, pathVars, files, nextFd, serving, listening, permit, row, removing, unmountTx, changed, excused>>

\* force_unmount: the files, the handles, the loop.
ForceFiles ==
    /\ forcing = "files"
    /\ files' = [fd \in Fds |-> NoRoot] /\ forcing' = "handles"
    /\ UNCHANGED <<readOnly, pathVars, nextFd, serving, listening, permit, mapped, row, removing, unmountTx, changed, excused>>

ForceHandles ==
    /\ forcing = "handles"
    /\ handles' = {} /\ permit' = TRUE /\ forcing' = "no"
    /\ unmountTx' = IF unmountTx = "set" THEN "sent" ELSE unmountTx
    /\ excused' = excused \cup Open \cup ({serving.fd} \cap Fds)
    /\ UNCHANGED <<readOnly, root, pend, files, nextFd, serving, listening, mapped, row, removing, changed>>

ServeSteps == OpenRegister \/ OpenInsert \/ CloseUnregister
RemoveSteps == RemoveTake \/ RequestUnmount \/ UnmountSignalled \/ UnmountTimeout \/ ForceFiles \/ ForceHandles

ShareNext ==
    \/ \E w \in BOOLEAN : OpenResolve(w)
    \/ \E fd \in Fds : Write(fd) \/ Close(fd)
    \/ ChangeTree \/ ServeSteps \/ StreamCloses \/ ShutdownTaken
    \/ \E r \in Roots : ChangeShared(r)
    \/ ForceSwitch \/ CancelChange \/ UserForceUnmount \/ RemoveRow \/ RemoveSteps

\* Started tasks run on, timers fire, and the loop's select! picks a ready
\* branch at random: shutdown is taken if it is ready again and again.
ShareFairness == WF_shareVars(ServeSteps) /\ WF_shareVars(RemoveSteps) /\ SF_shareVars(ShutdownTaken)

ShareSpec == ShareInit /\ [][ShareNext]_shareVars /\ ShareFairness

-----------------------------------------------------------------------------
\* The handles that are counted are the files that are open, apart from the
\* request being handled and from what a forced switch or unmount cut loose:
\* what a switch and an unmount wait for is what the VM has open.
HandlesCounted ==
    forcing = "no" =>
        /\ handles \subseteq Open \cup {serving.fd}
        /\ Open \subseteq handles \cup {serving.fd} \cup excused

\* A pending switch has a handle to wait for as long as the loop goes on:
\* otherwise every open is answered with busy for ever.
PendingHasHolder == pend # NoRoot => handles # {} \/ permit \/ ~listening

\* A file is open under the directory that is shared now, unless a switch was
\* forced over it or came between its path's resolution and its registration.
OldRootExplained == \A fd \in Open \ excused : files[fd] = root

\* A read-only share is never changed by the VM.
ReadOnlyUntouched == readOnly => ~changed

\* Once the mapping's removal has begun the loop ends, whatever the VM keeps
\* open and however often it opens and closes.
RemovedShareStops == (~row) ~> (~listening)

\* The host's side of a share: the counted handles are the open files, a pending
\* switch has a handle to wait for, no file stays open under the old directory
\* but by force, and a read-only share is not changed.
ShareSafe == HandlesCounted /\ PendingHasHolder /\ OldRootExplained /\ ReadOnlyUntouched
=============================================================================
