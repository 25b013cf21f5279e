-------------------------- MODULE FileShareProofs --------------------------
(***************************************************************************)
(* The two sides of a shared directory.  The host's, for any directories    *)
(* and any number of opened files: the counted handles are the open files,  *)
(* and what a switch of the directory leaves behind is explained.  The VM's, *)
(* for any names, operations and bounds: inodes, cached attributes, answers  *)
(* and file handles.                                                       *)
(***************************************************************************)
EXTENDS HostShare, GuestMount, FiniteSetTheorems, TLAPS

-----------------------------------------------------------------------------
(* The host's side                                                         *)

Services == [at : {"none", "open", "insert", "close"}, fd : Fds \cup {0},
             root : Roots \cup {NoRoot}, writes : BOOLEAN]

(* The state has its types, and an fd that will be given out is in range.  *)
ShareTypes ==
  /\ readOnly \in BOOLEAN /\ changed \in BOOLEAN
  /\ listening \in BOOLEAN /\ permit \in BOOLEAN
  /\ root \in Roots /\ pend \in Roots \cup {NoRoot}
  /\ handles \subseteq Fds /\ excused \subseteq Fds
  /\ files \in [Fds -> Roots \cup {NoRoot}]
  /\ nextFd \in Nat \ {0}
  /\ serving \in Services
  /\ forcing \in {"no", "files", "handles"}
  /\ serving.at = "open" => nextFd \in Fds

(* The fd of the request being handled: none before it is registered, not  *)
(* in open_files after it, nor is one that was not given out.              *)
ServedFd ==
  /\ serving.at \in {"none", "open"} => serving.fd = 0
  /\ serving.at \in {"insert", "close"} => serving.fd \in Fds
  /\ serving.fd < nextFd
  /\ \A fd \in Open : fd # serving.fd /\ fd < nextFd

(* HandlesCounted without its exception: a forced unmount breaks only its  *)
(* first half, and only between its two locks.                             *)
Counted ==
  /\ forcing # "handles" => handles \subseteq Open \cup {serving.fd}
  /\ Open \subseteq handles \cup excused

(* A file that is opened and not yet in open_files is counted or excused,  *)
(* and its directory is the current one or it is excused.                  *)
Registered ==
  serving.at = "insert" =>
    /\ serving.fd \in handles \cup excused
    /\ serving.root \in Roots
    /\ serving.fd \in excused \/ serving.root = root

(* What a read-only share serves does not write.                           *)
ServesReadOnly == readOnly /\ serving.at = "open" => ~serving.writes

(* An open in progress has resolved its path under some directory.         *)
Resolved == serving.at = "open" => serving.root \in Roots

ShareInv ==
  /\ ShareTypes /\ ServedFd /\ Counted /\ Registered /\ ServesReadOnly /\ Resolved
  /\ PendingHasHolder /\ OldRootExplained /\ ReadOnlyUntouched

-----------------------------------------------------------------------------
(* Nothing is open at the start.                                           *)
LEMMA ShareInvInit == ShareInit => ShareInv
<1> SUFFICES ASSUME ShareInit
             PROVE  ShareInv
  OBVIOUS
<1> USE ShareAssumption DEF ShareInit, None
<1>1. ShareTypes
  <2>1. serving \in Services
    BY DEF Services
  <2>2. files \in [Fds -> Roots \cup {NoRoot}]
    OBVIOUS
  <2>3. listening \in BOOLEAN /\ permit \in BOOLEAN /\ changed \in BOOLEAN
    BY Zenon
  <2>4. serving.at # "open"
    OBVIOUS
  <2>5. QED
    BY <2>1, <2>2, <2>3, <2>4 DEF ShareTypes
<1>2. Open = {}
  BY DEF Open
<1>3. ServedFd /\ Counted /\ Registered /\ OldRootExplained
  BY <1>2 DEF ServedFd, Counted, Registered, OldRootExplained
<1>4. ServesReadOnly /\ Resolved /\ PendingHasHolder /\ ReadOnlyUntouched
  BY DEF ServesReadOnly, Resolved, PendingHasHolder, ReadOnlyUntouched
<1>5. QED
  BY <1>1, <1>3, <1>4 DEF ShareInv

(* Opening a file: the path is resolved, the file registered, then entered *)
(* in open_files.                                                          *)
LEMMA OpenKeeps ==
  ASSUME ShareInv, (\E w \in BOOLEAN : OpenResolve(w)) \/ OpenRegister \/ OpenInsert
  PROVE  ShareInv'
<1> USE ShareAssumption DEF ShareInv, ShareTypes, Services, pathVars, removeVars
<1>1. ASSUME NEW w \in BOOLEAN, OpenResolve(w)
      PROVE  ShareInv'
  BY <1>1 DEF OpenResolve, Idle, ServedFd, Counted, Registered, ServesReadOnly, Resolved,
              PendingHasHolder, OldRootExplained, ReadOnlyUntouched, Open, Fds
<1>2. CASE OpenRegister
  <2>1. CASE serving' = None /\ UNCHANGED <<handles, nextFd, changed, excused>>
    BY <1>2, <2>1 DEF OpenRegister, None, ServedFd, Counted, Registered, ServesReadOnly, Resolved,
              PendingHasHolder, OldRootExplained, ReadOnlyUntouched, Open, Fds
  <2>2. CASE ~(serving' = None /\ UNCHANGED <<handles, nextFd, changed, excused>>)
    <3>1. ShareTypes'
      <4>1. changed' \in BOOLEAN
        BY <1>2, <2>2, Zenon DEF OpenRegister
      <4>2. serving' \in Services /\ serving'.at = "insert"
        BY <1>2, <2>2 DEF OpenRegister
      <4>3. nextFd' \in Nat \ {0} /\ handles' \subseteq Fds /\ excused' \subseteq Fds
        BY <1>2, <2>2 DEF OpenRegister
      <4>4. UNCHANGED <<readOnly, root, pend, files, listening, permit, forcing>>
        BY <1>2 DEF OpenRegister
      <4>5. QED
        BY <4>1, <4>2, <4>3, <4>4
    <3>2. ServedFd'
      BY <1>2, <2>2 DEF OpenRegister, ServedFd, Open, Fds
    <3>3. Counted'
      <4>1. handles' = handles \cup {nextFd} /\ serving'.fd = nextFd /\ excused \subseteq excused'
        BY <1>2, <2>2 DEF OpenRegister
      <4>2. Open' = Open /\ forcing' = forcing
        BY <1>2 DEF OpenRegister, Open
      <4>3. serving.fd \notin handles
        BY <1>2 DEF OpenRegister, ServedFd, Fds
      <4>4. QED
        BY <4>1, <4>2, <4>3 DEF Counted
    <3>4. Registered'
      BY <1>2, <2>2 DEF OpenRegister, Registered, Resolved
    <3>5. ServesReadOnly' /\ Resolved' /\ ReadOnlyUntouched'
      BY <1>2, <2>2 DEF OpenRegister, ServesReadOnly, Resolved, ReadOnlyUntouched
    <3>6. PendingHasHolder' /\ OldRootExplained'
      BY <1>2, <2>2 DEF OpenRegister, PendingHasHolder, OldRootExplained, Open
    <3>7. QED
      BY <3>1, <3>2, <3>3, <3>4, <3>5, <3>6
  <2>3. QED
    BY <2>1, <2>2
<1>3. CASE OpenInsert
  BY <1>3 DEF OpenInsert, None, ServedFd, Counted, Registered, ServesReadOnly, Resolved,
              PendingHasHolder, OldRootExplained, ReadOnlyUntouched, Open, Fds
<1>4. QED
  BY <1>1, <1>2, <1>3

(* Writes, changes of the tree, and closing a file: it leaves open_files,   *)
(* then its handle is unregistered, which may complete a switch.            *)
LEMMA UseKeeps ==
  ASSUME ShareInv, ChangeTree \/ CloseUnregister \/ \E fd \in Fds : Write(fd) \/ Close(fd)
  PROVE  ShareInv'
<1> USE ShareAssumption DEF ShareInv, ShareTypes, Services, pathVars, removeVars
<1>1. ASSUME NEW fd \in Fds, Write(fd)
      PROVE  ShareInv'
  BY <1>1 DEF Write, ServedFd, Counted, Registered, ServesReadOnly, Resolved,
              PendingHasHolder, OldRootExplained, ReadOnlyUntouched, Open, Fds
<1>2. ASSUME NEW fd \in Fds, Close(fd)
      PROVE  ShareInv'
  <2>1. ShareTypes'
    BY <1>2 DEF Close, Idle, None, ServedFd, Fds
  <2>2. ServedFd' /\ Counted' /\ Registered'
    BY <1>2 DEF Close, Idle, None, ServedFd, Counted, Registered, Resolved, Open, Fds
  <2>3. ServesReadOnly' /\ Resolved' /\ ReadOnlyUntouched'
    BY <1>2 DEF Close, Idle, None, ServesReadOnly, Resolved, ReadOnlyUntouched
  <2>4. PendingHasHolder' /\ OldRootExplained'
    BY <1>2 DEF Close, Idle, None, PendingHasHolder, OldRootExplained, ServedFd, Counted, Registered, Open
  <2>5. QED
    BY <2>1, <2>2, <2>3, <2>4
<1>3. CASE ChangeTree
  BY <1>3 DEF ChangeTree, ServedFd, Counted, Registered, ServesReadOnly, Resolved,
              PendingHasHolder, OldRootExplained, ReadOnlyUntouched, Open, Fds
<1>4. CASE CloseUnregister
  <2>1. ShareTypes'
    BY <1>4 DEF CloseUnregister, None, ServedFd, Fds
  <2>2. ServedFd'
    BY <1>4 DEF CloseUnregister, None, ServedFd, Open, Fds
  <2>3. Registered'
    BY <1>4 DEF CloseUnregister, None, Registered
  <2>4. Counted'
    BY <1>4 DEF CloseUnregister, None, ServedFd, Counted, Open
  <2>5. ServesReadOnly' /\ Resolved' /\ ReadOnlyUntouched'
    BY <1>4 DEF CloseUnregister, None, ServesReadOnly, Resolved, ReadOnlyUntouched
  <2>6. PendingHasHolder' /\ OldRootExplained'
    BY <1>4 DEF CloseUnregister, None, PendingHasHolder, OldRootExplained, ServedFd, Counted, Registered, Open
  <2>7. QED
    BY <2>1, <2>2, <2>3, <2>4, <2>5, <2>6
<1>5. QED
  BY <1>1, <1>2, <1>3, <1>4

(* Switching the directory, by force or not, and giving the switch up.      *)
LEMMA SwitchKeeps ==
  ASSUME ShareInv, (\E r \in Roots : ChangeShared(r)) \/ ForceSwitch \/ CancelChange
  PROVE  ShareInv'
<1> USE ShareAssumption DEF ShareInv, ShareTypes, Services, pathVars, removeVars
<1>1. ASSUME NEW r \in Roots, ChangeShared(r)
      PROVE  ShareInv'
  BY <1>1 DEF ChangeShared, ServedFd, Counted, Registered, ServesReadOnly, Resolved,
              PendingHasHolder, OldRootExplained, ReadOnlyUntouched, Open, Fds
<1>2. CASE ForceSwitch
  BY ZenonT(40), <1>2 DEF ForceSwitch, ServedFd, Counted, Registered, ServesReadOnly, Resolved,
              PendingHasHolder, OldRootExplained, ReadOnlyUntouched, Open, Fds
<1>3. CASE CancelChange
  BY <1>3 DEF CancelChange, ServedFd, Counted, Registered, ServesReadOnly, Resolved,
              PendingHasHolder, OldRootExplained, ReadOnlyUntouched, Open, Fds
<1>4. QED
  BY <1>1, <1>2, <1>3

(* The loop's end and the removal of the mapping, up to its forced end.     *)
LEMMA RemovalKeeps ==
  ASSUME ShareInv,
         StreamCloses \/ ShutdownTaken \/ UserForceUnmount \/ RemoveRow \/ RemoveSteps
  PROVE  ShareInv'
<1> USE ShareAssumption DEF ShareInv, ShareTypes, Services, pathVars, removeVars
<1>1. CASE StreamCloses \/ ShutdownTaken
  <2>1. ShareTypes'
    BY <1>1 DEF StreamCloses, ShutdownTaken, ServedFd, Fds
  <2>2. ServedFd' /\ Counted' /\ Registered'
    BY <1>1 DEF StreamCloses, ShutdownTaken, ServedFd, Counted, Registered, Resolved, Open, Fds
  <2>3. ServesReadOnly' /\ Resolved' /\ ReadOnlyUntouched'
    BY <1>1 DEF StreamCloses, ShutdownTaken, ServesReadOnly, Resolved, ReadOnlyUntouched
  <2>4. PendingHasHolder' /\ OldRootExplained'
    BY <1>1 DEF StreamCloses, ShutdownTaken, PendingHasHolder, OldRootExplained, ServedFd, Counted, Registered, Open
  <2>5. QED
    BY <2>1, <2>2, <2>3, <2>4
<1>2. CASE UserForceUnmount \/ UnmountTimeout
  <2>1. ShareTypes'
    BY <1>2 DEF UserForceUnmount, UnmountTimeout, ServedFd, Fds
  <2>2. ServedFd' /\ Counted' /\ Registered'
    BY ZenonT(40), <1>2 DEF UserForceUnmount, UnmountTimeout, ServedFd, Counted, Registered, Resolved, Open, Fds
  <2>3. ServesReadOnly' /\ Resolved' /\ ReadOnlyUntouched'
    BY <1>2 DEF UserForceUnmount, UnmountTimeout, ServesReadOnly, Resolved, ReadOnlyUntouched
  <2>4. PendingHasHolder' /\ OldRootExplained'
    BY <1>2 DEF UserForceUnmount, UnmountTimeout, PendingHasHolder, OldRootExplained, ServedFd, Counted, Registered, Open
  <2>5. QED
    BY <2>1, <2>2, <2>3, <2>4
<1>3. CASE RemoveRow \/ RemoveTake \/ RequestUnmount \/ UnmountSignalled
  <2>1. ShareTypes'
    BY ZenonT(40), <1>3 DEF RemoveRow, RemoveTake, RequestUnmount, UnmountSignalled, ServedFd, Fds
  <2>2. ServedFd' /\ Counted' /\ Registered'
    BY ZenonT(40), <1>3 DEF RemoveRow, RemoveTake, RequestUnmount, UnmountSignalled, ServedFd, Counted, Registered, Resolved, Open, Fds
  <2>3. ServesReadOnly' /\ Resolved' /\ ReadOnlyUntouched'
    BY <1>3 DEF RemoveRow, RemoveTake, RequestUnmount, UnmountSignalled, ServesReadOnly, Resolved, ReadOnlyUntouched
  <2>4. PendingHasHolder' /\ OldRootExplained'
    BY <1>3 DEF RemoveRow, RemoveTake, RequestUnmount, UnmountSignalled, PendingHasHolder, OldRootExplained, ServedFd, Counted, Registered, Open
  <2>5. QED
    BY <2>1, <2>2, <2>3, <2>4
<1>4. CASE ForceFiles
  BY <1>4 DEF ForceFiles, ServedFd, Counted, Registered, ServesReadOnly, Resolved,
              PendingHasHolder, OldRootExplained, ReadOnlyUntouched, Open, Fds
<1>5. CASE ForceHandles
  BY <1>5 DEF ForceHandles, ServedFd, Counted, Registered, ServesReadOnly, Resolved,
              PendingHasHolder, OldRootExplained, ReadOnlyUntouched, Open, Fds
<1>6. QED
  BY <1>1, <1>2, <1>3, <1>4, <1>5 DEF RemoveSteps

(* Every step of the share keeps its invariant.                             *)
LEMMA ShareInvStep == ShareInv /\ [ShareNext]_shareVars => ShareInv'
<1> SUFFICES ASSUME ShareInv, [ShareNext]_shareVars
             PROVE  ShareInv'
  OBVIOUS
<1>1. CASE ShareNext
  BY <1>1, OpenKeeps, UseKeeps, SwitchKeeps, RemovalKeeps DEF ShareNext, ServeSteps
<1>2. CASE UNCHANGED shareVars
  BY <1>2 DEF shareVars, ShareInv, ShareTypes, ServedFd, Counted, Registered, ServesReadOnly,
              Resolved, PendingHasHolder, OldRootExplained, ReadOnlyUntouched, Open
<1>3. QED
  BY <1>1, <1>2

-----------------------------------------------------------------------------
(* The host's side of a share is safe (file_proxy, PathManager): whatever   *)
(* the VM opens and closes while the user switches, forces, cancels and     *)
(* removes, the handles that are counted are the files that are open, a     *)
(* pending switch has something to wait for, a file under the old directory *)
(* has been left there by force, and a read-only share is not changed.      *)
THEOREM ShareIsSafe == ShareSpec => []ShareSafe
<1>1. ShareInv => ShareSafe
  BY DEF ShareInv, ShareSafe, Counted, HandlesCounted
<1>2. QED
  BY <1>1, ShareInvInit, ShareInvStep, PTL DEF ShareSpec

-----------------------------------------------------------------------------
(* The VM's side                                                           *)

Operations == {"none", "lookup", "getattr", "setattr", "open", "create", "mkdir", "unlink",
               "rename", "release", "write", "readdir"}
Points == {"idle", "sent", "got", "put", "drop", "handle", "remap", "again"}
Whats == {"none", "stat", "truncate", "open", "create", "mkdir", "remove", "rename",
          "close", "write", "readdir"}
Paths == Names \cup {NoName}
MaybeInos == Inos \cup {0}

TaskRecord == [op : Operations, at : Points, path : Paths, to : Paths, ino : MaybeInos,
               id : Nat, got : Whats, fd : Nat, alone : BOOLEAN]
Message == [id : Nat, what : Whats, path : Paths, to : Paths, fd : Nat]
Answer == [id : Nat, ok : BOOLEAN, what : Whats, fd : Nat]

MountTypes ==
  /\ task \in [Tasks -> TaskRecord]
  /\ inoOf \in [Names -> MaybeInos] /\ pathOf \in [Inos -> Paths] /\ nextIno \in Nat \ {0}
  /\ cache \in [Names -> MaybeInos]
  /\ nextId \in Nat
  /\ toHost \in Seq(Message) /\ toGuest \in Seq(Answer)
  /\ local \subseteq Nat /\ hostFds \subseteq Nat /\ nextHostFd \in Nat \ {0}

(* What an operation asks the host.                                        *)
Asks(op, what) ==
  \/ op \in {"lookup", "getattr"} /\ what = "stat"
  \/ op = "setattr" /\ what \in {"truncate", "stat"}
  \/ op = "mkdir" /\ what \in {"mkdir", "stat"}
  \/ op = "unlink" /\ what = "remove"
  \/ op = "release" /\ what = "close"
  \/ op \in {"open", "create", "rename", "write", "readdir"} /\ what = op

Named == {"lookup", "getattr", "setattr", "open", "create", "mkdir", "unlink", "rename"}

(* What a task holds, by its operation and where it is.                    *)
ShapeOK(q) ==
  /\ q.at = "idle" => q.path = NoName
  /\ q.op \in Named => q.path \in Names
  /\ q.op \notin Named => q.path = NoName
  /\ q.op # "rename" => q.to = NoName
  /\ q.op = "rename" => q.to \in Names /\ q.to # q.path
  /\ q.op \in {"getattr", "setattr", "write"} => q.ino \in Inos
  /\ q.at = "put" => q.op = "lookup" /\ q.ino \in Inos
  /\ q.at \in {"drop", "handle"} => q.op = "create"
  /\ q.at = "remap" => q.op \in {"unlink", "rename"}
  /\ q.at = "again" => q.op \in {"mkdir", "setattr"}
  /\ q.at = "got" => Asks(q.op, q.got)

ShapesOK == \A k \in Tasks : ShapeOK(task[k])

(* Inodes are given out in order, and there is one for each operation that *)
(* may still need one.                                                     *)
NeedsInode(q) ==
  q.op \in {"lookup", "create", "mkdir", "readdir"} /\ q.at \in {"sent", "got", "again"}

Allocating == {k \in Tasks : NeedsInode(task[k])}

Room ==
  /\ nextIno + Cardinality(Allocating) <= MaxIno + 1
  /\ \A n \in Names : inoOf[n] < nextIno
  /\ \A i \in Inos : i >= nextIno => pathOf[i] = NoName

(* Two operations on one name know of each other.                          *)
AloneOnNames ==
  \A k, j \in Tasks : k # j /\ task[k].alone => On(k) \cap On(j) = {}

(* The attributes that will be put into the cache.                         *)
Puts(q) == q.at = "put" \/ q.op \in {"getattr", "setattr"}

CacheOK ==
  /\ \A n \in Names \ crossed : cache[n] # 0 => pathOf[cache[n]] = n
  /\ \A k \in Tasks : Puts(task[k]) /\ task[k].path \notin crossed => pathOf[task[k].ino] = task[k].path
  /\ \A k \in Tasks : task[k].alone /\ task[k].at = "remap" => \A n \in On(k) : cache[n] = 0

(* Ids are used once, and what is on the wire under the id of a task that  *)
(* waits is what its operation asked.                                      *)
IdsOK ==
  /\ \A k \in Tasks : task[k].at = "sent" => task[k].id < nextId
  /\ \A k, j \in Tasks : task[k].at = "sent" /\ task[j].at = "sent" /\ task[k].id = task[j].id => k = j
  /\ \A x \in 1 .. Len(toHost) : /\ toHost[x].id < nextId
                                 /\ \A k \in Tasks : task[k].at = "sent" /\ task[k].id = toHost[x].id
                                                       => Asks(task[k].op, toHost[x].what)
  /\ \A x \in 1 .. Len(toGuest) : /\ toGuest[x].id < nextId
                                  /\ \A k \in Tasks : task[k].at = "sent" /\ task[k].id = toGuest[x].id
                                                       => Asks(task[k].op, toGuest[x].what)

(* The ways an fd of the host's is known: to a task, by an answer on the   *)
(* wire, in the table; and the one a request will close.                   *)
Opener == {"open", "create"}
Holds(q, f) == q.op \in Opener /\ q.at \in {"got", "drop", "handle"} /\ q.fd = f
Carries(m, f) == m.ok /\ m.what \in Opener /\ m.fd = f
Closes(m, f) == m.what = "close" /\ m.fd = f

FdsOK ==
  /\ \A f \in hostFds : f < nextHostFd
  /\ local \subseteq hostFds
  /\ \A k \in Tasks, f \in Nat : Holds(task[k], f) =>
       /\ f \in hostFds \ local
       /\ \A j \in Tasks : Holds(task[j], f) => k = j
       /\ \A x \in 1 .. Len(toGuest) : ~Carries(toGuest[x], f)
  /\ \A x \in 1 .. Len(toGuest), f \in Nat : Carries(toGuest[x], f) =>
       /\ f \in hostFds \ local /\ f # 0
       /\ \A y \in 1 .. Len(toGuest) : Carries(toGuest[y], f) => x = y
  /\ \A x \in 1 .. Len(toHost), f \in Nat : Closes(toHost[x], f) =>
       /\ f < nextHostFd
       /\ f \notin local
       /\ \A k \in Tasks : ~Holds(task[k], f)
       /\ \A y \in 1 .. Len(toGuest) : ~Carries(toGuest[y], f)

MountInv ==
  /\ MountTypes /\ ShapesOK /\ Room /\ InodesAgree /\ AloneOnNames /\ CacheOK
  /\ IdsOK /\ FdsOK
-----------------------------------------------------------------------------
(* The parts of the state                                                  *)

(* The first element of a sequence taken off, and one put at its end.      *)
LEMMA TailAt ==
  ASSUME NEW S, NEW s \in Seq(S), s # <<>>
  PROVE  /\ Tail(s) \in Seq(S) /\ Len(Tail(s)) = Len(s) - 1
         /\ 1 \in 1 .. Len(s) /\ Head(s) = s[1] /\ Head(s) \in S
         /\ \A x \in 1 .. Len(Tail(s)) : x + 1 \in 1 .. Len(s) /\ Tail(s)[x] = s[x + 1]
  OBVIOUS

(* An element at the end of a sequence.                                    *)
LEMMA AppendAt ==
  ASSUME NEW S, NEW s \in Seq(S), NEW e \in S
  PROVE  /\ Append(s, e) \in Seq(S) /\ Len(Append(s, e)) = Len(s) + 1
         /\ \A x \in 1 .. Len(s) : Append(s, e)[x] = s[x]
         /\ Append(s, e)[Len(s) + 1] = e
         /\ \A x \in 1 .. Len(Append(s, e)) : x \in 1 .. Len(s) \/ x = Len(s) + 1
  OBVIOUS

(* What is on the stream.                                                  *)
LEMMA OnStream ==
  ASSUME MountTypes
  PROVE  /\ \A x \in 1 .. Len(toHost) : toHost[x] \in Message /\ toHost[x].id \in Nat
         /\ \A x \in 1 .. Len(toGuest) : toGuest[x] \in Answer /\ toGuest[x].id \in Nat
<1>1. \A x \in 1 .. Len(toHost) : toHost[x] \in Message
  BY DEF MountTypes
<1>2. \A x \in 1 .. Len(toGuest) : toGuest[x] \in Answer
  BY DEF MountTypes
<1>3. \A m \in Message : m.id \in Nat
  BY DEF Message
<1>4. \A m \in Answer : m.id \in Nat
  BY DEF Answer
<1> QED
  BY <1>1, <1>2, <1>3, <1>4

(* A task at rest.                                                         *)
LEMMA NoTaskIs ==
  /\ NoTask \in TaskRecord
  /\ NoTask.op = "none" /\ NoTask.at = "idle" /\ NoTask.path = NoName /\ NoTask.to = NoName
  /\ ShapeOK(NoTask) /\ ~NeedsInode(NoTask) /\ ~Puts(NoTask)
  /\ \A f \in Nat : ~Holds(NoTask, f)
<1>1. /\ NoTask \in TaskRecord
      /\ NoTask.op = "none" /\ NoTask.at = "idle" /\ NoTask.path = NoName /\ NoTask.to = NoName
  BY DEF NoTask, TaskRecord, Operations, Points, Paths, MaybeInos, Whats
<1>2. ShapeOK(NoTask)
  BY <1>1 DEF ShapeOK, Named
<1>3. ~NeedsInode(NoTask) /\ ~Puts(NoTask)
  BY <1>1 DEF NeedsInode, Puts
<1>4. \A f \in Nat : ~Holds(NoTask, f)
  BY <1>1 DEF Holds
<1> QED
  BY <1>1, <1>2, <1>3, <1>4

(* Fewer operations need an inode: there is still room.                    *)
LEMMA FewerNeed ==
  ASSUME MountInv, Allocating' \subseteq Allocating
  PROVE  /\ Cardinality(Allocating) \in Nat /\ Cardinality(Allocating') \in Nat
         /\ Cardinality(Allocating') <= Cardinality(Allocating)
<1>1. IsFiniteSet(Allocating)
  BY MountAssumption, FS_Subset DEF Allocating
<1> QED
  BY <1>1, FS_Subset, FS_CardinalityType

(* One operation no longer needs one.                                      *)
LEMMA OneLessNeeds ==
  ASSUME MountInv, NEW k \in Allocating, Allocating' \subseteq Allocating \ {k}
  PROVE  /\ Cardinality(Allocating) \in Nat /\ Cardinality(Allocating') \in Nat
         /\ Cardinality(Allocating') + 1 <= Cardinality(Allocating)
<1>1. IsFiniteSet(Allocating)
  BY MountAssumption, FS_Subset DEF Allocating
<1>2. /\ IsFiniteSet(Allocating \ {k})
      /\ Cardinality(Allocating \ {k}) = Cardinality(Allocating) - 1
  BY <1>1, FS_RemoveElement
<1>3. IsFiniteSet(Allocating') /\ Cardinality(Allocating') <= Cardinality(Allocating \ {k})
  BY <1>2, FS_Subset
<1> QED
  BY <1>1, <1>2, <1>3, FS_CardinalityType

OnOf(q) == {q.path, q.to} \ {NoName}

(* A task goes on without sending: it keeps its names or gives them up, and *)
(* needs nothing it did not need before.                                   *)
GoesOn(k, q) ==
  /\ task' = [task EXCEPT ![k] = q]
  /\ q.at # "sent"
  /\ \/ q.path = task[k].path /\ q.to = task[k].to /\ (q.alone => task[k].alone)
     \/ q.path = NoName /\ q.to = NoName
  /\ NeedsInode(q) => NeedsInode(task[k])

(* A step of one task leaves the others as they are.                       *)
LEMMA OthersStay ==
  ASSUME MountTypes, NEW k \in Tasks, NEW q \in TaskRecord, task' = [task EXCEPT ![k] = q]
  PROVE  task' \in [Tasks -> TaskRecord] /\ task'[k] = q /\ \A j \in Tasks : j # k => task'[j] = task[j]
  BY DEF MountTypes

(* What a task that goes on holds fits, and it shares no more names.       *)
LEMMA GoesOnShapes ==
  ASSUME MountInv, NEW k \in Tasks, NEW q \in TaskRecord, GoesOn(k, q), ShapeOK(q)
  PROVE  ShapesOK' /\ AloneOnNames' /\ Allocating' \subseteq Allocating
<1>1. task'[k] = q /\ \A j \in Tasks : j # k => task'[j] = task[j]
  BY OthersStay DEF MountInv, GoesOn
<1>2. ShapesOK'
  BY <1>1 DEF ShapesOK, MountInv
<1>3. \A j \in Tasks : On(j)' \subseteq On(j)
  BY <1>1 DEF GoesOn, On
<1>4. \A j, i \in Tasks : j # i /\ task'[j].alone => On(j)' \cap On(i)' = {}
  <2> SUFFICES ASSUME NEW j \in Tasks, NEW i \in Tasks, j # i, task'[j].alone
               PROVE  On(j)' \cap On(i)' = {}
    OBVIOUS
  <2>1. CASE task[j].alone
    BY <1>3, <2>1 DEF MountInv, AloneOnNames
  <2>2. CASE ~task[j].alone
    <3>1. j = k
      BY <1>1, <2>2
    <3>2. q.path = NoName /\ q.to = NoName
      BY <1>1, <2>2, <3>1 DEF GoesOn
    <3> QED
      BY <1>1, <3>1, <3>2 DEF On
  <2> QED
    BY <2>1, <2>2
<1>5. AloneOnNames'
  BY <1>4 DEF AloneOnNames
<1>6. Allocating' \subseteq Allocating
  BY <1>1 DEF Allocating, GoesOn
<1> QED
  BY <1>2, <1>5, <1>6

(* The ids of the tasks that wait are not disturbed by it.                 *)
LEMMA GoesOnIds ==
  ASSUME MountInv, NEW k \in Tasks, NEW q \in TaskRecord, GoesOn(k, q),
         nextId' \in {nextId, nextId + 1}, UNCHANGED <<toHost, toGuest>>
  PROVE  IdsOK'
<1>1. task'[k] = q /\ \A j \in Tasks : j # k => task'[j] = task[j]
  BY OthersStay DEF MountInv, GoesOn
<1>2. \A j \in Tasks : task'[j].at = "sent" => task'[j] = task[j]
  BY <1>1 DEF GoesOn
<1>3. nextId \in Nat /\ \A j \in Tasks : task[j].id \in Nat
  BY DEF MountInv, MountTypes, TaskRecord
<1>4. \A x \in 1 .. Len(toHost) : toHost[x].id \in Nat
  BY OnStream DEF MountInv
<1>5. \A x \in 1 .. Len(toGuest) : toGuest[x].id \in Nat
  BY OnStream DEF MountInv
<1> QED
  BY SMTT(30), <1>2, <1>3, <1>4, <1>5 DEF IdsOK, MountInv

(* A task that goes on with the handle it had keeps the handles in order.  *)
LEMMA GoesOnFds ==
  ASSUME MountInv, NEW k \in Tasks, NEW q \in TaskRecord, GoesOn(k, q),
         \A f \in Nat : Holds(q, f) => Holds(task[k], f),
         UNCHANGED <<toHost, toGuest, local, hostFds, nextHostFd>>
  PROVE  FdsOK'
<1>1. task'[k] = q /\ \A j \in Tasks : j # k => task'[j] = task[j]
  BY OthersStay DEF MountInv, GoesOn
<1>2. \A j \in Tasks, f \in Nat : Holds(task'[j], f) => Holds(task[j], f)
  BY <1>1
<1> QED
  BY <1>2 DEF FdsOK, MountInv

(* With the inode map as it was: what a task that goes on does to the cache *)
(* is on its own names.                                                    *)
CachesOwn(k) ==
  /\ cache' \in [Names -> MaybeInos]
  /\ \A n \in Names : cache'[n] # 0 =>
       \/ cache'[n] = cache[n]
       \/ n \in On(k) /\ (n \notin crossed => pathOf[cache'[n]] = n)

(* The inode map, the names and the cache after such a step.               *)
LEMMA GoesOnNames ==
  ASSUME MountInv, NEW k \in Tasks, NEW q \in TaskRecord, GoesOn(k, q), ShapeOK(q), CachesOwn(k),
         Puts(q) /\ q.path \notin crossed => pathOf[q.ino] = q.path,
         q.alone /\ q.at = "remap" => \A n \in OnOf(q) : cache'[n] = 0,
         UNCHANGED <<inoOf, pathOf, nextIno, crossed>>
  PROVE  ShapesOK' /\ Room' /\ InodesAgree' /\ AloneOnNames' /\ CacheOK'
<1>1. task'[k] = q /\ \A j \in Tasks : j # k => task'[j] = task[j]
  BY OthersStay DEF MountInv, GoesOn
<1>2. ShapesOK' /\ AloneOnNames' /\ Allocating' \subseteq Allocating
  BY GoesOnShapes
<1>3. Room'
  <2>1. nextIno \in Nat /\ MaxIno \in Nat
    BY MountAssumption DEF MountInv, MountTypes
  <2> QED
    BY <1>2, <2>1, FewerNeed DEF MountInv, Room
<1>4. InodesAgree'
  BY DEF MountInv, InodesAgree
<1>5. \A n \in Names \ crossed : cache'[n] # 0 => pathOf[cache'[n]] = n
  BY DEF MountInv, CacheOK, CachesOwn
<1>6. \A j \in Tasks : Puts(task'[j]) /\ task'[j].path \notin crossed
                         => pathOf[task'[j].ino] = task'[j].path
  BY <1>1 DEF MountInv, CacheOK
<1>7. \A j \in Tasks : task'[j].alone /\ task'[j].at = "remap" => \A n \in On(j)' : cache'[n] = 0
  <2> SUFFICES ASSUME NEW j \in Tasks, task'[j].alone, task'[j].at = "remap", NEW n \in On(j)'
               PROVE  cache'[n] = 0
    OBVIOUS
  <2>1. CASE j = k
    BY <1>1, <2>1 DEF On, OnOf
  <2>2. CASE j # k
    <3>1. task[j].alone /\ task[j].at = "remap" /\ n \in On(j)
      BY <1>1, <2>2 DEF On
    <3>2. cache[n] = 0 /\ n \notin On(k)
      BY <2>2, <3>1 DEF MountInv, CacheOK, AloneOnNames
    <3>3. n \in Names
      BY <3>1 DEF MountInv, MountTypes, On, TaskRecord, Paths
    <3> QED
      BY <3>2, <3>3 DEF CachesOwn
  <2> QED
    BY <2>1, <2>2
<1> QED
  BY <1>2, <1>3, <1>4, <1>5, <1>6, <1>7 DEF CacheOK

-----------------------------------------------------------------------------
(* Requests                                                                *)

(* A request is sent for a task: the record it had, with the request's id. *)
Sends(k, rec, what) ==
  /\ rec \in TaskRecord /\ what \in Whats /\ Asks(rec.op, what)
  /\ ShapeOK([rec EXCEPT !.at = "sent"])
  /\ rec.alone => task[k].alone \/ On(k) = {}
  /\ Puts(rec) /\ rec.path \notin crossed => pathOf[rec.ino] = rec.path
  /\ linked /\ Send(k, rec, what)
  /\ UNCHANGED <<inodeVars, cache, hostVars, crossed>>

(* What it does to the tasks: the sender waits, and those it meets on a    *)
(* name are not alone any more.                                            *)
LEMMA SendTasks ==
  ASSUME MountInv, NEW k \in Tasks, NEW rec, NEW what, Sends(k, rec, what)
  PROVE  /\ task' \in [Tasks -> TaskRecord]
         /\ task'[k].at = "sent" /\ task'[k].id = nextId /\ task'[k].op = rec.op
         /\ task'[k].path = rec.path /\ task'[k].to = rec.to /\ task'[k].ino = rec.ino
         /\ ShapeOK(task'[k]) /\ (task'[k].alone => rec.alone)
         /\ \A j \in Tasks : j # k =>
              /\ task'[j].op = task[j].op /\ task'[j].at = task[j].at /\ task'[j].path = task[j].path
              /\ task'[j].to = task[j].to /\ task'[j].ino = task[j].ino /\ task'[j].id = task[j].id
              /\ task'[j].got = task[j].got /\ task'[j].fd = task[j].fd
              /\ task'[j].alone => task[j].alone
              /\ task'[j].alone \/ task'[k].alone => On(j) \cap OnOf(rec) = {}
<1> DEFINE on == OnOf(rec)
           meet == {j \in Tasks \ {k} : On(j) \cap on # {}}
           mine == [rec EXCEPT !.at = "sent", !.id = nextId, !.alone = @ /\ meet = {}]
           marked == [j \in Tasks |-> IF j \in meet THEN [task[j] EXCEPT !.alone = FALSE] ELSE task[j]]
<1>1. task' = [marked EXCEPT ![k] = mine]
  BY DEF Sends, Send, OnOf
<1>2. task \in [Tasks -> TaskRecord] /\ nextId \in Nat
  BY DEF MountInv, MountTypes
<1>3. \A j \in Tasks : [task[j] EXCEPT !.alone = FALSE] \in TaskRecord
  BY <1>2 DEF TaskRecord
<1>4. marked \in [Tasks -> TaskRecord]
  BY <1>2, <1>3
<1>5. mine \in TaskRecord
  <2>1. rec \in TaskRecord /\ "sent" \in Points /\ (rec.alone /\ meet = {}) \in BOOLEAN
    BY DEF Sends, TaskRecord, Points
  <2> HIDE DEF meet
  <2> QED
    BY <1>2, <2>1 DEF TaskRecord
<1>6. /\ mine.at = "sent" /\ mine.id = nextId /\ mine.op = rec.op /\ mine.path = rec.path
      /\ mine.to = rec.to /\ mine.ino = rec.ino /\ mine.alone = (rec.alone /\ meet = {})
      /\ mine.got = rec.got
  <2>1. rec \in TaskRecord
    BY DEF Sends
  <2> HIDE DEF meet
  <2> QED
    BY <2>1 DEF TaskRecord
<1>7. ShapeOK(mine)
  <2> DEFINE q == [rec EXCEPT !.at = "sent"]
  <2>1. rec \in TaskRecord /\ ShapeOK(q)
    BY DEF Sends
  <2>2. q.at = "sent" /\ q.op = rec.op /\ q.path = rec.path /\ q.to = rec.to /\ q.ino = rec.ino
    BY <2>1 DEF TaskRecord
  <2> HIDE DEF mine, q
  <2> QED
    BY <1>6, <2>1, <2>2 DEF ShapeOK
<1>8. /\ task' \in [Tasks -> TaskRecord] /\ task'[k] = mine
      /\ \A j \in Tasks : j # k => task'[j] = marked[j]
  <2> HIDE DEF marked, mine
  <2> QED
    BY <1>1, <1>4, <1>5
<1>9. \A j \in Tasks : j # k =>
        /\ task'[j].op = task[j].op /\ task'[j].at = task[j].at /\ task'[j].path = task[j].path
        /\ task'[j].to = task[j].to /\ task'[j].ino = task[j].ino /\ task'[j].id = task[j].id
        /\ task'[j].got = task[j].got /\ task'[j].fd = task[j].fd
        /\ task'[j].alone => task[j].alone
        /\ task'[j].alone \/ task'[k].alone => j \notin meet
  <2> SUFFICES ASSUME NEW j \in Tasks, j # k
               PROVE  /\ task'[j].op = task[j].op /\ task'[j].at = task[j].at
                      /\ task'[j].path = task[j].path
                      /\ task'[j].to = task[j].to /\ task'[j].ino = task[j].ino
                      /\ task'[j].id = task[j].id
                      /\ task'[j].got = task[j].got /\ task'[j].fd = task[j].fd
                      /\ task'[j].alone => task[j].alone
                      /\ task'[j].alone \/ task'[k].alone => j \notin meet
    OBVIOUS
  <2>1. task[j] \in TaskRecord
    BY <1>2
  <2>2. task'[j] = IF j \in meet THEN [task[j] EXCEPT !.alone = FALSE] ELSE task[j]
    BY <1>8
  <2>3. task'[k].alone => j \notin meet
    BY <1>6, <1>8
  <2> HIDE DEF meet
  <2> QED
    BY <2>1, <2>2, <2>3 DEF TaskRecord
<1>10. \A j \in Tasks : j # k /\ j \notin meet => On(j) \cap OnOf(rec) = {}
  OBVIOUS
<1> HIDE DEF meet, marked, mine
<1> QED
  BY <1>6, <1>7, <1>8, <1>9, <1>10

(* The request is behind the others on the stream.                         *)
LEMMA SendWire ==
  ASSUME MountInv, NEW k \in Tasks, NEW rec, NEW what, Sends(k, rec, what)
  PROVE  /\ nextId' = nextId + 1 /\ toGuest' = toGuest
         /\ toHost' \in Seq(Message) /\ Len(toHost') = Len(toHost) + 1
         /\ \A x \in 1 .. Len(toHost) : toHost'[x] = toHost[x]
         /\ toHost'[Len(toHost) + 1].id = nextId /\ toHost'[Len(toHost) + 1].what = what
         /\ toHost'[Len(toHost) + 1].fd = rec.fd
         /\ \A x \in 1 .. Len(toHost') : x \in 1 .. Len(toHost) \/ x = Len(toHost) + 1
<1> DEFINE e == Request(rec, what)
<1>1. toHost \in Seq(Message) /\ nextId \in Nat
  BY DEF MountInv, MountTypes
<1>2. rec \in TaskRecord /\ what \in Whats
  BY DEF Sends
<1>3. e \in Message /\ e.id = nextId /\ e.what = what /\ e.fd = rec.fd
  BY <1>1, <1>2 DEF Request, Message, TaskRecord
<1>4. nextId' = nextId + 1 /\ toGuest' = toGuest /\ toHost' = Append(toHost, e)
  BY DEF Sends, Send
<1> HIDE DEF e
<1> QED
  BY <1>1, <1>3, <1>4, AppendAt

(* The id of a request is new, and it asks what its task asks.             *)
LEMMA SendIds ==
  ASSUME MountInv, NEW k \in Tasks, NEW rec, NEW what, Sends(k, rec, what)
  PROVE  IdsOK'
<1>1. /\ task'[k].at = "sent" /\ task'[k].id = nextId /\ task'[k].op = rec.op
      /\ \A j \in Tasks : j # k => /\ task'[j].op = task[j].op /\ task'[j].at = task[j].at
                                   /\ task'[j].id = task[j].id
  BY SendTasks
<1>2. IdsOK /\ nextId \in Nat /\ toHost \in Seq(Message) /\ toGuest \in Seq(Answer)
  BY DEF MountInv, MountTypes
<1>3. Asks(rec.op, what)
  BY DEF Sends
<1>4. \A x \in 1 .. Len(toHost) : toHost[x].id \in Nat
  BY OnStream DEF MountInv
<1>5. \A x \in 1 .. Len(toGuest) : toGuest[x].id \in Nat
  BY OnStream DEF MountInv
<1>6. \A j \in Tasks : task[j].id \in Nat
  BY DEF MountInv, MountTypes, TaskRecord
<1>7. \A j \in Tasks : task'[j].at = "sent" => task'[j].id < nextId'
  BY <1>1, <1>2, <1>6, SendWire DEF IdsOK
<1>8. \A i, j \in Tasks :
        task'[i].at = "sent" /\ task'[j].at = "sent" /\ task'[i].id = task'[j].id => i = j
  BY <1>1, <1>2, <1>6 DEF IdsOK
<1>9. ASSUME NEW x \in 1 .. Len(toHost')
      PROVE  /\ toHost'[x].id < nextId'
             /\ \A j \in Tasks : task'[j].at = "sent" /\ task'[j].id = toHost'[x].id
                                   => Asks(task'[j].op, toHost'[x].what)
  <2>1. CASE x \in 1 .. Len(toHost)
    <3>1. toHost'[x] = toHost[x] /\ toHost[x].id < nextId /\ nextId' = nextId + 1
      BY <1>2, <2>1, SendWire DEF IdsOK
    <3>2. toHost'[x].id < nextId'
      BY <1>2, <1>4, <2>1, <3>1
    <3>3. ASSUME NEW j \in Tasks, task'[j].at = "sent", task'[j].id = toHost'[x].id
          PROVE  Asks(task'[j].op, toHost'[x].what)
      <4>1. j # k
        BY <1>1, <1>2, <1>4, <2>1, <3>1, <3>3
      <4> QED
        BY <1>1, <1>2, <2>1, <3>1, <3>3, <4>1 DEF IdsOK
    <3> QED
      BY <3>2, <3>3
  <2>2. CASE x = Len(toHost) + 1
    <3>1. toHost'[x].id = nextId /\ toHost'[x].what = what /\ nextId' = nextId + 1
      BY <2>2, SendWire
    <3>2. \A j \in Tasks : task'[j].at = "sent" /\ task'[j].id = nextId => j = k
      BY <1>1, <1>2, <1>6 DEF IdsOK
    <3> QED
      BY <1>1, <1>2, <1>3, <3>1, <3>2
  <2> QED
    BY <1>9, <2>1, <2>2, SendWire
<1>10. ASSUME NEW x \in 1 .. Len(toGuest')
       PROVE  /\ toGuest'[x].id < nextId'
              /\ \A j \in Tasks : task'[j].at = "sent" /\ task'[j].id = toGuest'[x].id
                                    => Asks(task'[j].op, toGuest'[x].what)
  <2>1. toGuest' = toGuest /\ nextId' = nextId + 1 /\ toGuest[x].id < nextId
    BY <1>2, <1>10, SendWire DEF IdsOK
  <2> QED
    BY <1>1, <1>2, <1>5, <1>10, <2>1 DEF IdsOK
<1> QED
  BY <1>7, <1>8, <1>9, <1>10 DEF IdsOK

(* A close takes its fd out of the table first.                            *)
Forgets(what, rec) ==
  \/ what # "close" /\ local' = local
  \/ rec.fd \in local /\ local' = local \ {rec.fd}

(* A close on its way is of a handle that nobody has any more.             *)
LEMMA SendFds ==
  ASSUME MountInv, NEW k \in Tasks, NEW rec, NEW what, Sends(k, rec, what),
         Forgets(what, rec)
  PROVE  FdsOK'
<1>1. \A j \in Tasks, f \in Nat : Holds(task'[j], f) => Holds(task[j], f)
  BY SendTasks DEF Holds
<1>2. FdsOK /\ nextHostFd \in Nat /\ rec.fd \in Nat
  BY DEF MountInv, MountTypes, Sends, TaskRecord
<1>3. toGuest' = toGuest /\ hostFds' = hostFds /\ nextHostFd' = nextHostFd /\ local' \subseteq local
  BY SendWire DEF Sends, hostVars, Forgets
<1>4. ASSUME NEW x \in 1 .. Len(toHost'), NEW f \in Nat, Closes(toHost'[x], f)
      PROVE  /\ f < nextHostFd /\ f \notin local'
             /\ \A j \in Tasks : ~Holds(task'[j], f)
             /\ \A y \in 1 .. Len(toGuest) : ~Carries(toGuest[y], f)
  <2>1. CASE x \in 1 .. Len(toHost)
    <3>1. Closes(toHost[x], f)
      BY <1>4, <2>1, SendWire
    <3> QED
      BY <1>1, <1>2, <1>3, <2>1, <3>1 DEF FdsOK
  <2>2. CASE x = Len(toHost) + 1
    <3>1. what = "close" /\ rec.fd = f
      BY <1>4, <2>2, SendWire DEF Closes
    <3>2. f \in local /\ f \notin local'
      BY <3>1 DEF Forgets
    <3> QED
      BY <1>1, <1>2, <3>2 DEF FdsOK
  <2> QED
    BY <1>4, <2>1, <2>2, SendWire
<1> QED
  BY <1>1, <1>2, <1>3, <1>4 DEF FdsOK

(* The names that two operations share, and the cache.                     *)
LEMMA SendNames ==
  ASSUME MountInv, NEW k \in Tasks, NEW rec, NEW what, Sends(k, rec, what)
  PROVE  ShapesOK' /\ AloneOnNames' /\ CacheOK'
<1>1. ShapesOK'
  <2> SUFFICES ASSUME NEW j \in Tasks
               PROVE  ShapeOK(task'[j])
    BY DEF ShapesOK
  <2>1. CASE j = k
    BY <2>1, SendTasks
  <2>2. CASE j # k
    BY <2>2, SendTasks DEF ShapeOK, MountInv, ShapesOK
  <2> QED
    BY <2>1, <2>2
<1>2. \A j \in Tasks : j # k => On(j)' = On(j)
  BY SendTasks DEF On
<1>3. On(k)' = OnOf(rec)
  BY SendTasks DEF On, OnOf
<1>4. \A j, i \in Tasks : j # i /\ task'[j].alone => On(j)' \cap On(i)' = {}
  <2> SUFFICES ASSUME NEW j \in Tasks, NEW i \in Tasks, j # i, task'[j].alone
               PROVE  On(j)' \cap On(i)' = {}
    OBVIOUS
  <2>1. CASE j = k
    BY <1>2, <1>3, <2>1, SendTasks
  <2>2. CASE i = k
    BY <1>2, <1>3, <2>2, SendTasks
  <2>3. CASE j # k /\ i # k
    BY <1>2, <2>3, SendTasks DEF MountInv, AloneOnNames
  <2> QED
    BY <2>1, <2>2, <2>3
<1>5. AloneOnNames'
  BY <1>4 DEF AloneOnNames
<1>6. UNCHANGED <<cache, crossed, pathOf>>
  BY DEF Sends, inodeVars
<1>7. \A j \in Tasks : Puts(task'[j]) /\ task'[j].path \notin crossed
                         => pathOf[task'[j].ino] = task'[j].path
  <2> SUFFICES ASSUME NEW j \in Tasks, Puts(task'[j]), task'[j].path \notin crossed
               PROVE  pathOf[task'[j].ino] = task'[j].path
    OBVIOUS
  <2>1. CASE j = k
    <3>1. Puts(rec)
      BY <2>1, SendTasks DEF Puts
    <3> QED
      BY <2>1, <3>1, SendTasks DEF Sends
  <2>2. CASE j # k
    <3>1. Puts(task[j])
      BY <2>2, SendTasks DEF Puts
    <3> QED
      BY <2>2, <3>1, SendTasks DEF MountInv, CacheOK
  <2> QED
    BY <2>1, <2>2
<1>8. \A j \in Tasks : task'[j].alone /\ task'[j].at = "remap" => \A n \in On(j)' : cache[n] = 0
  <2> SUFFICES ASSUME NEW j \in Tasks, task'[j].alone, task'[j].at = "remap"
               PROVE  \A n \in On(j)' : cache[n] = 0
    OBVIOUS
  <2>1. j # k /\ task[j].alone /\ task[j].at = "remap"
    BY SendTasks
  <2> QED
    BY <1>2, <2>1 DEF MountInv, CacheOK
<1>9. CacheOK'
  BY <1>6, <1>7, <1>8 DEF CacheOK, MountInv
<1> QED
  BY <1>1, <1>5, <1>9

(* An operation that may need an inode began with room for one.            *)
HasRoom(k, rec) ==
  rec.op \in {"lookup", "create", "mkdir", "readdir"} =>
    \/ NeedsInode(task[k])
    \/ /\ task[k].at = "idle"
       /\ nextIno + Cardinality({j \in Tasks : task[j].at # "idle"}) <= MaxIno

(* There is room for the inodes the operations may still need.             *)
LEMMA SendRoom ==
  ASSUME MountInv, NEW k \in Tasks, NEW rec, NEW what, Sends(k, rec, what), HasRoom(k, rec)
  PROVE  Room'
<1>1. UNCHANGED <<inoOf, pathOf, nextIno>>
  BY DEF Sends, inodeVars
<1>2. \A j \in Tasks : j # k => (NeedsInode(task'[j]) <=> NeedsInode(task[j]))
  BY SendTasks DEF NeedsInode
<1>3. NeedsInode(task'[k]) <=> rec.op \in {"lookup", "create", "mkdir", "readdir"}
  BY SendTasks DEF NeedsInode
<1>4. nextIno \in Nat /\ MaxIno \in Nat
  BY MountAssumption DEF MountInv, MountTypes
<1>5. nextIno' + Cardinality(Allocating') <= MaxIno + 1
  <2>1. CASE NeedsInode(task'[k]) => NeedsInode(task[k])
    <3>1. Allocating' \subseteq Allocating
      BY <1>2, <2>1 DEF Allocating
    <3> QED
      BY <1>1, <1>4, <3>1, FewerNeed DEF MountInv, Room
  <2>2. CASE NeedsInode(task'[k]) /\ ~NeedsInode(task[k])
    <3> DEFINE busy == {j \in Tasks : task[j].at # "idle"}
    <3>1. task[k].at = "idle" /\ nextIno + Cardinality(busy) <= MaxIno
      BY <1>3, <2>2 DEF HasRoom
    <3>2. busy \subseteq Tasks /\ k \notin busy /\ Allocating \subseteq busy
      BY <3>1 DEF Allocating, NeedsInode
    <3>3. Allocating' \subseteq busy \cup {k}
      BY <1>2, <3>2 DEF Allocating
    <3> HIDE DEF busy
    <3>4. IsFiniteSet(busy)
      BY <3>2, MountAssumption, FS_Subset
    <3>5. IsFiniteSet(busy \cup {k}) /\ Cardinality(busy \cup {k}) = Cardinality(busy) + 1
      BY <3>2, <3>4, FS_AddElement
    <3>6. IsFiniteSet(Allocating') /\ Cardinality(Allocating') <= Cardinality(busy) + 1
      BY <3>3, <3>5, FS_Subset
    <3>7. Cardinality(busy) \in Nat /\ Cardinality(Allocating') \in Nat
      BY <3>4, <3>6, FS_CardinalityType
    <3> QED
      BY <1>1, <1>4, <3>1, <3>6, <3>7
  <2> QED
    BY <2>1, <2>2
<1> QED
  BY <1>1, <1>5 DEF Room, MountInv

(* Together: a request keeps the invariant.                                *)
LEMMA SendKeeps ==
  ASSUME MountInv, NEW k \in Tasks, NEW rec, NEW what, Sends(k, rec, what), HasRoom(k, rec),
         Forgets(what, rec)
  PROVE  MountInv'
<1>1. MountTypes'
  <2>1. MountTypes
    BY DEF MountInv
  <2>2. /\ task' \in [Tasks -> TaskRecord] /\ toHost' \in Seq(Message) /\ toGuest' = toGuest
        /\ nextId' = nextId + 1
    BY SendTasks, SendWire
  <2>3. UNCHANGED <<inoOf, pathOf, nextIno, cache, hostFds, nextHostFd>>
    BY DEF Sends, inodeVars, hostVars
  <2>4. local' \subseteq Nat
    BY <2>1 DEF MountTypes, Forgets
  <2> QED
    BY <2>1, <2>2, <2>3, <2>4 DEF MountTypes
<1>2. InodesAgree'
  BY DEF MountInv, InodesAgree, Sends, inodeVars
<1> QED
  BY <1>1, <1>2, SendNames, SendIds, SendFds, SendRoom DEF MountInv

(* The operations that the kernel begins, and what they begin with.        *)
StartsWith(op, rec) ==
  /\ rec \in TaskRecord /\ rec.at = "idle"
  /\ op \in Named => rec.path \in Names
  /\ op \notin Named => rec.path = NoName
  /\ op # "rename" => rec.to = NoName
  /\ op = "rename" => rec.to \in Names /\ rec.to # rec.path
  /\ op \in {"getattr", "setattr", "write"} => rec.ino \in Inos
  /\ op \in {"getattr", "setattr"} => pathOf[rec.ino] = rec.path

(* An operation that begins with what the kernel may know.                 *)
LEMMA BeginKeeps ==
  ASSUME MountInv, NEW k \in Tasks, NEW op \in Operations, NEW rec, NEW what \in Whats,
         Begin(k, op, rec, what), Asks(op, what), StartsWith(op, rec),
         Forgets(what, rec)
  PROVE  MountInv'
<1> DEFINE q == [rec EXCEPT !.op = op]
           sent == [q EXCEPT !.at = "sent"]
<1>0. rec \in TaskRecord /\ "sent" \in Points
  BY DEF StartsWith, Points
<1>1. /\ q \in TaskRecord /\ q.op = op /\ q.at = rec.at /\ q.path = rec.path /\ q.ino = rec.ino
      /\ q.fd = rec.fd /\ q.to = rec.to
  BY <1>0 DEF TaskRecord
<1>2. /\ sent.op = op /\ sent.at = "sent" /\ sent.path = rec.path /\ sent.ino = rec.ino
      /\ sent.to = rec.to
  BY <1>0 DEF TaskRecord
<1>3. Send(k, q, what)
  BY DEF Begin
<1>4. task[k].at = "idle" /\ linked /\ UNCHANGED <<inodeVars, cache, hostVars, crossed>>
  BY DEF Begin
<1>5. op \in {"lookup", "create", "mkdir", "readdir"} =>
        nextIno + Cardinality({j \in Tasks : task[j].at # "idle"}) <= MaxIno
  BY DEF Begin
<1> HIDE DEF q, sent
<1>6. On(k) = {}
  <2>1. ShapeOK(task[k]) /\ task[k].path \in Paths
    BY DEF MountInv, ShapesOK, MountTypes, TaskRecord
  <2>2. task[k].path = NoName
    BY <1>4, <2>1 DEF ShapeOK
  <2>3. task[k].op # "rename"
    BY <2>1, <2>2, MountAssumption DEF ShapeOK, Named
  <2> QED
    BY <2>1, <2>2, <2>3 DEF On, ShapeOK
<1>7. Puts(q) => pathOf[q.ino] = q.path
  BY <1>1 DEF Puts, StartsWith
<1>8. ShapeOK(sent)
  BY <1>2 DEF ShapeOK, StartsWith
<1>9. Sends(k, q, what)
  BY <1>1, <1>3, <1>4, <1>6, <1>7, <1>8 DEF Sends, sent
<1>10. HasRoom(k, q)
  BY <1>1, <1>4, <1>5 DEF HasRoom
<1>11. Forgets(what, q)
  BY <1>1 DEF Forgets
<1> QED
  BY <1>9, <1>10, <1>11, SendKeeps

(* Each operation of the kernel begins so.                                 *)
LEMMA KernelKeeps ==
  ASSUME MountInv, NEW k \in Tasks,
         \/ \E n \in Names : Lookup(k, n) \/ Create(k, n) \/ Mkdir(k, n) \/ Unlink(k, n)
         \/ \E n, m \in Names : Rename(k, n, m)
         \/ \E i \in Inos : Getattr(k, i) \/ OpenFile(k, i) \/ Setattr(k, i)
         \/ \E fd \in local : Release(k, fd) \/ Readdir(k, fd) \/ (\E i \in Inos : WriteFile(k, fd, i))
  PROVE  MountInv'
<1>1. /\ {"stat", "create", "mkdir", "remove", "rename", "truncate", "open", "close", "readdir", "write"}
           \subseteq Whats
      /\ {"lookup", "create", "mkdir", "unlink", "rename", "getattr", "setattr", "open", "release",
          "readdir", "write"} \subseteq Operations
  BY DEF Whats, Operations
<1>2. /\ Asks("lookup", "stat") /\ Asks("create", "create") /\ Asks("mkdir", "mkdir")
      /\ Asks("unlink", "remove") /\ Asks("rename", "rename") /\ Asks("getattr", "stat")
      /\ Asks("setattr", "truncate") /\ Asks("open", "open") /\ Asks("release", "close")
      /\ Asks("readdir", "readdir") /\ Asks("write", "write")
  BY DEF Asks
<1>3. ASSUME NEW n \in Names, Lookup(k, n) \/ Create(k, n) \/ Mkdir(k, n) \/ Unlink(k, n)
      PROVE  MountInv'
  <2> DEFINE rec == [NoTask EXCEPT !.path = n]
  <2>1. rec \in TaskRecord /\ rec.at = "idle" /\ rec.path = n /\ rec.to = NoName
    BY NoTaskIs DEF TaskRecord, Paths
  <2>2. /\ StartsWith("lookup", rec) /\ StartsWith("create", rec) /\ StartsWith("mkdir", rec)
        /\ StartsWith("unlink", rec)
    <3> HIDE DEF rec
    <3> QED
      BY <2>1 DEF StartsWith, Named
  <2>3. /\ \/ Begin(k, "lookup", rec, "stat") \/ Begin(k, "create", rec, "create")
           \/ Begin(k, "mkdir", rec, "mkdir") \/ Begin(k, "unlink", rec, "remove")
        /\ local' = local
    BY <1>3 DEF Lookup, Create, Mkdir, Unlink
  <2> HIDE DEF rec
  <2>8. \A what \in {"stat", "create", "mkdir", "remove"} : Forgets(what, rec)
    BY <2>3 DEF Forgets
  <2>4. CASE Begin(k, "lookup", rec, "stat")
    BY <1>1, <1>2, <2>2, <2>8, <2>4, BeginKeeps
  <2>5. CASE Begin(k, "create", rec, "create")
    BY <1>1, <1>2, <2>2, <2>8, <2>5, BeginKeeps
  <2>6. CASE Begin(k, "mkdir", rec, "mkdir")
    BY <1>1, <1>2, <2>2, <2>8, <2>6, BeginKeeps
  <2>7. CASE Begin(k, "unlink", rec, "remove")
    BY <1>1, <1>2, <2>2, <2>8, <2>7, BeginKeeps
  <2> QED
    BY <2>3, <2>4, <2>5, <2>6, <2>7
<1>4. ASSUME NEW n \in Names, NEW m \in Names, Rename(k, n, m)
      PROVE  MountInv'
  <2> DEFINE rec == [NoTask EXCEPT !.path = n, !.to = m]
  <2>1. rec \in TaskRecord /\ rec.at = "idle" /\ rec.path = n /\ rec.to = m
    BY NoTaskIs DEF TaskRecord, Paths
  <2>2. Begin(k, "rename", rec, "rename") /\ local' = local /\ n # m
    BY <1>4 DEF Rename
  <2> HIDE DEF rec
  <2>4. Forgets("rename", rec)
    BY <2>2 DEF Forgets
  <2>3. StartsWith("rename", rec)
    BY <2>1, <2>2 DEF StartsWith, Named
  <2> QED
    BY <1>1, <1>2, <2>2, <2>3, <2>4, BeginKeeps
<1>5. ASSUME NEW i \in Inos, Getattr(k, i) \/ OpenFile(k, i) \/ Setattr(k, i)
      PROVE  MountInv'
  <2>1. pathOf[i] \in Names
    BY <1>5 DEF Getattr, OpenFile, Setattr, Known, MountInv, MountTypes, Paths
  <2> DEFINE known == [NoTask EXCEPT !.path = pathOf[i], !.ino = i]
             named == [NoTask EXCEPT !.path = pathOf[i]]
  <2>2. /\ known \in TaskRecord /\ known.at = "idle" /\ known.ino = i /\ known.path = pathOf[i]
        /\ known.to = NoName
    BY <2>1, NoTaskIs DEF TaskRecord, Paths, MaybeInos
  <2>3. /\ named \in TaskRecord /\ named.at = "idle" /\ named.path = pathOf[i] /\ named.to = NoName
    BY <2>1, NoTaskIs DEF TaskRecord, Paths
  <2>4. /\ \/ Begin(k, "getattr", known, "stat") \/ Begin(k, "setattr", known, "truncate")
           \/ Begin(k, "open", named, "open")
        /\ local' = local
    BY <1>5 DEF Getattr, OpenFile, Setattr
  <2> HIDE DEF known, named
  <2>9. Forgets("stat", known) /\ Forgets("truncate", known) /\ Forgets("open", named)
    BY <2>4 DEF Forgets
  <2>5. StartsWith("getattr", known) /\ StartsWith("setattr", known) /\ StartsWith("open", named)
    BY <2>1, <2>2, <2>3 DEF StartsWith, Named
  <2>6. CASE Begin(k, "getattr", known, "stat")
    BY <1>1, <1>2, <2>9, <2>5, <2>6, BeginKeeps
  <2>7. CASE Begin(k, "setattr", known, "truncate")
    BY <1>1, <1>2, <2>9, <2>5, <2>7, BeginKeeps
  <2>8. CASE Begin(k, "open", named, "open")
    BY <1>1, <1>2, <2>9, <2>5, <2>8, BeginKeeps
  <2> QED
    BY <2>4, <2>6, <2>7, <2>8
<1>6. ASSUME NEW fd \in local, Release(k, fd) \/ Readdir(k, fd)
      PROVE  MountInv'
  <2> DEFINE rec == [NoTask EXCEPT !.fd = fd]
  <2>1. fd \in Nat
    BY DEF MountInv, MountTypes
  <2>2. /\ rec \in TaskRecord /\ rec.at = "idle" /\ rec.fd = fd /\ rec.path = NoName
        /\ rec.to = NoName
    BY <2>1, NoTaskIs DEF TaskRecord
  <2>3. \/ Begin(k, "release", rec, "close") /\ local' = local \ {fd}
        \/ Begin(k, "readdir", rec, "readdir") /\ local' = local
    BY <1>6 DEF Release, Readdir
  <2> HIDE DEF rec
  <2>4. StartsWith("release", rec) /\ StartsWith("readdir", rec)
    BY <2>2 DEF StartsWith, Named
  <2>5. CASE Begin(k, "release", rec, "close") /\ local' = local \ {fd}
    BY <1>1, <1>2, <2>2, <2>4, <2>5, BeginKeeps DEF Forgets
  <2>6. CASE Begin(k, "readdir", rec, "readdir") /\ local' = local
    BY <1>1, <1>2, <2>4, <2>6, BeginKeeps DEF Forgets
  <2> QED
    BY <2>3, <2>5, <2>6
<1>7. ASSUME NEW fd \in local, NEW i \in Inos, WriteFile(k, fd, i)
      PROVE  MountInv'
  <2> DEFINE rec == [NoTask EXCEPT !.fd = fd, !.ino = i]
  <2>1. fd \in Nat
    BY DEF MountInv, MountTypes
  <2>2. rec \in TaskRecord /\ rec.at = "idle" /\ rec.path = NoName /\ rec.to = NoName /\ rec.ino = i
    BY <2>1, NoTaskIs DEF TaskRecord, MaybeInos
  <2>3. Begin(k, "write", rec, "write") /\ local' = local
    BY <1>7 DEF WriteFile
  <2> HIDE DEF rec
  <2>4. StartsWith("write", rec)
    BY <2>2 DEF StartsWith, Named
  <2> QED
    BY <1>1, <1>2, <2>4, <2>3, BeginKeeps DEF Forgets
<1> QED
  BY <1>3, <1>4, <1>5, <1>6, <1>7

-----------------------------------------------------------------------------
(* Answers                                                                 *)

(* An answer that a task of its id waits for: the task takes it, with the  *)
(* fd it brings, or is over; nobody else does anything.                    *)
Takes(k, m) ==
  IF m.ok THEN [task[k] EXCEPT !.at = "got", !.id = 0, !.got = m.what,
                               !.fd = IF m.fd # 0 THEN m.fd ELSE @]
          ELSE NoTask

(* The parts of a task that has taken its answer.                          *)
LEMMA TakenIs ==
  ASSUME MountTypes, NEW k \in Tasks, NEW m \in Answer, m.ok
  PROVE  /\ Takes(k, m) \in TaskRecord
         /\ Takes(k, m).at = "got" /\ Takes(k, m).op = task[k].op /\ Takes(k, m).path = task[k].path
         /\ Takes(k, m).to = task[k].to /\ Takes(k, m).ino = task[k].ino
         /\ Takes(k, m).got = m.what /\ Takes(k, m).alone = task[k].alone
         /\ Takes(k, m).fd = IF m.fd # 0 THEN m.fd ELSE task[k].fd
<1>1. task[k] \in TaskRecord /\ "got" \in Points
  BY DEF MountTypes, Points
<1>2. m.what \in Whats /\ m.fd \in Nat
  BY DEF Answer
<1>3. (IF m.fd # 0 THEN m.fd ELSE task[k].fd) \in Nat
  BY <1>1, <1>2 DEF TaskRecord
<1> QED
  BY <1>1, <1>2, <1>3 DEF Takes, TaskRecord

(* At most one task takes an answer.                                       *)
LEMMA DeliverTasks ==
  ASSUME MountInv, Deliver
  PROVE  \/ task' = task
         \/ \E k \in Tasks : /\ task[k].at = "sent" /\ task[k].id = NextResponse.id
                             /\ task' = [task EXCEPT ![k] = Takes(k, NextResponse)]
<1> DEFINE m == NextResponse
           picks(k) == m.id \in waiting /\ task[k].at = "sent" /\ task[k].id = m.id
<1>1. task' = [k \in Tasks |-> IF picks(k) THEN Takes(k, m) ELSE task[k]]
  BY DEF Deliver, Takes
<1>2. task \in [Tasks -> TaskRecord]
  BY DEF MountInv, MountTypes
<1>3. \A k, j \in Tasks : picks(k) /\ picks(j) => k = j
  BY DEF MountInv, IdsOK
<1>4. CASE \E k \in Tasks : picks(k)
  <2>1. PICK k \in Tasks : picks(k)
    BY <1>4
  <2>2. \A j \in Tasks : j # k => ~picks(j)
    BY <1>3, <2>1
  <2>3. task' = [task EXCEPT ![k] = Takes(k, m)]
    <3> HIDE DEF picks, m
    <3> QED
      BY <1>1, <1>2, <2>1, <2>2
  <2> QED
    BY <2>1, <2>3
<1>5. CASE \A k \in Tasks : ~picks(k)
  <2> HIDE DEF picks, m
  <2> QED
    BY <1>1, <1>2, <1>5
<1> QED
  BY <1>4, <1>5

(* The answer leaves the stream.                                           *)
LEMMA DeliverWire ==
  ASSUME MountInv, Deliver
  PROVE  /\ toGuest' \in Seq(Answer) /\ 1 \in 1 .. Len(toGuest) /\ NextResponse = toGuest[1]
         /\ NextResponse \in Answer
         /\ \A x \in 1 .. Len(toGuest') : x + 1 \in 1 .. Len(toGuest) /\ toGuest'[x] = toGuest[x + 1]
<1>1. toGuest \in Seq(Answer) /\ toGuest # <<>> /\ toGuest' = Tail(toGuest)
  BY DEF MountInv, MountTypes, Deliver
<1> QED
  BY <1>1, TailAt DEF NextResponse

(* An answer nobody waits for changes nothing else.                        *)
LEMMA DropKeeps ==
  ASSUME MountInv, Deliver, task' = task
  PROVE  IdsOK' /\ FdsOK'
<1>1. UNCHANGED <<nextId, toHost, local, hostFds, nextHostFd>>
  BY DEF Deliver, hostVars
<1>2. IdsOK'
  BY <1>1, DeliverWire DEF MountInv, IdsOK
<1>3. FdsOK'
  <2>1. \A x \in 1 .. Len(toGuest'), f \in Nat :
           Carries(toGuest'[x], f) => x + 1 \in 1 .. Len(toGuest) /\ Carries(toGuest[x + 1], f)
    BY DeliverWire
  <2>2. \A x \in 1 .. Len(toGuest'), y \in 1 .. Len(toGuest') : x + 1 = y + 1 => x = y
    OBVIOUS
  <2> QED
    BY <1>1, <2>1, <2>2 DEF MountInv, FdsOK
<1> QED
  BY <1>2, <1>3

(* The task whose answer it is has, if it opens a file, the fd it brought. *)
LEMMA TakeFds ==
  ASSUME MountInv, Deliver, NEW k \in Tasks, task[k].at = "sent", task[k].id = NextResponse.id,
         task' = [task EXCEPT ![k] = Takes(k, NextResponse)]
  PROVE  FdsOK'
<1> DEFINE m == NextResponse
<1>1. UNCHANGED <<nextId, toHost, local, hostFds, nextHostFd>>
  BY DEF Deliver, hostVars
<1>2. m \in Answer /\ 1 \in 1 .. Len(toGuest) /\ m = toGuest[1]
  BY DeliverWire
<1>3. Asks(task[k].op, m.what)
  BY <1>2 DEF MountInv, IdsOK
<1> HIDE DEF m
<1>4. \A j \in Tasks : j # k => task'[j] = task[j]
  BY DEF MountInv, MountTypes
<1>5. task'[k] = Takes(k, m)
  BY DEF MountInv, MountTypes, m
<1>6. \A f \in Nat : Holds(task'[k], f) => Carries(toGuest[1], f)
  <2> SUFFICES ASSUME NEW f \in Nat, Holds(task'[k], f)
               PROVE  Carries(toGuest[1], f)
    OBVIOUS
  <2>1. m.ok
    BY <1>5, NoTaskIs DEF Takes
  <2>2. task[k].op \in Opener /\ f = IF m.fd # 0 THEN m.fd ELSE task[k].fd
    BY <1>2, <1>5, <2>1, TakenIs DEF MountInv, Holds
  <2>3. m.what \in Opener
    BY <1>3, <2>2 DEF Asks, Opener
  <2>4. m.fd \in Nat
    BY <1>2 DEF Answer
  <2>5. Carries(m, m.fd)
    BY <2>1, <2>3 DEF Carries
  <2>6. m.fd # 0
    BY <1>2, <2>4, <2>5 DEF MountInv, FdsOK
  <2> QED
    BY <1>2, <2>2, <2>5, <2>6
<1>7. \A x \in 1 .. Len(toGuest'), f \in Nat :
         Carries(toGuest'[x], f) => /\ x + 1 \in 1 .. Len(toGuest) /\ Carries(toGuest[x + 1], f)
                                    /\ ~Carries(toGuest[1], f)
  <2> SUFFICES ASSUME NEW x \in 1 .. Len(toGuest'), NEW f \in Nat, Carries(toGuest'[x], f)
               PROVE  /\ x + 1 \in 1 .. Len(toGuest) /\ Carries(toGuest[x + 1], f)
                      /\ ~Carries(toGuest[1], f)
    OBVIOUS
  <2>1. x + 1 \in 1 .. Len(toGuest) /\ Carries(toGuest[x + 1], f) /\ x + 1 # 1
    BY DeliverWire
  <2> QED
    BY <1>2, <2>1 DEF MountInv, FdsOK
<1>8. \A j \in Tasks, f \in Nat : Holds(task'[j], f) => (j # k /\ Holds(task[j], f)) \/ (j = k /\ Carries(toGuest[1], f))
  <2> SUFFICES ASSUME NEW j \in Tasks, NEW f \in Nat, Holds(task'[j], f)
               PROVE  (j # k /\ Holds(task[j], f)) \/ (j = k /\ Carries(toGuest[1], f))
    OBVIOUS
  <2>1. CASE j = k
    BY <1>6, <2>1
  <2>2. CASE j # k
    BY <1>4, <2>2 DEF Holds
  <2> QED
    BY <2>1, <2>2
<1>9. FdsOK
  BY DEF MountInv
<1>10. ASSUME NEW j \in Tasks, NEW f \in Nat, Holds(task'[j], f)
       PROVE  /\ f \in hostFds \ local
              /\ \A i \in Tasks : Holds(task'[i], f) => j = i
              /\ \A x \in 1 .. Len(toGuest') : ~Carries(toGuest'[x], f)
  BY <1>2, <1>7, <1>8, <1>9, <1>10 DEF FdsOK
<1>11. ASSUME NEW x \in 1 .. Len(toGuest'), NEW f \in Nat, Carries(toGuest'[x], f)
       PROVE  /\ f \in hostFds \ local /\ f # 0
              /\ \A y \in 1 .. Len(toGuest') : Carries(toGuest'[y], f) => x = y
  <2>1. f \in hostFds \ local /\ f # 0
    BY <1>7, <1>9, <1>11 DEF FdsOK
  <2>2. \A y \in 1 .. Len(toGuest') : Carries(toGuest'[y], f) => x + 1 = y + 1
    BY <1>7, <1>9, <1>11 DEF FdsOK
  <2> QED
    BY <2>1, <2>2
<1>12. ASSUME NEW x \in 1 .. Len(toHost), NEW f \in Nat, Closes(toHost[x], f)
       PROVE  /\ f < nextHostFd /\ f \notin local
              /\ \A j \in Tasks : ~Holds(task'[j], f)
              /\ \A y \in 1 .. Len(toGuest') : ~Carries(toGuest'[y], f)
  BY <1>2, <1>7, <1>8, <1>9, <1>12 DEF FdsOK
<1> QED
  BY <1>1, <1>9, <1>10, <1>11, <1>12 DEF FdsOK

(* The task has its own answer.                                            *)
LEMMA TakeNames ==
  ASSUME MountInv, Deliver, NEW k \in Tasks, task[k].at = "sent", task[k].id = NextResponse.id,
         task' = [task EXCEPT ![k] = Takes(k, NextResponse)]
  PROVE  /\ Takes(k, NextResponse) \in TaskRecord
         /\ ShapesOK' /\ Room' /\ InodesAgree' /\ AloneOnNames' /\ CacheOK'
<1> DEFINE m == NextResponse
           q == Takes(k, m)
<1>1. m \in Answer /\ 1 \in 1 .. Len(toGuest) /\ m = toGuest[1]
  BY DeliverWire
<1>2. Asks(task[k].op, m.what)
  BY <1>1 DEF MountInv, IdsOK
<1>3. ShapeOK(task[k]) /\ MountTypes
  BY DEF MountInv, ShapesOK
<1>4. UNCHANGED <<inoOf, pathOf, nextIno, cache, crossed>>
  BY DEF Deliver, inodeVars
<1> HIDE DEF m
<1>5. CASE m.ok
  <2>1. /\ q \in TaskRecord /\ q.at = "got" /\ q.op = task[k].op /\ q.path = task[k].path
        /\ q.to = task[k].to /\ q.ino = task[k].ino /\ q.got = m.what /\ q.alone = task[k].alone
    BY <1>1, <1>3, <1>5, TakenIs
  <2> HIDE DEF q
  <2>2. ShapeOK(q)
    BY <1>2, <1>3, <2>1 DEF ShapeOK
  <2>3. GoesOn(k, q)
    <3>1. task' = [task EXCEPT ![k] = q]
      BY DEF q, m
    <3>2. NeedsInode(q) => NeedsInode(task[k])
      BY <2>1 DEF NeedsInode
    <3> QED
      BY <2>1, <3>1, <3>2 DEF GoesOn
  <2>4. CachesOwn(k)
    BY <1>3, <1>4 DEF CachesOwn, MountTypes
  <2>5. Puts(q) /\ q.path \notin crossed => pathOf[q.ino] = q.path
    <3>1. Puts(q) => Puts(task[k])
      BY <2>1 DEF Puts
    <3> QED
      BY <2>1, <3>1 DEF MountInv, CacheOK
  <2>6. q.at # "remap"
    BY <2>1
  <2>7. ShapesOK' /\ Room' /\ InodesAgree' /\ AloneOnNames' /\ CacheOK'
    BY <1>4, <2>1, <2>2, <2>3, <2>4, <2>5, <2>6, GoesOnNames
  <2> QED
    BY <2>1, <2>7 DEF q, m
<1>6. CASE ~m.ok
  <2>1. q = NoTask
    BY <1>6 DEF Takes
  <2>2. GoesOn(k, NoTask)
    <3>1. task' = [task EXCEPT ![k] = NoTask]
      BY <2>1 DEF m
    <3> QED
      BY <3>1, NoTaskIs DEF GoesOn
  <2>3. CachesOwn(k)
    BY <1>3, <1>4 DEF CachesOwn, MountTypes
  <2>4. ShapesOK' /\ Room' /\ InodesAgree' /\ AloneOnNames' /\ CacheOK'
    BY <1>4, <2>2, <2>3, NoTaskIs, GoesOnNames
  <2> QED
    BY <2>1, <2>4, NoTaskIs DEF m
<1> QED
  BY <1>5, <1>6

(* Taking an answer leaves the ids of the others.                          *)
LEMMA TakeIds ==
  ASSUME MountInv, Deliver, NEW k \in Tasks, Takes(k, NextResponse) \in TaskRecord,
         task' = [task EXCEPT ![k] = Takes(k, NextResponse)]
  PROVE  IdsOK'
<1>1. /\ task'[k] = Takes(k, NextResponse)
      /\ \A j \in Tasks : j # k => task'[j] = task[j]
  BY OthersStay DEF MountInv
<1>2. Takes(k, NextResponse).at # "sent"
  <2>1. CASE NextResponse.ok
    BY <2>1, TakenIs, DeliverWire DEF MountInv
  <2>2. CASE ~NextResponse.ok
    BY <2>2, NoTaskIs DEF Takes
  <2> QED
    BY <2>1, <2>2
<1>3. \A j \in Tasks : task'[j].at = "sent" => task'[j] = task[j]
  BY <1>1, <1>2
<1>4. nextId' = nextId /\ toHost' = toHost
  BY DEF Deliver
<1>5. IdsOK
  BY DEF MountInv
<1>6. \A j \in Tasks : task'[j].at = "sent" => task'[j].id < nextId'
  BY <1>3, <1>4, <1>5 DEF IdsOK
<1>7. \A i, j \in Tasks :
        task'[i].at = "sent" /\ task'[j].at = "sent" /\ task'[i].id = task'[j].id => i = j
  BY <1>3, <1>5 DEF IdsOK
<1>8. \A x \in 1 .. Len(toHost) :
        /\ toHost[x].id < nextId
        /\ \A j \in Tasks : task'[j].at = "sent" /\ task'[j].id = toHost[x].id
                              => Asks(task'[j].op, toHost[x].what)
  BY <1>3, <1>5 DEF IdsOK
<1>9. \A x \in 1 .. Len(toGuest) :
        /\ toGuest[x].id < nextId
        /\ \A j \in Tasks : task'[j].at = "sent" /\ task'[j].id = toGuest[x].id
                              => Asks(task'[j].op, toGuest[x].what)
  BY <1>3, <1>5 DEF IdsOK
<1>10. \A x \in 1 .. Len(toGuest') : x + 1 \in 1 .. Len(toGuest) /\ toGuest'[x] = toGuest[x + 1]
  BY DeliverWire
<1>11. \A x \in 1 .. Len(toGuest') :
        /\ toGuest'[x].id < nextId'
        /\ \A j \in Tasks : task'[j].at = "sent" /\ task'[j].id = toGuest'[x].id
                              => Asks(task'[j].op, toGuest'[x].what)
  BY <1>4, <1>9, <1>10
<1> QED
  BY <1>4, <1>6, <1>7, <1>8, <1>11 DEF IdsOK

(* With the tasks and the inode map as they were and a cache that forgets. *)
LEMMA ForgettingKeeps ==
  ASSUME MountInv, UNCHANGED <<task, inoOf, pathOf, nextIno, crossed>>,
         \A n \in Names : cache'[n] \in {0, cache[n]}
  PROVE  ShapesOK' /\ Room' /\ InodesAgree' /\ AloneOnNames' /\ CacheOK'
<1>1. ShapesOK' /\ InodesAgree'
  BY DEF MountInv, ShapesOK, InodesAgree
<1>2. Allocating' = Allocating /\ \A k \in Tasks : On(k)' = On(k)
  BY DEF Allocating, On
<1>3. Room' /\ AloneOnNames'
  BY <1>2 DEF MountInv, Room, AloneOnNames
<1>4. \A k \in Tasks : On(k) \subseteq Names
  BY DEF MountInv, MountTypes, On, TaskRecord, Paths
<1>5. CacheOK'
  BY <1>2, <1>4 DEF MountInv, CacheOK
<1> QED
  BY <1>1, <1>3, <1>5

(* An answer that has come, taken or dropped.                              *)
LEMMA DeliverKeeps ==
  ASSUME MountInv, Deliver
  PROVE  MountInv'
<1>1. UNCHANGED <<inoOf, pathOf, nextIno, cache, nextId, toHost, local, hostFds, nextHostFd, crossed>>
  BY DEF Deliver, inodeVars, hostVars
<1>2. toGuest' \in Seq(Answer)
  BY DeliverWire
<1>3. CASE task' = task
  <2>1. IdsOK' /\ FdsOK'
    BY <1>3, DropKeeps
  <2>2. ShapesOK' /\ Room' /\ InodesAgree' /\ AloneOnNames' /\ CacheOK'
    BY <1>1, <1>3, ForgettingKeeps
  <2>3. MountTypes'
    BY <1>1, <1>2, <1>3 DEF MountInv, MountTypes
  <2> QED
    BY <2>1, <2>2, <2>3 DEF MountInv
<1>4. CASE \E k \in Tasks : /\ task[k].at = "sent" /\ task[k].id = NextResponse.id
                            /\ task' = [task EXCEPT ![k] = Takes(k, NextResponse)]
  <2>1. PICK k \in Tasks : /\ task[k].at = "sent" /\ task[k].id = NextResponse.id
                           /\ task' = [task EXCEPT ![k] = Takes(k, NextResponse)]
    BY <1>4
  <2>2. /\ Takes(k, NextResponse) \in TaskRecord
        /\ ShapesOK' /\ Room' /\ InodesAgree' /\ AloneOnNames' /\ CacheOK'
    BY <2>1, TakeNames
  <2>3. IdsOK' /\ FdsOK'
    BY <2>1, <2>2, TakeIds, TakeFds
  <2>4. MountTypes'
    <3>1. task' \in [Tasks -> TaskRecord]
      BY <2>1, <2>2, OthersStay DEF MountInv
    <3> QED
      BY <1>1, <1>2, <3>1 DEF MountInv, MountTypes
  <2> QED
    BY <2>2, <2>3, <2>4 DEF MountInv
<1> QED
  BY <1>3, <1>4, DeliverTasks

-----------------------------------------------------------------------------
(* The host                                                                *)

(* The request leaves the stream, its answer is behind the others, and an  *)
(* fd in it is a new one.                                                  *)
LEMMA HostWire ==
  ASSUME MountInv, HostAnswers
  PROVE  /\ toHost' \in Seq(Message) /\ toGuest' \in Seq(Answer)
         /\ 1 \in 1 .. Len(toHost) /\ NextRequest = toHost[1] /\ NextRequest \in Message
         /\ \A x \in 1 .. Len(toHost') : x + 1 \in 1 .. Len(toHost) /\ toHost'[x] = toHost[x + 1]
         /\ \A x \in 1 .. Len(toGuest') : x \in 1 .. Len(toGuest) \/ x = Len(toGuest) + 1
         /\ \A x \in 1 .. Len(toGuest) : toGuest'[x] = toGuest[x]
         /\ toGuest'[Len(toGuest) + 1].id = NextRequest.id
         /\ toGuest'[Len(toGuest) + 1].what = NextRequest.what
         /\ \A f \in Nat : Carries(toGuest'[Len(toGuest) + 1], f) =>
              /\ f = nextHostFd /\ nextHostFd' = nextHostFd + 1
              /\ hostFds' = hostFds \cup {nextHostFd}
         /\ nextHostFd' \in {nextHostFd, nextHostFd + 1}
         /\ \/ hostFds' = hostFds
            \/ hostFds' = hostFds \cup {nextHostFd} /\ nextHostFd' = nextHostFd + 1
            \/ hostFds' = hostFds \ {NextRequest.fd} /\ NextRequest.what = "close"
<1> DEFINE q == NextRequest
           ok == CASE q.what \in {"stat", "open", "remove", "truncate", "rename"} -> q.path \in present
                   [] q.what = "mkdir" -> q.path \notin present
                   [] OTHER -> TRUE
           opens == ok /\ q.what \in {"open", "create"}
           m == Response(q, ok, IF opens THEN nextHostFd ELSE 0)
<1>1. /\ toHost \in Seq(Message) /\ toHost # <<>> /\ toHost' = Tail(toHost)
      /\ toGuest \in Seq(Answer) /\ nextHostFd \in Nat
  BY DEF MountInv, MountTypes, HostAnswers
<1>2. /\ toHost' \in Seq(Message)
      /\ 1 \in 1 .. Len(toHost) /\ q = toHost[1] /\ q \in Message
      /\ \A x \in 1 .. Len(toHost') : x + 1 \in 1 .. Len(toHost) /\ toHost'[x] = toHost[x + 1]
  BY <1>1, TailAt DEF NextRequest
<1>3. /\ toGuest' = Append(toGuest, m)
      /\ hostFds' = IF opens THEN hostFds \cup {nextHostFd}
                    ELSE IF q.what = "close" THEN hostFds \ {q.fd} ELSE hostFds
      /\ nextHostFd' = IF opens THEN nextHostFd + 1 ELSE nextHostFd
  BY DEF HostAnswers
<1>4. ok \in BOOLEAN
  <2>1. CASE q.what \in {"stat", "open", "remove", "truncate", "rename"}
    <3>1. ok = (q.path \in present)
      BY <2>1
    <3>2. (q.path \in present) \in BOOLEAN
      OBVIOUS
    <3> QED
      BY <3>1, <3>2
  <2>2. CASE q.what = "mkdir"
    BY <2>2
  <2>3. CASE q.what \notin {"stat", "open", "remove", "truncate", "rename", "mkdir"}
    BY <2>3
  <2> QED
    BY <2>1, <2>2, <2>3
<1> HIDE DEF ok, q
<1>5. (IF opens THEN nextHostFd ELSE 0) \in Nat /\ q.id \in Nat /\ q.what \in Whats
  BY <1>1, <1>2 DEF Message
<1>6. m \in Answer
  BY <1>4, <1>5 DEF Response, Answer
<1>7. m.id = q.id /\ m.what = q.what /\ m.ok = ok /\ m.fd = IF opens THEN nextHostFd ELSE 0
  BY DEF Response
<1>8. \A f \in Nat : Carries(m, f) => opens /\ f = nextHostFd
  BY <1>7 DEF Carries, Opener
<1> HIDE DEF m
<1>9. /\ toGuest' \in Seq(Answer)
      /\ \A x \in 1 .. Len(toGuest') : x \in 1 .. Len(toGuest) \/ x = Len(toGuest) + 1
      /\ \A x \in 1 .. Len(toGuest) : toGuest'[x] = toGuest[x]
      /\ toGuest'[Len(toGuest) + 1] = m
  BY <1>1, <1>3, <1>6, AppendAt
<1>10. \A f \in Nat : Carries(m, f) => /\ f = nextHostFd /\ nextHostFd' = nextHostFd + 1
                                       /\ hostFds' = hostFds \cup {nextHostFd}
  BY <1>3, <1>8
<1>11. /\ nextHostFd' \in {nextHostFd, nextHostFd + 1}
       /\ \/ hostFds' = hostFds
          \/ hostFds' = hostFds \cup {nextHostFd} /\ nextHostFd' = nextHostFd + 1
          \/ hostFds' = hostFds \ {q.fd} /\ q.what = "close"
  BY <1>3
<1> QED
  BY <1>2, <1>7, <1>9, <1>10, <1>11 DEF q

(* The answer is for the request's own id.                                 *)
LEMMA HostAnswersIds ==
  ASSUME MountInv, HostAnswers
  PROVE  IdsOK'
<1>1. task' = task /\ nextId' = nextId
  BY DEF HostAnswers
<1>2. IdsOK
  BY DEF MountInv
<1>3. ASSUME NEW x \in 1 .. Len(toHost')
      PROVE  /\ toHost'[x].id < nextId
             /\ \A k \in Tasks : task[k].at = "sent" /\ task[k].id = toHost'[x].id
                                   => Asks(task[k].op, toHost'[x].what)
  <2>1. x + 1 \in 1 .. Len(toHost) /\ toHost'[x] = toHost[x + 1]
    BY <1>3, HostWire
  <2> QED
    BY <1>2, <2>1 DEF IdsOK
<1>4. ASSUME NEW x \in 1 .. Len(toGuest')
      PROVE  /\ toGuest'[x].id < nextId
             /\ \A k \in Tasks : task[k].at = "sent" /\ task[k].id = toGuest'[x].id
                                   => Asks(task[k].op, toGuest'[x].what)
  <2>1. CASE x \in 1 .. Len(toGuest)
    BY <1>2, <2>1, HostWire DEF IdsOK
  <2>2. CASE x = Len(toGuest) + 1
    <3>1. 1 \in 1 .. Len(toHost) /\ toGuest'[x].id = toHost[1].id /\ toGuest'[x].what = toHost[1].what
      BY <2>2, HostWire
    <3> QED
      BY <1>2, <3>1 DEF IdsOK
  <2> QED
    BY <1>4, <2>1, <2>2, HostWire
<1> QED
  BY <1>1, <1>2, <1>3, <1>4 DEF IdsOK

(* An fd that the host opens is new, and one that it closes was forgotten. *)
LEMMA HostAnswersFds ==
  ASSUME MountInv, HostAnswers
  PROVE  FdsOK'
<1>1. task' = task /\ local' = local
  BY DEF HostAnswers
<1>2. FdsOK /\ nextHostFd \in Nat \ {0} /\ hostFds \subseteq Nat
  BY DEF MountInv, MountTypes
<1>3. nextHostFd <= nextHostFd' /\ nextHostFd' \in Nat
  BY <1>2, HostWire
<1>4. \A f \in hostFds' : f < nextHostFd'
  <2>1. \A f \in hostFds : f \in Nat /\ f < nextHostFd
    BY <1>2 DEF FdsOK
  <2>2. \/ hostFds' \subseteq hostFds
        \/ hostFds' = hostFds \cup {nextHostFd} /\ nextHostFd' = nextHostFd + 1
    BY HostWire
  <2> SUFFICES ASSUME NEW f \in hostFds'
               PROVE  f < nextHostFd'
    OBVIOUS
  <2>3. CASE f \in hostFds
    <3>1. f \in Nat /\ f < nextHostFd
      BY <2>1, <2>3
    <3> QED
      BY <1>2, <1>3, <3>1
  <2>4. CASE f \notin hostFds
    <3>1. f = nextHostFd /\ nextHostFd' = nextHostFd + 1
      BY <2>2, <2>4
    <3> QED
      BY <1>2, <3>1
  <2> QED
    BY <2>3, <2>4
<1>5. \A f \in hostFds : f \in hostFds' \/ Closes(toHost[1], f)
  BY HostWire DEF Closes
<1>6. 1 \in 1 .. Len(toHost)
  BY HostWire
<1>7. local \subseteq hostFds'
  BY <1>2, <1>5, <1>6 DEF FdsOK
<1>8. \A x \in 1 .. Len(toGuest'), f \in Nat : Carries(toGuest'[x], f) =>
        \/ x \in 1 .. Len(toGuest) /\ Carries(toGuest[x], f)
        \/ x = Len(toGuest) + 1 /\ f = nextHostFd /\ f \in hostFds'
  BY HostWire
<1>9. \A k \in Tasks, f \in Nat : Holds(task[k], f) => f \in hostFds' /\ f # nextHostFd
  BY <1>2, <1>5, <1>6 DEF FdsOK
<1>10. \A k \in Tasks, f \in Nat : Holds(task[k], f) =>
         /\ f \in hostFds' \ local
         /\ \A j \in Tasks : Holds(task[j], f) => k = j
         /\ \A x \in 1 .. Len(toGuest') : ~Carries(toGuest'[x], f)
  <2> SUFFICES ASSUME NEW k \in Tasks, NEW f \in Nat, Holds(task[k], f)
               PROVE  /\ f \in hostFds' \ local
                      /\ \A j \in Tasks : Holds(task[j], f) => k = j
                      /\ \A x \in 1 .. Len(toGuest') : ~Carries(toGuest'[x], f)
    OBVIOUS
  <2>1. /\ f \notin local /\ \A j \in Tasks : Holds(task[j], f) => k = j
        /\ \A x \in 1 .. Len(toGuest) : ~Carries(toGuest[x], f)
    BY <1>2 DEF FdsOK
  <2> QED
    BY <1>8, <1>9, <2>1
<1>11. ASSUME NEW x \in 1 .. Len(toGuest'), NEW f \in Nat, Carries(toGuest'[x], f)
       PROVE  /\ f \in hostFds' \ local /\ f # 0
              /\ \A y \in 1 .. Len(toGuest') : Carries(toGuest'[y], f) => x = y
  <2>1. CASE x \in 1 .. Len(toGuest) /\ Carries(toGuest[x], f)
    <3>1. /\ f \in hostFds \ local /\ f # 0 /\ f # nextHostFd
          /\ \A y \in 1 .. Len(toGuest) : Carries(toGuest[y], f) => x = y
      BY <1>2, <2>1 DEF FdsOK
    <3>2. f \in hostFds'
      BY <1>2, <1>5, <1>6, <2>1, <3>1 DEF FdsOK
    <3> QED
      BY <1>8, <3>1, <3>2
  <2>2. CASE x = Len(toGuest) + 1 /\ f = nextHostFd /\ f \in hostFds'
    <3>1. f \notin local /\ f # 0
      BY <1>2, <2>2 DEF FdsOK
    <3>2. \A y \in 1 .. Len(toGuest) : ~Carries(toGuest[y], f)
      BY <1>2, <2>2 DEF FdsOK
    <3> QED
      BY <1>8, <2>2, <3>1, <3>2
  <2> QED
    BY <1>8, <1>11, <2>1, <2>2
<1>12. ASSUME NEW x \in 1 .. Len(toHost'), NEW f \in Nat, Closes(toHost'[x], f)
       PROVE  /\ f < nextHostFd' /\ f \notin local
              /\ \A k \in Tasks : ~Holds(task[k], f)
              /\ \A y \in 1 .. Len(toGuest') : ~Carries(toGuest'[y], f)
  <2>1. x + 1 \in 1 .. Len(toHost) /\ Closes(toHost[x + 1], f)
    BY <1>12, HostWire
  <2>2. /\ f < nextHostFd /\ f \notin local /\ \A k \in Tasks : ~Holds(task[k], f)
        /\ \A y \in 1 .. Len(toGuest) : ~Carries(toGuest[y], f)
    BY <1>2, <2>1 DEF FdsOK
  <2> QED
    BY <1>2, <1>3, <1>8, <2>2
<1> QED
  BY <1>1, <1>4, <1>7, <1>10, <1>11, <1>12 DEF FdsOK

(* The host answers a request.                                             *)
LEMMA HostAnswersKeeps ==
  ASSUME MountInv, HostAnswers
  PROVE  MountInv'
<1>1. UNCHANGED <<task, inoOf, pathOf, nextIno, cache, nextId, local, crossed>>
  BY DEF HostAnswers, inodeVars
<1>2. ShapesOK' /\ Room' /\ InodesAgree' /\ AloneOnNames' /\ CacheOK'
  BY <1>1, ForgettingKeeps
<1>3. hostFds' \subseteq Nat /\ nextHostFd' \in Nat \ {0}
  <2>1. hostFds \subseteq Nat /\ nextHostFd \in Nat \ {0}
    BY DEF MountInv, MountTypes
  <2>2. hostFds' \subseteq hostFds \cup {nextHostFd} /\ nextHostFd' \in {nextHostFd, nextHostFd + 1}
    BY HostWire
  <2> QED
    BY <2>1, <2>2
<1>4. MountTypes'
  BY <1>1, <1>3, HostWire DEF MountInv, MountTypes
<1> QED
  BY <1>2, <1>4, HostAnswersIds, HostAnswersFds DEF MountInv

-----------------------------------------------------------------------------
(* The cache, the timer and the link                                       *)

(* The cache expires, or is cleared by the host.                           *)
LEMMA CacheForgets ==
  ASSUME MountInv, ClearCache \/ \E n \in Names : Expire(n)
  PROVE  MountInv'
<1>1. /\ UNCHANGED <<task, inoOf, pathOf, nextIno, nextId, toHost, toGuest, local, hostFds,
                     nextHostFd, crossed>>
  BY DEF ClearCache, Expire, inodeVars, wireVars, hostVars
<1>2. cache \in [Names -> MaybeInos]
  BY DEF MountInv, MountTypes
<1>3. cache' \in [Names -> MaybeInos] /\ \A n \in Names : cache'[n] \in {0, cache[n]}
  <2>1. CASE ClearCache
    BY <2>1 DEF ClearCache, MaybeInos
  <2>2. CASE \E n \in Names : Expire(n)
    BY <1>2, <2>2 DEF Expire, MaybeInos
  <2> QED
    BY <2>1, <2>2
<1>4. ShapesOK' /\ Room' /\ InodesAgree' /\ AloneOnNames' /\ CacheOK'
  BY <1>1, <1>3, ForgettingKeeps
<1>5. MountTypes' /\ IdsOK' /\ FdsOK'
  BY <1>1, <1>3 DEF MountInv, MountTypes, IdsOK, FdsOK
<1> QED
  BY <1>4, <1>5 DEF MountInv

(* The stream goes down with all that is on it.                            *)
LEMMA LinkDiesKeeps ==
  ASSUME MountInv, LinkDies
  PROVE  MountInv'
<1>1. /\ UNCHANGED <<task, inoOf, pathOf, nextIno, cache, nextId, local, hostFds, nextHostFd, crossed>>
      /\ toHost' = <<>> /\ toGuest' = <<>>
  BY DEF LinkDies, inodeVars, hostVars
<1>2. ShapesOK' /\ Room' /\ InodesAgree' /\ AloneOnNames' /\ CacheOK'
  BY <1>1, ForgettingKeeps
<1>3. MountTypes' /\ IdsOK' /\ FdsOK'
  BY <1>1 DEF MountInv, MountTypes, IdsOK, FdsOK
<1> QED
  BY <1>2, <1>3 DEF MountInv

(* A task that goes on and leaves the wire, the inodes and the handles as  *)
(* they are.                                                               *)
LEMMA GoesOnKeeps ==
  ASSUME MountInv, NEW k \in Tasks, NEW q \in TaskRecord, GoesOn(k, q), ShapeOK(q), CachesOwn(k),
         Puts(q) /\ q.path \notin crossed => pathOf[q.ino] = q.path,
         q.alone /\ q.at = "remap" => \A n \in OnOf(q) : cache'[n] = 0,
         \A f \in Nat : Holds(q, f) => Holds(task[k], f),
         nextId' \in {nextId, nextId + 1},
         UNCHANGED <<inoOf, pathOf, nextIno, toHost, toGuest, local, hostFds, nextHostFd, crossed>>
  PROVE  MountInv'
<1>1. ShapesOK' /\ Room' /\ InodesAgree' /\ AloneOnNames' /\ CacheOK'
  BY GoesOnNames
<1>2. IdsOK' /\ FdsOK'
  BY GoesOnIds, GoesOnFds
<1>3. MountTypes'
  <2>1. task' \in [Tasks -> TaskRecord]
    BY OthersStay DEF MountInv, GoesOn
  <2> QED
    BY <2>1 DEF MountInv, MountTypes, CachesOwn
<1> QED
  BY <1>1, <1>2, <1>3 DEF MountInv

(* A task that is over.                                                    *)
LEMMA OverKeeps ==
  ASSUME MountInv, NEW k \in Tasks, task' = [task EXCEPT ![k] = NoTask], CachesOwn(k),
         nextId' \in {nextId, nextId + 1},
         UNCHANGED <<inoOf, pathOf, nextIno, toHost, toGuest, local, hostFds, nextHostFd, crossed>>
  PROVE  MountInv'
<1>1. GoesOn(k, NoTask)
  BY NoTaskIs DEF GoesOn
<1> QED
  BY <1>1, NoTaskIs, GoesOnKeeps

(* A request's timer fires.                                                *)
LEMMA TimeoutKeeps ==
  ASSUME MountInv, NEW k \in Tasks, Timeout(k)
  PROVE  MountInv'
<1>1. /\ task' = [task EXCEPT ![k] = NoTask]
      /\ UNCHANGED <<inoOf, pathOf, nextIno, cache, nextId, toHost, toGuest, local, hostFds,
                     nextHostFd, crossed>>
  BY DEF Timeout, inodeVars, hostVars
<1>2. CachesOwn(k)
  BY <1>1 DEF CachesOwn, MountInv, MountTypes
<1> QED
  BY <1>1, <1>2, OverKeeps

-----------------------------------------------------------------------------
(* What an operation does with its answer                                  *)

(* An attribute goes into the cache under the path it was asked for.       *)
LEMMA PutAttrKeeps ==
  ASSUME MountInv, NEW k \in Tasks, PutAttr(k)
  PROVE  MountInv'
<1> DEFINE t == task[k]
<1>1. /\ task' = [task EXCEPT ![k] = NoTask] /\ cache' = [cache EXCEPT ![t.path] = t.ino]
      /\ UNCHANGED <<inoOf, pathOf, nextIno, nextId, toHost, toGuest, local, hostFds, nextHostFd, crossed>>
  BY DEF PutAttr, inodeVars, wireVars, hostVars
<1>2. t.at = "put" \/ (t.at = "got" /\ t.op \in {"getattr", "setattr"})
  BY DEF PutAttr
<1>3. ShapeOK(t) /\ Puts(t)
  BY <1>2 DEF MountInv, ShapesOK, Puts
<1>4. t.path \in Names /\ t.ino \in Inos
  BY <1>2, <1>3 DEF ShapeOK, Named
<1>5. t.path \notin crossed => pathOf[t.ino] = t.path
  BY <1>3 DEF MountInv, CacheOK
<1>6. t.path \in On(k)
  BY <1>4, MountAssumption DEF On
<1>7. cache \in [Names -> MaybeInos]
  BY DEF MountInv, MountTypes
<1> HIDE DEF t
<1>8. CachesOwn(k)
  BY <1>1, <1>4, <1>5, <1>6, <1>7 DEF CachesOwn, MaybeInos
<1> QED
  BY <1>1, <1>8, OverKeeps

(* A task that only moves on.                                              *)
LEMMA MovedIs ==
  ASSUME MountTypes, NEW k \in Tasks, NEW at \in Points, NEW q, q = [task[k] EXCEPT !.at = at]
  PROVE  /\ q \in TaskRecord /\ Goto(k, at) = [task EXCEPT ![k] = q]
         /\ q.at = at /\ q.op = task[k].op /\ q.path = task[k].path /\ q.to = task[k].to
         /\ q.ino = task[k].ino /\ q.got = task[k].got /\ q.fd = task[k].fd /\ q.alone = task[k].alone
<1>1. task \in [Tasks -> TaskRecord] /\ task[k] \in TaskRecord
  BY DEF MountTypes
<1>2. /\ q \in TaskRecord
      /\ q.at = at /\ q.op = task[k].op /\ q.path = task[k].path /\ q.to = task[k].to
      /\ q.ino = task[k].ino /\ q.got = task[k].got /\ q.fd = task[k].fd /\ q.alone = task[k].alone
  BY <1>1 DEF TaskRecord
<1>3. Goto(k, at) = [task EXCEPT ![k] = q]
  BY <1>1 DEF Goto
<1> QED
  BY <1>2, <1>3

(* The cache drops what an operation has changed.                          *)
LEMMA InvalidateKeeps ==
  ASSUME MountInv, NEW k \in Tasks, Invalidate(k)
  PROVE  MountInv'
<1> DEFINE t == task[k]
<1>1. /\ cache' = [n \in Names |-> IF n \in Gone(k) THEN 0 ELSE cache[n]]
      /\ task' = CASE t.op \in {"unlink", "rename"} -> Goto(k, "remap")
                   [] t.op = "create" -> Goto(k, "handle")
                   [] t.op = "write" -> [task EXCEPT ![k] = NoTask]
                   [] OTHER -> Goto(k, "again")
      /\ UNCHANGED <<inoOf, pathOf, nextIno, nextId, toHost, toGuest, local, hostFds, nextHostFd, crossed>>
  BY DEF Invalidate, inodeVars, wireVars, hostVars
<1>2. \/ t.at = "drop"
      \/ t.at = "got" /\ t.op \in {"unlink", "rename", "write"}
      \/ t.at = "got" /\ t.op \in {"mkdir", "setattr"}
  BY DEF Invalidate
<1>3. ShapeOK(t) /\ MountTypes
  BY DEF MountInv, ShapesOK
<1>4. t.at = "drop" => t.op = "create"
  BY <1>3 DEF ShapeOK
<1>5. CachesOwn(k)
  <2>1. cache \in [Names -> MaybeInos] /\ 0 \in MaybeInos
    BY <1>3 DEF MountTypes, MaybeInos
  <2> QED
    BY <1>1, <2>1 DEF CachesOwn
<1>6. On(k) \subseteq Names
  BY <1>3 DEF MountTypes, On, TaskRecord, Paths
<1>7. t.op \in {"unlink", "rename", "mkdir", "setattr", "create"} => t.path \in Names
  BY <1>3 DEF ShapeOK, Named
<1> HIDE DEF t
<1>8. CASE t.op \in {"unlink", "rename"}
  <2> DEFINE q == [task[k] EXCEPT !.at = "remap"]
  <2>1. task' = Goto(k, "remap") /\ t.at = "got"
    BY <1>1, <1>2, <1>4, <1>8
  <2>2. "remap" \in Points
    BY DEF Points
  <2>3. /\ q \in TaskRecord /\ task' = [task EXCEPT ![k] = q]
        /\ q.at = "remap" /\ q.op = t.op /\ q.path = t.path /\ q.to = t.to
        /\ q.ino = t.ino /\ q.alone = t.alone
    BY <1>3, <2>1, <2>2, MovedIs DEF t
  <2> HIDE DEF q
  <2>4. ShapeOK(q)
    BY <1>3, <1>8, <2>3 DEF ShapeOK
  <2>5. GoesOn(k, q) /\ ~Puts(q) /\ \A f \in Nat : ~Holds(q, f)
    BY <1>8, <2>3 DEF GoesOn, t, NeedsInode, Puts, Holds
  <2>6. OnOf(q) = On(k)
    BY <2>3 DEF OnOf, On, t
  <2>7. On(k) \subseteq Gone(k)
    BY <1>8 DEF Gone, t
  <2>8. \A n \in OnOf(q) : cache'[n] = 0
    BY <1>1, <1>6, <2>6, <2>7
  <2> QED
    BY <1>1, <1>5, <2>3, <2>4, <2>5, <2>8, GoesOnKeeps
<1>9. CASE t.op = "create"
  <2> DEFINE q == [task[k] EXCEPT !.at = "handle"]
  <2>1. task' = Goto(k, "handle") /\ t.at = "drop"
    BY <1>1, <1>2, <1>4, <1>9
  <2>2. "handle" \in Points
    BY DEF Points
  <2>3. /\ q \in TaskRecord /\ task' = [task EXCEPT ![k] = q]
        /\ q.at = "handle" /\ q.op = t.op /\ q.path = t.path /\ q.to = t.to
        /\ q.ino = t.ino /\ q.alone = t.alone /\ q.fd = t.fd
    BY <1>3, <2>1, <2>2, MovedIs DEF t
  <2> HIDE DEF q
  <2>4. ShapeOK(q)
    BY <1>3, <1>9, <2>3 DEF ShapeOK
  <2>5. GoesOn(k, q) /\ ~Puts(q)
    BY <1>9, <2>3 DEF GoesOn, t, NeedsInode, Puts
  <2>6. \A f \in Nat : Holds(q, f) => Holds(task[k], f)
    BY <2>1, <2>3 DEF Holds, t
  <2> QED
    BY <1>1, <1>5, <2>3, <2>4, <2>5, <2>6, GoesOnKeeps
<1>10. CASE t.op = "write"
  <2>1. task' = [task EXCEPT ![k] = NoTask]
    BY <1>1, <1>10
  <2> QED
    BY <1>1, <1>5, <2>1, OverKeeps
<1>11. CASE t.op \notin {"unlink", "rename", "create", "write"}
  <2> DEFINE q == [task[k] EXCEPT !.at = "again"]
  <2>1. task' = Goto(k, "again") /\ t.at = "got" /\ t.op \in {"mkdir", "setattr"}
    BY <1>1, <1>2, <1>4, <1>11
  <2>2. "again" \in Points
    BY DEF Points
  <2>3. /\ q \in TaskRecord /\ task' = [task EXCEPT ![k] = q]
        /\ q.at = "again" /\ q.op = t.op /\ q.path = t.path /\ q.to = t.to
        /\ q.ino = t.ino /\ q.alone = t.alone /\ q.fd = t.fd
    BY <1>3, <2>1, <2>2, MovedIs DEF t
  <2> HIDE DEF q
  <2>4. ShapeOK(q)
    BY <1>3, <2>1, <2>3 DEF ShapeOK
  <2>5. GoesOn(k, q)
    BY <2>1, <2>3 DEF GoesOn, t, NeedsInode
  <2>6. \A f \in Nat : Holds(q, f) => Holds(task[k], f)
    BY <2>3 DEF Holds
  <2>7. Puts(q) => Puts(task[k])
    BY <2>3 DEF Puts, t
  <2>8. Puts(q) /\ q.path \notin crossed => pathOf[q.ino] = q.path
    BY <2>3, <2>7 DEF MountInv, CacheOK, t
  <2>9. q.at # "remap"
    BY <2>3
  <2> QED
    BY <1>1, <1>5, <2>3, <2>4, <2>5, <2>6, <2>8, <2>9, GoesOnKeeps
<1> QED
  BY <1>8, <1>9, <1>10, <1>11

(* mkdir and setattr ask again, or find the stream down.                   *)
LEMMA StatAfterKeeps ==
  ASSUME MountInv, NEW k \in Tasks, StatAfter(k)
  PROVE  MountInv'
<1> DEFINE t == task[k]
           sent == [t EXCEPT !.at = "sent"]
<1>1. /\ t.at = "again" /\ Send(k, t, "stat")
      /\ UNCHANGED <<inodeVars, cache, local, hostVars, crossed>>
  BY DEF StatAfter
<1>2. t \in TaskRecord /\ ShapeOK(t) /\ MountTypes
  BY DEF MountInv, MountTypes, ShapesOK
<1>3. t.op \in {"mkdir", "setattr"}
  BY <1>1, <1>2 DEF ShapeOK
<1>4. CASE linked
  <2>1. Asks(t.op, "stat") /\ "stat" \in Whats
    BY <1>3 DEF Asks, Whats
  <2>2. ShapeOK(sent)
    <3>1. sent.op = t.op /\ sent.at = "sent" /\ sent.path = t.path /\ sent.to = t.to /\ sent.ino = t.ino
      BY <1>2 DEF TaskRecord
    <3> HIDE DEF sent
    <3> QED
      BY <1>2, <1>3, <3>1 DEF ShapeOK, Named
  <2>3. Puts(t) /\ t.path \notin crossed => pathOf[t.ino] = t.path
    BY DEF MountInv, CacheOK
  <2>4. Sends(k, t, "stat")
    BY <1>1, <1>2, <1>4, <2>1, <2>2, <2>3 DEF Sends
  <2>5. HasRoom(k, t)
    BY <1>1 DEF HasRoom, NeedsInode
  <2>6. Forgets("stat", t)
    BY <1>1 DEF Forgets
  <2> HIDE DEF t
  <2> QED
    BY <2>4, <2>5, <2>6, SendKeeps
<1>5. CASE ~linked
  <2>1. /\ task' = [task EXCEPT ![k] = NoTask] /\ nextId' = nextId + 1
        /\ UNCHANGED <<inoOf, pathOf, nextIno, cache, toHost, toGuest, local, hostFds, nextHostFd, crossed>>
    BY <1>1, <1>5 DEF Send, inodeVars, hostVars
  <2>2. CachesOwn(k)
    BY <1>2, <2>1 DEF CachesOwn, MountTypes
  <2> QED
    BY <2>1, <2>2, OverKeeps
<1> QED
  BY <1>4, <1>5

(* The handle of an opened file goes into the table.                       *)
LEMMA AllocateKeeps ==
  ASSUME MountInv, NEW k \in Tasks, Allocate(k)
  PROVE  MountInv'
<1> DEFINE fd == task[k].fd
<1>1. /\ task' = [task EXCEPT ![k] = NoTask] /\ local' = local \cup {fd}
      /\ UNCHANGED <<inoOf, pathOf, nextIno, cache, nextId, toHost, toGuest, hostFds, nextHostFd, crossed>>
  BY DEF Allocate, inodeVars, wireVars, hostVars
<1>2. /\ \A j \in Tasks : j # k => task'[j] = task[j]
      /\ task'[k] = NoTask /\ task' \in [Tasks -> TaskRecord]
  BY <1>1, NoTaskIs, OthersStay DEF MountInv
<1>3. fd \in Nat /\ Holds(task[k], fd)
  <2>1. task[k] \in TaskRecord /\ ShapeOK(task[k])
    BY DEF MountInv, MountTypes, ShapesOK
  <2>2. \/ task[k].at = "handle" /\ task[k].op = "create"
        \/ task[k].at = "got" /\ task[k].op = "open"
    BY <2>1 DEF Allocate, ShapeOK
  <2> QED
    BY <2>1, <2>2 DEF TaskRecord, Holds, Opener
<1> HIDE DEF fd
<1>4. GoesOn(k, NoTask) /\ CachesOwn(k)
  BY <1>1, NoTaskIs DEF GoesOn, CachesOwn, MountInv, MountTypes
<1>5. ShapesOK' /\ Room' /\ InodesAgree' /\ AloneOnNames' /\ CacheOK' /\ IdsOK'
  BY <1>1, <1>4, NoTaskIs, GoesOnNames, GoesOnIds
<1>6. FdsOK'
  <2>1. \A j \in Tasks, f \in Nat : Holds(task'[j], f) => j # k /\ Holds(task[j], f)
    BY <1>2, NoTaskIs DEF Holds
  <2>2. FdsOK
    BY DEF MountInv
  <2>3. fd \in hostFds /\ local' \subseteq hostFds
    BY <1>1, <1>3, <2>2 DEF FdsOK
  <2>4. \A j \in Tasks, f \in Nat : Holds(task'[j], f) => f # fd
    BY <1>3, <2>1, <2>2 DEF FdsOK
  <2>5. \A x \in 1 .. Len(toGuest), f \in Nat : Carries(toGuest[x], f) => f # fd
    BY <1>3, <2>2 DEF FdsOK
  <2>6. \A x \in 1 .. Len(toHost), f \in Nat : Closes(toHost[x], f) => f # fd
    BY <1>3, <2>2 DEF FdsOK
  <2>7. \A j \in Tasks, f \in Nat : Holds(task'[j], f) =>
          /\ f \in hostFds \ local'
          /\ \A i \in Tasks : Holds(task'[i], f) => j = i
          /\ \A x \in 1 .. Len(toGuest) : ~Carries(toGuest[x], f)
    BY <1>1, <2>1, <2>2, <2>4 DEF FdsOK
  <2>8. \A x \in 1 .. Len(toGuest), f \in Nat : Carries(toGuest[x], f) =>
          /\ f \in hostFds \ local' /\ f # 0
          /\ \A y \in 1 .. Len(toGuest) : Carries(toGuest[y], f) => x = y
    BY <1>1, <2>2, <2>5 DEF FdsOK
  <2>9. \A x \in 1 .. Len(toHost), f \in Nat : Closes(toHost[x], f) =>
          /\ f < nextHostFd /\ f \notin local'
          /\ \A j \in Tasks : ~Holds(task'[j], f)
          /\ \A y \in 1 .. Len(toGuest) : ~Carries(toGuest[y], f)
    BY <1>1, <2>1, <2>2, <2>6 DEF FdsOK
  <2> QED
    BY <1>1, <2>2, <2>3, <2>7, <2>8, <2>9 DEF FdsOK
<1>7. MountTypes'
  BY <1>1, <1>2, <1>3 DEF MountInv, MountTypes
<1> QED
  BY <1>5, <1>6, <1>7 DEF MountInv

-----------------------------------------------------------------------------
(* The inode map                                                           *)

(* A name has its inode, or gets the next one.                             *)
Gets(n, i) ==
  /\ \/ inoOf[n] = 0 /\ i = nextIno /\ nextIno' = nextIno + 1
     \/ inoOf[n] # 0 /\ i = inoOf[n] /\ nextIno' = nextIno
  /\ inoOf' = [inoOf EXCEPT ![n] = i] /\ pathOf' = [pathOf EXCEPT ![i] = n]

(* The two maps still agree, and no inode that has a path loses it.        *)
LEMMA GetsInode ==
  ASSUME MountInv, NEW k \in Allocating, Allocating' \subseteq Allocating \ {k},
         NEW n \in Names, NEW i, Gets(n, i)
  PROVE  /\ i \in Inos /\ pathOf'[i] = n
         /\ inoOf' \in [Names -> MaybeInos] /\ pathOf' \in [Inos -> Paths] /\ nextIno' \in Nat \ {0}
         /\ \A x \in Inos : pathOf[x] # NoName => pathOf'[x] = pathOf[x]
         /\ Room' /\ InodesAgree'
<1>1. /\ inoOf \in [Names -> MaybeInos] /\ pathOf \in [Inos -> Paths] /\ nextIno \in Nat \ {0}
      /\ MaxIno \in Nat
  BY MountAssumption DEF MountInv, MountTypes
<1>2. Room /\ InodesAgree
  BY DEF MountInv
<1>3. /\ nextIno + Cardinality(Allocating) <= MaxIno + 1
      /\ Cardinality(Allocating) \in Nat /\ Cardinality(Allocating') \in Nat
      /\ Cardinality(Allocating') + 1 <= Cardinality(Allocating)
  BY <1>2, OneLessNeeds DEF Room
<1>4. CASE inoOf[n] = 0
  <2>1. /\ i = nextIno /\ nextIno' = nextIno + 1
        /\ inoOf' = [inoOf EXCEPT ![n] = i] /\ pathOf' = [pathOf EXCEPT ![i] = n]
    BY <1>4 DEF Gets
  <2>2. i \in Inos
    BY <1>1, <1>3, <2>1 DEF Inos
  <2>3. pathOf[i] = NoName /\ n # NoName
    BY <1>1, <1>2, <2>1, <2>2, MountAssumption DEF Room
  <2>4. /\ inoOf'[n] = i /\ \A x \in Names : x # n => inoOf'[x] = inoOf[x]
        /\ pathOf'[i] = n /\ \A x \in Inos : x # i => pathOf'[x] = pathOf[x]
    BY <1>1, <2>1, <2>2
  <2>5. inoOf' \in [Names -> MaybeInos] /\ pathOf' \in [Inos -> Paths]
    BY <1>1, <2>1, <2>2 DEF MaybeInos, Paths
  <2>6. Room'
    <3>1. nextIno' + Cardinality(Allocating') <= MaxIno + 1
      BY <1>1, <1>3, <2>1
    <3>2. \A x \in Names : inoOf[x] \in Nat /\ inoOf[x] < nextIno
      BY <1>1, <1>2 DEF Room, MaybeInos, Inos
    <3>3. \A x \in Names : inoOf'[x] < nextIno'
      BY <1>1, <2>1, <2>4, <3>2
    <3>4. \A x \in Inos : x >= nextIno' => x \in Nat /\ x >= nextIno /\ x # i
      BY <1>1, <2>1 DEF Inos
    <3>5. \A x \in Inos : x >= nextIno' => pathOf'[x] = NoName
      BY <1>2, <2>4, <3>4 DEF Room
    <3> QED
      BY <3>1, <3>3, <3>5 DEF Room
  <2>7. InodesAgree'
    <3>1. \A x \in Names : inoOf[x] # 0 => inoOf[x] # i
      BY <1>2, <2>3, MountAssumption DEF InodesAgree
    <3>2. \A x \in Names : inoOf'[x] # 0 => pathOf'[inoOf'[x]] = x
      BY <1>1, <1>2, <2>4, <3>1 DEF InodesAgree, MaybeInos
    <3>3. \A x \in Inos : pathOf'[x] # NoName => inoOf'[pathOf'[x]] = x
      <4> SUFFICES ASSUME NEW x \in Inos, pathOf'[x] # NoName
                   PROVE  inoOf'[pathOf'[x]] = x
        OBVIOUS
      <4>1. CASE x = i
        BY <2>4, <4>1
      <4>2. CASE x # i
        <5>1. pathOf'[x] = pathOf[x] /\ inoOf[pathOf[x]] = x
          BY <1>2, <2>4, <4>2 DEF InodesAgree
        <5>2. pathOf[x] \in Names /\ pathOf[x] # n
          BY <1>1, <1>4, <5>1 DEF Paths, Inos
        <5> QED
          BY <2>4, <5>1, <5>2
      <4> QED
        BY <4>1, <4>2
    <3> QED
      BY <3>2, <3>3 DEF InodesAgree
  <2>8. nextIno' \in Nat \ {0}
    BY <1>1, <2>1
  <2>9. \A x \in Inos : pathOf[x] # NoName => pathOf'[x] = pathOf[x]
    BY <2>3, <2>4
  <2> QED
    BY <2>2, <2>4, <2>5, <2>6, <2>7, <2>8, <2>9
<1>5. CASE inoOf[n] # 0
  <2>1. /\ i = inoOf[n] /\ nextIno' = nextIno
        /\ inoOf' = [inoOf EXCEPT ![n] = i] /\ pathOf' = [pathOf EXCEPT ![i] = n]
    BY <1>5 DEF Gets
  <2>2. i \in Inos /\ pathOf[i] = n
    BY <1>1, <1>2, <1>5, <2>1 DEF MaybeInos, InodesAgree
  <2>3. inoOf' = inoOf /\ pathOf' = pathOf
    BY <1>1, <2>1, <2>2
  <2>4. Room' /\ InodesAgree'
    BY <1>1, <1>2, <1>3, <2>1, <2>3 DEF Room, InodesAgree
  <2> QED
    BY <1>1, <2>1, <2>2, <2>3, <2>4
<1> QED
  BY <1>4, <1>5

(* The task that asked for it is over, or has it to put into the cache.    *)
LEMMA GetsKeeps ==
  ASSUME MountInv, NEW k \in Tasks, NEW q \in TaskRecord, GoesOn(k, q), ShapeOK(q),
         NeedsInode(task[k]), ~NeedsInode(q), q.at # "remap",
         NEW n \in Names, NEW i, Gets(n, i),
         Puts(q) => q.path = n /\ q.ino = i,
         \A f \in Nat : Holds(q, f) => Holds(task[k], f),
         UNCHANGED <<cache, nextId, toHost, toGuest, local, hostFds, nextHostFd, crossed>>
  PROVE  MountInv'
<1>1. task'[k] = q /\ \A j \in Tasks : j # k => task'[j] = task[j]
  BY OthersStay DEF MountInv, GoesOn
<1>2. ShapesOK' /\ AloneOnNames' /\ Allocating' \subseteq Allocating
  BY GoesOnShapes
<1>3. k \in Allocating /\ Allocating' \subseteq Allocating \ {k}
  BY <1>1, <1>2 DEF Allocating
<1>4. /\ i \in Inos /\ pathOf'[i] = n
      /\ inoOf' \in [Names -> MaybeInos] /\ pathOf' \in [Inos -> Paths] /\ nextIno' \in Nat \ {0}
      /\ \A x \in Inos : pathOf[x] # NoName => pathOf'[x] = pathOf[x]
      /\ Room' /\ InodesAgree'
  BY <1>3, GetsInode
<1>5. CacheOK'
  <2>1. CacheOK /\ cache \in [Names -> MaybeInos]
    BY DEF MountInv, MountTypes
  <2>2. \A x \in Names \ crossed : cache[x] # 0 => pathOf'[cache[x]] = x
    <3> SUFFICES ASSUME NEW x \in Names \ crossed, cache[x] # 0
                 PROVE  pathOf'[cache[x]] = x
      OBVIOUS
    <3>1. cache[x] \in Inos /\ pathOf[cache[x]] = x /\ x # NoName
      BY <2>1, MountAssumption DEF CacheOK, MaybeInos
    <3> QED
      BY <1>4, <3>1
  <2>3. ASSUME NEW j \in Tasks, Puts(task'[j]), task'[j].path \notin crossed
        PROVE  pathOf'[task'[j].ino] = task'[j].path
    <3>1. CASE j = k
      BY <1>1, <1>4, <2>3, <3>1
    <3>2. CASE j # k
      <4>1. Puts(task[j]) /\ ShapeOK(task[j])
        BY <1>1, <2>3, <3>2 DEF MountInv, ShapesOK
      <4>2. task[j].ino \in Inos /\ task[j].path \in Names
        BY <4>1 DEF Puts, ShapeOK, Named
      <4>3. pathOf[task[j].ino] = task[j].path
        BY <1>1, <2>1, <2>3, <3>2, <4>1 DEF CacheOK
      <4>4. task[j].path # NoName
        BY <4>2, MountAssumption
      <4> QED
        BY <1>1, <1>4, <3>2, <4>2, <4>3, <4>4
    <3> QED
      BY <3>1, <3>2
  <2>4. ASSUME NEW j \in Tasks, task'[j].alone, task'[j].at = "remap", NEW x \in On(j)'
        PROVE  cache[x] = 0
    <3>1. j # k
      BY <1>1, <2>4
    <3>2. task[j].alone /\ task[j].at = "remap" /\ x \in On(j)
      BY <1>1, <2>4, <3>1 DEF On
    <3> QED
      BY <2>1, <3>2 DEF CacheOK
  <2> QED
    BY <2>2, <2>3, <2>4 DEF CacheOK
<1>6. IdsOK' /\ FdsOK'
  BY GoesOnIds, GoesOnFds
<1>7. MountTypes'
  <2>1. task' \in [Tasks -> TaskRecord]
    BY OthersStay DEF MountInv, GoesOn
  <2> QED
    BY <1>4, <2>1 DEF MountInv, MountTypes
<1> QED
  BY <1>2, <1>4, <1>5, <1>6, <1>7 DEF MountInv

(* A lookup, a create or a mkdir has its inode.                            *)
LEMMA GetOrCreateKeeps ==
  ASSUME MountInv, NEW k \in Tasks, GetOrCreate(k)
  PROVE  MountInv'
<1> DEFINE t == task[k]
           n == task[k].path
           i == IF inoOf[n] = 0 THEN nextIno ELSE inoOf[n]
<1>1. /\ t.at = "got"
      /\ t.op \in {"lookup", "create", "mkdir"}
  BY DEF GetOrCreate
<1>2. /\ inoOf' = [inoOf EXCEPT ![n] = i] /\ pathOf' = [pathOf EXCEPT ![i] = n]
      /\ nextIno' = IF inoOf[n] = 0 THEN nextIno + 1 ELSE nextIno
      /\ task' = CASE t.op = "lookup" -> [task EXCEPT ![k].at = "put", ![k].ino = i]
                   [] t.op = "create" -> [task EXCEPT ![k].at = "drop", ![k].ino = i]
                   [] OTHER -> [task EXCEPT ![k] = NoTask]
      /\ UNCHANGED <<cache, nextId, toHost, toGuest, local, hostFds, nextHostFd, crossed>>
  BY DEF GetOrCreate, wireVars, hostVars
<1>3. task \in [Tasks -> TaskRecord] /\ t \in TaskRecord /\ ShapeOK(t)
  BY DEF MountInv, MountTypes, ShapesOK
<1>4. n \in Names
  BY <1>1, <1>3 DEF ShapeOK, Named
<1>5. Gets(n, i)
  BY <1>2 DEF Gets
<1>6. NeedsInode(t)
  BY <1>1 DEF NeedsInode
<1>7. i \in Inos
  <2>1. inoOf[n] \in MaybeInos /\ nextIno \in Nat \ {0} /\ MaxIno \in Nat
    BY <1>4, MountAssumption DEF MountInv, MountTypes
  <2>2. IsFiniteSet(Allocating) /\ k \in Allocating
    BY <1>6, MountAssumption, FS_Subset DEF Allocating
  <2>3. Cardinality(Allocating) \in Nat /\ Cardinality(Allocating) # 0
    BY <2>2, FS_CardinalityType, FS_EmptySet
  <2>4. nextIno + Cardinality(Allocating) <= MaxIno + 1
    BY DEF MountInv, Room
  <2> HIDE DEF n
  <2> QED
    BY <2>1, <2>3, <2>4 DEF MaybeInos, Inos
<1>8. ~NeedsInode(NoTask) /\ ~Puts(NoTask)
  BY NoTaskIs
<1> HIDE DEF i
<1>9. CASE t.op = "lookup"
  <2> DEFINE q == [t EXCEPT !.at = "put", !.ino = i]
  <2>1. task' = [task EXCEPT ![k] = q]
    BY <1>2, <1>3, <1>9
  <2>2. /\ q \in TaskRecord /\ q.at = "put" /\ q.ino = i /\ q.op = t.op /\ q.path = t.path
        /\ q.to = t.to /\ q.alone = t.alone
    BY <1>3, <1>7 DEF TaskRecord, Points, MaybeInos
  <2> HIDE DEF q
  <2>3. GoesOn(k, q) /\ ~NeedsInode(q)
    BY <2>1, <2>2 DEF GoesOn, NeedsInode
  <2>4. ShapeOK(q)
    BY <1>3, <1>7, <1>9, <2>2 DEF ShapeOK
  <2>5. \A f \in Nat : ~Holds(q, f)
    BY <2>2 DEF Holds
  <2>6. q.at # "remap" /\ q.path = n /\ q.ino = i
    BY <2>2
  <2> QED
    BY <1>2, <1>4, <1>5, <1>6, <2>2, <2>3, <2>4, <2>5, <2>6, GetsKeeps
<1>10. CASE t.op = "create"
  <2> DEFINE q == [t EXCEPT !.at = "drop", !.ino = i]
  <2>1. task' = [task EXCEPT ![k] = q]
    BY <1>2, <1>3, <1>10
  <2>2. /\ q \in TaskRecord /\ q.at = "drop" /\ q.ino = i /\ q.op = t.op /\ q.path = t.path
        /\ q.to = t.to /\ q.alone = t.alone /\ q.fd = t.fd
    BY <1>3, <1>7 DEF TaskRecord, Points, MaybeInos
  <2> HIDE DEF q
  <2>3. GoesOn(k, q) /\ ~NeedsInode(q)
    BY <2>1, <2>2 DEF GoesOn, NeedsInode
  <2>4. ShapeOK(q)
    BY <1>3, <1>7, <1>10, <2>2 DEF ShapeOK
  <2>5. \A f \in Nat : Holds(q, f) => Holds(task[k], f)
    BY <1>1, <1>10, <2>2 DEF Holds
  <2>6. q.at # "remap" /\ ~Puts(q)
    BY <1>10, <2>2 DEF Puts
  <2> QED
    BY <1>2, <1>4, <1>5, <1>6, <2>2, <2>3, <2>4, <2>5, <2>6, GetsKeeps
<1>11. CASE t.op = "mkdir"
  <2>1. task' = [task EXCEPT ![k] = NoTask]
    BY <1>2, <1>11
  <2>2. GoesOn(k, NoTask) /\ NoTask.at # "remap"
    BY <2>1, NoTaskIs DEF GoesOn
  <2> QED
    BY <1>2, <1>4, <1>5, <1>6, <1>8, <2>2, NoTaskIs, GetsKeeps
<1> QED
  BY <1>1, <1>9, <1>10, <1>11

(* A release is over; a directory read gives its new entry an inode.       *)
LEMMA FinishKeeps ==
  ASSUME MountInv, NEW k \in Tasks, Finish(k)
  PROVE  MountInv'
<1>1. /\ task' = [task EXCEPT ![k] = NoTask] /\ task[k].at = "got"
      /\ UNCHANGED <<cache, nextId, toHost, toGuest, local, hostFds, nextHostFd, crossed>>
  BY DEF Finish, wireVars, hostVars
<1>2. CASE UNCHANGED <<inoOf, pathOf, nextIno>>
  <2>1. CachesOwn(k)
    BY <1>1 DEF CachesOwn, MountInv, MountTypes
  <2> QED
    BY <1>1, <1>2, <2>1, OverKeeps
<1>3. CASE task[k].op = "readdir" /\ \E n \in Names : Gets(n, nextIno)
  <2>1. PICK n \in Names : Gets(n, nextIno)
    BY <1>3
  <2>2. GoesOn(k, NoTask) /\ NoTask.at # "remap"
    BY <1>1, NoTaskIs DEF GoesOn
  <2>3. NeedsInode(task[k])
    BY <1>1, <1>3 DEF NeedsInode
  <2> QED
    BY <1>1, <2>1, <2>2, <2>3, NoTaskIs, GetsKeeps
<1> QED
  BY <1>2, <1>3 DEF Finish, Gets, inodeVars

(* A removal or a rename: the inode of the name moves with it, and the one *)
(* at the destination is without a path.                                   *)
Moves(n, m, i) ==
  /\ inoOf' = [x \in Names |-> IF x = n THEN 0 ELSE IF x = m THEN i ELSE inoOf[x]]
  /\ pathOf' = [j \in Inos |-> IF j = i THEN m
                               ELSE IF m # NoName /\ pathOf[j] = m THEN NoName ELSE pathOf[j]]

(* The maps still agree, and every other name keeps its inode.             *)
LEMMA MovesInode ==
  ASSUME MountInv, NEW n \in Names, NEW m \in Paths, n # m, Moves(n, m, inoOf[n])
  PROVE  /\ inoOf' \in [Names -> MaybeInos] /\ pathOf' \in [Inos -> Paths]
         /\ \A x \in Inos : pathOf[x] \notin {NoName, n, m} => pathOf'[x] = pathOf[x]
         /\ \A x \in Names : inoOf'[x] \in {0, inoOf[n], inoOf[x]}
         /\ \A x \in Inos : x # inoOf[n] => pathOf'[x] \in {NoName, pathOf[x]}
         /\ InodesAgree'
<1> DEFINE i == inoOf[n]
<1>1. inoOf \in [Names -> MaybeInos] /\ pathOf \in [Inos -> Paths] /\ InodesAgree
  BY DEF MountInv, MountTypes
<1>2. i \in MaybeInos /\ (i # 0 => i \in Inos /\ pathOf[i] = n) /\ 0 \notin Inos
  BY <1>1 DEF InodesAgree, MaybeInos, Inos
<1>3. NoName \in Paths /\ n # NoName /\ Names \subseteq Paths /\ 0 \in MaybeInos
  BY MountAssumption DEF Paths, MaybeInos
<1> HIDE DEF i
<1>4. /\ inoOf' = [x \in Names |-> IF x = n THEN 0 ELSE IF x = m THEN i ELSE inoOf[x]]
      /\ pathOf' = [j \in Inos |-> IF j = i THEN m
                                   ELSE IF m # NoName /\ pathOf[j] = m THEN NoName ELSE pathOf[j]]
  BY DEF Moves, i
<1>5. inoOf' \in [Names -> MaybeInos] /\ pathOf' \in [Inos -> Paths]
  BY <1>1, <1>2, <1>3, <1>4
<1>6. \A x \in Inos : pathOf[x] \notin {NoName, n, m} => pathOf'[x] = pathOf[x]
  BY <1>2, <1>4
<1>7. \A x \in Names : inoOf'[x] \in {0, i, inoOf[x]}
  BY <1>4
<1>8. \A x \in Inos : x # i => pathOf'[x] \in {NoName, pathOf[x]}
  BY <1>4
<1>9. ASSUME NEW x \in Names, inoOf'[x] # 0
      PROVE  pathOf'[inoOf'[x]] = x
  <2>1. x # n
    BY <1>4, <1>9
  <2>2. CASE x = m
    <3>1. inoOf'[x] = i
      BY <1>4, <2>1, <2>2
    <3> QED
      BY <1>2, <1>4, <1>9, <2>2, <3>1
  <2>3. CASE x # m
    <3>1. inoOf'[x] = inoOf[x]
      BY <1>4, <2>1, <2>3
    <3>2. inoOf[x] \in Inos /\ pathOf[inoOf[x]] = x
      BY <1>1, <1>9, <3>1 DEF InodesAgree, MaybeInos
    <3>3. x \notin {NoName, n, m}
      BY <2>1, <2>3, MountAssumption
    <3> QED
      BY <1>6, <3>1, <3>2, <3>3
  <2> QED
    BY <2>2, <2>3
<1>10. ASSUME NEW x \in Inos, pathOf'[x] # NoName
       PROVE  inoOf'[pathOf'[x]] = x
  <2>1. CASE x = i
    <3>1. pathOf'[x] = m
      BY <1>4, <2>1
    <3>2. m \in Names /\ m # n
      BY <1>10, <3>1 DEF Paths
    <3> QED
      BY <1>4, <2>1, <3>1, <3>2
  <2>2. CASE x # i
    <3>1. pathOf'[x] = pathOf[x] /\ pathOf[x] # m
      BY <1>4, <1>10, <2>2
    <3>2. pathOf[x] \in Names /\ inoOf[pathOf[x]] = x
      BY <1>1, <1>10, <3>1 DEF InodesAgree, Paths
    <3>3. pathOf[x] # n
      BY <2>2, <3>2 DEF i
    <3> QED
      BY <1>4, <3>1, <3>2, <3>3
  <2> QED
    BY <2>1, <2>2
<1>11. InodesAgree'
  BY <1>9, <1>10 DEF InodesAgree
<1> QED
  BY <1>5, <1>6, <1>7, <1>8, <1>11 DEF i

(* A task alone on its names leaves no other with them, in the cache or on *)
(* its way there; one that is not makes them crossed.                      *)
LEMMA RemapPreserves ==
  ASSUME MountInv, NEW k \in Tasks, Remap(k)
  PROVE  MountInv'
<1> DEFINE t == task[k]
           n == task[k].path
           m == task[k].to
           i == inoOf[n]
<1>1. /\ t.at = "remap" /\ Moves(n, m, i)
      /\ crossed' = IF t.alone THEN crossed ELSE crossed \cup On(k)
      /\ task' = [task EXCEPT ![k] = NoTask]
      /\ UNCHANGED <<nextIno, cache, nextId, toHost, toGuest, local, hostFds, nextHostFd>>
  BY DEF Remap, Moves, wireVars, hostVars
<1>2. t \in TaskRecord /\ ShapeOK(t) /\ MountTypes
  BY DEF MountInv, MountTypes, ShapesOK
<1>3. n \in Names /\ m \in Paths /\ n # m
  <2>1. t.op \in {"unlink", "rename"} /\ n \in Names /\ m \in Paths
    BY <1>1, <1>2 DEF ShapeOK, Named, TaskRecord
  <2> QED
    BY <1>2, <2>1, MountAssumption DEF ShapeOK
<1>4. /\ inoOf' \in [Names -> MaybeInos] /\ pathOf' \in [Inos -> Paths]
      /\ \A x \in Inos : pathOf[x] \notin {NoName, n, m} => pathOf'[x] = pathOf[x]
      /\ \A x \in Names : inoOf'[x] \in {0, i, inoOf[x]}
      /\ \A x \in Inos : x # i => pathOf'[x] \in {NoName, pathOf[x]}
      /\ InodesAgree'
  BY <1>1, <1>3, MovesInode
<1>5. GoesOn(k, NoTask)
  BY <1>1, NoTaskIs DEF GoesOn
<1>6. ShapesOK' /\ AloneOnNames' /\ Allocating' \subseteq Allocating
  BY <1>5, NoTaskIs, GoesOnShapes
<1>7. task'[k] = NoTask /\ \A j \in Tasks : j # k => task'[j] = task[j]
  BY <1>1, NoTaskIs, OthersStay DEF MountInv
<1>8. On(k) = {n, m} \ {NoName}
  BY DEF On
<1>9. Room'
  <2>1. nextIno \in Nat /\ MaxIno \in Nat /\ nextIno # 0 /\ Room
    BY MountAssumption DEF MountInv, MountTypes
  <2>2. nextIno' + Cardinality(Allocating') <= MaxIno + 1
    BY <1>1, <1>6, <2>1, FewerNeed DEF Room
  <2>3. \A x \in Names : inoOf'[x] < nextIno
    BY <1>3, <1>4, <2>1 DEF Room
  <2>4. \A x \in Inos : x >= nextIno => x # i
    BY <1>3, <2>1 DEF Room, Inos
  <2>5. \A x \in Inos : x >= nextIno => pathOf'[x] = NoName
    BY <1>4, <2>1, <2>4 DEF Room
  <2> QED
    BY <1>1, <2>2, <2>3, <2>5 DEF Room
<1>10. CacheOK /\ AloneOnNames /\ cache \in [Names -> MaybeInos] /\ crossed \subseteq crossed'
  BY <1>1 DEF MountInv, MountTypes
<1>11. \A c \in Inos : pathOf[c] \in Names \ On(k) => pathOf'[c] = pathOf[c]
  BY <1>4, <1>8, MountAssumption
<1>12. \A x \in Names \ crossed' : cache[x] # 0 => pathOf'[cache[x]] = x
  <2> SUFFICES ASSUME NEW x \in Names \ crossed', cache[x] # 0
               PROVE  pathOf'[cache[x]] = x
    OBVIOUS
  <2>1. cache[x] \in Inos /\ pathOf[cache[x]] = x
    BY <1>10 DEF CacheOK, MaybeInos
  <2>2. x \notin On(k)
    <3>1. CASE t.alone
      BY <1>1, <1>10, <3>1 DEF CacheOK
    <3>2. CASE ~t.alone
      BY <1>1, <3>2
    <3> QED
      BY <3>1, <3>2
  <2> QED
    BY <1>11, <2>1, <2>2
<1>13. ASSUME NEW j \in Tasks, Puts(task'[j]), task'[j].path \notin crossed'
       PROVE  pathOf'[task'[j].ino] = task'[j].path
  <2>1. j # k /\ task'[j] = task[j]
    BY <1>7, <1>13, NoTaskIs
  <2>2. Puts(task[j]) /\ ShapeOK(task[j]) /\ task[j].path \notin crossed'
    BY <1>13, <2>1 DEF MountInv, ShapesOK
  <2>3. task[j].ino \in Inos /\ task[j].path \in Names
    BY <2>2 DEF Puts, ShapeOK, Named
  <2>4. pathOf[task[j].ino] = task[j].path
    BY <1>10, <2>2 DEF CacheOK
  <2>5. task[j].path \notin On(k)
    <3>1. task[j].path \in On(j)
      BY <2>3, MountAssumption DEF On
    <3>2. CASE t.alone
      BY <1>10, <2>1, <3>1, <3>2 DEF AloneOnNames
    <3>3. CASE ~t.alone
      BY <1>1, <2>2, <3>3
    <3> QED
      BY <3>2, <3>3
  <2> QED
    BY <1>11, <2>1, <2>3, <2>4, <2>5
<1>14. ASSUME NEW j \in Tasks, task'[j].alone, task'[j].at = "remap", NEW x \in On(j)'
       PROVE  cache[x] = 0
  <2>1. j # k
    BY <1>7, <1>14, NoTaskIs
  <2>2. task[j].alone /\ task[j].at = "remap" /\ x \in On(j)
    BY <1>7, <1>14, <2>1 DEF On
  <2> QED
    BY <1>10, <2>2 DEF CacheOK
<1>15. CacheOK'
  BY <1>1, <1>12, <1>13, <1>14 DEF CacheOK
<1>16. IdsOK' /\ FdsOK'
  BY <1>1, <1>5, NoTaskIs, GoesOnIds, GoesOnFds
<1>17. MountTypes'
  <2>1. task' \in [Tasks -> TaskRecord]
    BY <1>1, NoTaskIs, OthersStay DEF MountInv
  <2> QED
    BY <1>1, <1>2, <1>4, <2>1 DEF MountTypes
<1> QED
  BY <1>4, <1>6, <1>9, <1>15, <1>16, <1>17 DEF MountInv

-----------------------------------------------------------------------------
(* The theorem                                                             *)

(* Every initial state satisfies the invariant.                            *)
LEMMA MountInvInit == MountInit => MountInv
<1> SUFFICES ASSUME MountInit
             PROVE  MountInv
  OBVIOUS
<1>1. /\ task = [k \in Tasks |-> NoTask] /\ inoOf = [n \in Names |-> 0] /\ nextIno = 1
      /\ pathOf = [i \in Inos |-> NoName] /\ cache = [n \in Names |-> 0] /\ nextId = 1
      /\ toHost = <<>> /\ toGuest = <<>> /\ local = {} /\ hostFds = {} /\ nextHostFd = 1
  BY DEF MountInit
<1>2. MountTypes
  BY <1>1, NoTaskIs DEF MountTypes, MaybeInos, Paths
<1>3. ShapesOK /\ AloneOnNames /\ CacheOK
  BY <1>1, NoTaskIs DEF ShapesOK, AloneOnNames, CacheOK, On, Inos
<1>4. Room
  <2>1. Allocating = {}
    BY <1>1, NoTaskIs DEF Allocating
  <2>2. Cardinality(Allocating) = 0
    BY <2>1, FS_EmptySet
  <2> QED
    BY <1>1, <2>2, MountAssumption DEF Room
<1>5. InodesAgree
  BY <1>1 DEF InodesAgree
<1>6. IdsOK /\ FdsOK
  BY <1>1, NoTaskIs DEF IdsOK, FdsOK
<1> QED
  BY <1>2, <1>3, <1>4, <1>5, <1>6 DEF MountInv

(* Every step keeps it.                                                    *)
LEMMA MountInvStep == MountInv /\ [MountNext]_mountVars => MountInv'
<1> SUFFICES ASSUME MountInv, [MountNext]_mountVars
             PROVE  MountInv'
  OBVIOUS
<1>1. CASE UNCHANGED mountVars
  <2>1. UNCHANGED <<task, inoOf, pathOf, nextIno, cache, nextId, toHost, toGuest, local, hostFds,
                    nextHostFd, crossed>>
    BY <1>1 DEF mountVars
  <2>2. ShapesOK' /\ Room' /\ InodesAgree' /\ AloneOnNames' /\ CacheOK'
    BY <2>1, ForgettingKeeps
  <2>3. MountTypes' /\ IdsOK' /\ FdsOK'
    BY <2>1 DEF MountInv, MountTypes, IdsOK, FdsOK
  <2> QED
    BY <2>2, <2>3 DEF MountInv
<1>2. ASSUME NEW k \in Tasks,
             \/ \E n \in Names : Lookup(k, n) \/ Create(k, n) \/ Mkdir(k, n) \/ Unlink(k, n)
             \/ \E n, m \in Names : Rename(k, n, m)
             \/ \E i \in Inos : Getattr(k, i) \/ OpenFile(k, i) \/ Setattr(k, i)
             \/ \E fd \in local : Release(k, fd) \/ Readdir(k, fd)
                                  \/ (\E i \in Inos : WriteFile(k, fd, i))
      PROVE  MountInv'
  BY <1>2, KernelKeeps
<1>3. ASSUME NEW k \in Tasks, Answers(k)
      PROVE  MountInv'
  BY <1>3, GetOrCreateKeeps, PutAttrKeeps, InvalidateKeeps, StatAfterKeeps, RemapPreserves,
     AllocateKeeps, FinishKeeps DEF Answers
<1>4. ASSUME NEW k \in Tasks, Timeout(k)
      PROVE  MountInv'
  BY <1>4, TimeoutKeeps
<1>5. CASE HostAnswers \/ Deliver \/ LinkDies
  BY <1>5, HostAnswersKeeps, DeliverKeeps, LinkDiesKeeps
<1>6. CASE ClearCache \/ \E n \in Names : Expire(n)
  BY <1>6, CacheForgets
<1> QED
  BY <1>1, <1>2, <1>3, <1>4, <1>5, <1>6 DEF MountNext

(* The parts of the property.                                              *)
LEMMA MountInvGives == MountInv => MountSafe
<1> SUFFICES ASSUME MountInv
             PROVE  MountSafe
  OBVIOUS
<1>1. InodesAgree
  BY DEF MountInv
<1>2. CachedInodesAgree
  BY DEF MountInv, CacheOK, CachedInodesAgree
<1>3. AnswersMatch
  <2> SUFFICES ASSUME NEW k \in Tasks, task[k].at = "got"
               PROVE  task[k].got = CASE task[k].op \in {"lookup", "getattr"} -> "stat"
                                      [] task[k].op = "unlink" -> "remove"
                                      [] task[k].op = "release" -> "close"
                                      [] task[k].op = "setattr" ->
                                           IF task[k].got = "stat" THEN "stat" ELSE "truncate"
                                      [] task[k].op = "mkdir" ->
                                           IF task[k].got = "stat" THEN "stat" ELSE "mkdir"
                                      [] OTHER -> task[k].op
    BY DEF AnswersMatch
  <2>1. Asks(task[k].op, task[k].got)
    BY DEF MountInv, ShapesOK, ShapeOK
  <2> QED
    BY <2>1 DEF Asks
<1>4. LocalHandlesOpen
  BY DEF MountInv, FdsOK, LocalHandlesOpen
<1> QED
  BY <1>1, <1>2, <1>3, <1>4 DEF MountSafe

(* Whatever operations overlap, time out or lose the stream: the two maps  *)
(* of the inode map are each other's inverse, a cached attribute carries   *)
(* the inode its path has (unless the path was remapped under another      *)
(* operation), every operation goes on with the answer to its own request, *)
(* and the handles the kernel has are open on the host.                    *)
THEOREM MountIsSafe == MountSpec => []MountSafe
<1>1. MountSpec => []MountInv
  BY MountInvInit, MountInvStep, PTL DEF MountSpec
<1> QED
  BY <1>1, MountInvGives, PTL
=============================================================================
