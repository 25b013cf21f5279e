---------------------------- MODULE GuestMount -----------------------------
(***************************************************************************)
(* The VM's side of a shared directory: FUSE operations, each a task of its *)
(* own, the dispatcher that matches answers to requests, the inode map, the  *)
(* attribute cache and the table of file handles.                           *)
(*                                                                         *)
(* Paths are names in the mount's root; the host answers in order (HostShare *)
(* models it).  A lock taken and released is one step.                      *)
(***************************************************************************)
EXTENDS Naturals, Sequences, FiniteSets

CONSTANTS
    Names, NoName, Tasks,
    MaxIno,     \* bound: inode numbers
    MaxReq      \* bound: requests sent

ASSUME MountAssumption ==
    NoName \notin Names /\ IsFiniteSet(Tasks) /\ MaxIno \in Nat /\ MaxReq \in Nat

VARIABLES
    task,           \* operations in progress
    inoOf, pathOf,  \* InodeMap: path_to_ino (0: none), ino_to_path
    nextIno,
    cache,          \* attr_cache: the inode in the cached attribute, or 0
    waiting,        \* dispatcher.pending: request ids
    nextId,
    toHost, toGuest,
    local,          \* remote fds in local_to_remote
    present,        \* the host's files
    hostFds, nextHostFd,
    linked,         \* the stream is up
    crossed         \* ghost: paths that were remapped while another operation was on them

mountVars == <<task, inoOf, pathOf, nextIno, cache, waiting, nextId, toHost, toGuest,
               local, present, hostFds, nextHostFd, linked, crossed>>
inodeVars == <<inoOf, pathOf, nextIno>>
hostVars  == <<present, hostFds, nextHostFd>>
wireVars  == <<waiting, nextId, toHost, toGuest, linked>>

Inos == 1..MaxIno
NoTask == [op |-> "none", at |-> "idle", path |-> NoName, to |-> NoName, ino |-> 0, id |-> 0,
           got |-> "none", fd |-> 0, alone |-> TRUE]

MountInit ==
    /\ task = [k \in Tasks |-> NoTask]
    /\ inoOf = [n \in Names |-> 0] /\ pathOf = [i \in Inos |-> NoName] /\ nextIno = 1
    /\ cache = [n \in Names |-> 0]
    /\ waiting = {} /\ nextId = 1 /\ toHost = <<>> /\ toGuest = <<>>
    /\ local = {}
    /\ present \in {{}, Names} /\ hostFds = {} /\ nextHostFd = 1
    /\ linked = TRUE /\ crossed = {}

On(k) == {task[k].path, task[k].to} \ {NoName}

\* A request and an answer on the stream, and the next one to be decoded.
Request(rec, what) == [id |-> nextId, what |-> what, path |-> rec.path, to |-> rec.to, fd |-> rec.fd]
Response(q, ok, fd) == [id |-> q.id, ok |-> ok, what |-> q.what, fd |-> fd]
NextRequest == Head(toHost)
NextResponse == Head(toGuest)

\* send_request: an id, an entry in pending, the request on the stream; a
\* stream that is down is an error for the kernel.
Send(k, rec, what) ==
    /\ nextId' = nextId + 1
    /\ LET on == {rec.path, rec.to} \ {NoName}
           meet == {j \in Tasks \ {k} : On(j) \cap on # {}}
           mine == [rec EXCEPT !.at = "sent", !.id = nextId, !.alone = @ /\ meet = {}]
           marked == [j \in Tasks |-> IF j \in meet THEN [task[j] EXCEPT !.alone = FALSE] ELSE task[j]]
       IN IF linked
          THEN /\ task' = [marked EXCEPT ![k] = mine]
               /\ waiting' = waiting \cup {nextId}
               /\ toHost' = Append(toHost, Request(rec, what))
          ELSE /\ task' = [task EXCEPT ![k] = NoTask]
               /\ UNCHANGED <<waiting, toHost>>
    /\ UNCHANGED <<toGuest, linked>>

-----------------------------------------------------------------------------
(* Operations of the kernel.  A name or an inode without what it needs is   *)
(* answered at once, and so are a cached attribute and an operation on a    *)
(* stream that is down.                                                     *)

Begin(k, op, rec, what) ==
    /\ task[k].at = "idle" /\ linked
    /\ nextId <= MaxReq
    /\ op \in {"lookup", "create", "mkdir", "readdir"} =>
          nextIno + Cardinality({j \in Tasks : task[j].at # "idle"}) <= MaxIno
    /\ Send(k, [rec EXCEPT !.op = op], what)
    /\ UNCHANGED <<inodeVars, cache, hostVars, crossed>>

Lookup(k, n) ==
    /\ cache[n] = 0
    /\ Begin(k, "lookup", [NoTask EXCEPT !.path = n], "stat")
    /\ UNCHANGED local

Known(i) == i < nextIno /\ pathOf[i] # NoName

Getattr(k, i) ==
    /\ Known(i) /\ cache[pathOf[i]] = 0
    /\ Begin(k, "getattr", [NoTask EXCEPT !.path = pathOf[i], !.ino = i], "stat")
    /\ UNCHANGED local

\* With a size; without one it is a getattr that does not ask the cache.
Setattr(k, i) ==
    /\ Known(i)
    /\ Begin(k, "setattr", [NoTask EXCEPT !.path = pathOf[i], !.ino = i], "truncate")
    /\ UNCHANGED local

\* open and opendir.
OpenFile(k, i) ==
    /\ Known(i)
    /\ Begin(k, "open", [NoTask EXCEPT !.path = pathOf[i]], "open")
    /\ UNCHANGED local

Create(k, n) == Begin(k, "create", [NoTask EXCEPT !.path = n], "create") /\ UNCHANGED local

Mkdir(k, n) == Begin(k, "mkdir", [NoTask EXCEPT !.path = n], "mkdir") /\ UNCHANGED local

\* unlink and rmdir.
Unlink(k, n) == Begin(k, "unlink", [NoTask EXCEPT !.path = n], "remove") /\ UNCHANGED local

Rename(k, n, m) ==
    /\ n # m
    /\ Begin(k, "rename", [NoTask EXCEPT !.path = n, !.to = m], "rename")
    /\ UNCHANGED local

\* release and releasedir: the table forgets the handle before the host does.
Release(k, fd) ==
    /\ fd \in local
    /\ local' = local \ {fd}
    /\ Begin(k, "release", [NoTask EXCEPT !.fd = fd], "close")

WriteFile(k, fd, i) ==
    /\ fd \in local /\ i < nextIno
    /\ Begin(k, "write", [NoTask EXCEPT !.fd = fd, !.ino = i], "write")
    /\ UNCHANGED local

\* Reads of a directory are not served from its cache here.
Readdir(k, fd) ==
    /\ fd \in local
    /\ Begin(k, "readdir", [NoTask EXCEPT !.fd = fd], "readdir")
    /\ UNCHANGED local

-----------------------------------------------------------------------------
(* The host and the stream. *)

HostAnswers ==
    /\ linked /\ toHost # <<>>
    /\ LET q == NextRequest
           ok == CASE q.what \in {"stat", "open", "remove", "truncate", "rename"} -> q.path \in present
                   [] q.what = "mkdir" -> q.path \notin present
                   [] OTHER -> TRUE
           opens == ok /\ q.what \in {"open", "create"}
       IN /\ present' = IF ~ok THEN present
                        ELSE CASE q.what \in {"create", "mkdir"} -> present \cup {q.path}
                               [] q.what = "remove" -> present \ {q.path}
                               [] q.what = "rename" -> (present \ {q.path}) \cup {q.to}
                               [] OTHER -> present
          /\ hostFds' = IF opens THEN hostFds \cup {nextHostFd}
                        ELSE IF q.what = "close" THEN hostFds \ {q.fd} ELSE hostFds
          /\ nextHostFd' = IF opens THEN nextHostFd + 1 ELSE nextHostFd
          /\ toGuest' = Append(toGuest, Response(q, ok, IF opens THEN nextHostFd ELSE 0))
    /\ toHost' = Tail(toHost)
    /\ UNCHANGED <<task, inodeVars, cache, waiting, nextId, local, linked, crossed>>

\* handle_message: an answer nobody waits for is dropped, and with it the fd
\* of an open that timed out.
Deliver ==
    /\ linked /\ toGuest # <<>>
    /\ LET m == NextResponse IN
       /\ waiting' = waiting \ {m.id}
       /\ task' = [k \in Tasks |->
             IF m.id \in waiting /\ task[k].at = "sent" /\ task[k].id = m.id
             THEN IF m.ok THEN [task[k] EXCEPT !.at = "got", !.id = 0, !.got = m.what, !.fd = IF m.fd # 0 THEN m.fd ELSE @]
                          ELSE NoTask
             ELSE task[k]]
    /\ toGuest' = Tail(toGuest)
    /\ UNCHANGED <<inodeVars, cache, nextId, toHost, local, hostVars, linked, crossed>>

\* PathChanged or InvalidateCache has come: a task of its own clears the cache.
ClearCache ==
    /\ linked /\ \E n \in Names : cache[n] # 0
    /\ cache' = [n \in Names |-> 0]
    /\ UNCHANGED <<task, inodeVars, wireVars, local, hostVars, crossed>>

Expire(n) ==
    /\ cache[n] # 0
    /\ cache' = [cache EXCEPT ![n] = 0]
    /\ UNCHANGED <<task, inodeVars, wireVars, local, hostVars, crossed>>

\* fault: a request whose answer does not come waits on
TimeoutNever(k) == FALSE /\ UNCHANGED mountVars

Timeout(k) ==
    /\ task[k].at = "sent"
    /\ waiting' = waiting \ {task[k].id}
    /\ task' = [task EXCEPT ![k] = NoTask]
    /\ UNCHANGED <<inodeVars, cache, nextId, toHost, toGuest, local, hostVars, linked, crossed>>

LinkDies ==
    /\ linked
    /\ linked' = FALSE /\ toHost' = <<>> /\ toGuest' = <<>>
    /\ UNCHANGED <<task, inodeVars, cache, waiting, nextId, local, hostVars, crossed>>

-----------------------------------------------------------------------------
(* What an operation does with its answer. *)

Goto(k, at) == [task EXCEPT ![k].at = at]

\* get_or_create, for a lookup, a create and a directory that mkdir has made.
GetOrCreate(k) ==
    /\ \/ task[k].at = "got" /\ task[k].op \in {"lookup", "create"}
       \/ task[k].at = "got" /\ task[k].op = "mkdir" /\ task[k].got = "stat"
    /\ LET n == task[k].path
           new == inoOf[n] = 0
           i == IF new THEN nextIno ELSE inoOf[n]
       IN /\ inoOf' = [inoOf EXCEPT ![n] = i] /\ pathOf' = [pathOf EXCEPT ![i] = n]
          /\ nextIno' = IF new THEN nextIno + 1 ELSE nextIno
          /\ task' = CASE task[k].op = "lookup" -> [task EXCEPT ![k].at = "put", ![k].ino = i]
                       [] task[k].op = "create" -> [task EXCEPT ![k].at = "drop", ![k].ino = i]
                       [] OTHER -> [task EXCEPT ![k] = NoTask]
    /\ UNCHANGED <<cache, wireVars, local, hostVars, crossed>>

\* put_attr with the inode of the lookup, or the one the operation began with.
PutAttr(k) ==
    /\ \/ task[k].at = "put"
       \/ task[k].at = "got" /\ task[k].op \in {"getattr", "setattr"} /\ task[k].got = "stat"
    /\ cache' = [cache EXCEPT ![task[k].path] = task[k].ino]
    /\ task' = [task EXCEPT ![k] = NoTask]
    /\ UNCHANGED <<inodeVars, wireVars, local, hostVars, crossed>>

\* The paths of the operation, or the one its inode has now.
Gone(k) == IF task[k].op = "write" THEN {pathOf[task[k].ino]} ELSE On(k)

\* invalidate and invalidate_with_parent.
Invalidate(k) ==
    /\ LET t == task[k] IN
       /\ \/ t.at = "drop"
          \/ t.at = "got" /\ t.op \in {"unlink", "rename", "write"}
          \/ t.at = "got" /\ t.op \in {"mkdir", "setattr"} /\ t.got # "stat"
       /\ cache' = [n \in Names |-> IF n \in Gone(k) THEN 0 ELSE cache[n]]
       /\ task' = CASE t.op \in {"unlink", "rename"} -> Goto(k, "remap")
                    [] t.op = "create" -> Goto(k, "handle")
                    [] t.op = "write" -> [task EXCEPT ![k] = NoTask]
                    [] OTHER -> Goto(k, "again")
    /\ UNCHANGED <<inodeVars, wireVars, local, hostVars, crossed>>

\* mkdir and setattr ask for the attributes.
StatAfter(k) ==
    /\ task[k].at = "again"
    /\ Send(k, task[k], "stat")
    /\ UNCHANGED <<inodeVars, cache, local, hostVars, crossed>>

\* fault: the inode that had the destination keeps its path
RemapKeeps(k) ==
    /\ task[k].at = "remap" /\ task[k].op = "rename"
    /\ LET n == task[k].path
           i == inoOf[n]
       IN /\ inoOf' = [inoOf EXCEPT ![n] = 0, ![task[k].to] = i]
          /\ pathOf' = [j \in Inos |-> IF j = i THEN task[k].to ELSE pathOf[j]]
    /\ task' = [task EXCEPT ![k] = NoTask]
    /\ UNCHANGED <<nextIno, cache, wireVars, local, hostVars, crossed>>

\* InodeMap's remove, and its rename, which drops the inode at the destination.
Remap(k) ==
    /\ task[k].at = "remap"
    /\ LET n == task[k].path
           i == inoOf[n]
           m == task[k].to
       IN /\ inoOf' = [x \in Names |-> IF x = n THEN 0 ELSE IF x = m THEN i ELSE inoOf[x]]
          /\ pathOf' = [j \in Inos |-> IF j = i THEN m
                                       ELSE IF m # NoName /\ pathOf[j] = m THEN NoName ELSE pathOf[j]]
    /\ crossed' = IF task[k].alone THEN crossed ELSE crossed \cup On(k)
    /\ task' = [task EXCEPT ![k] = NoTask]
    /\ UNCHANGED <<nextIno, cache, wireVars, local, hostVars>>

Allocate(k) ==
    /\ \/ task[k].at = "handle"
       \/ task[k].at = "got" /\ task[k].op = "open"
    /\ local' = local \cup {task[k].fd}
    /\ task' = [task EXCEPT ![k] = NoTask]
    /\ UNCHANGED <<inodeVars, cache, wireVars, hostVars, crossed>>

\* An answer to a release is the end of it; a readdir gives each entry an inode,
\* and one of them at most is new.
Finish(k) ==
    /\ task[k].at = "got"
    /\ \/ task[k].op \in {"release", "readdir"} /\ UNCHANGED inodeVars
       \/ /\ task[k].op = "readdir"
          /\ \E n \in Names :
                /\ inoOf[n] = 0
                /\ inoOf' = [inoOf EXCEPT ![n] = nextIno] /\ pathOf' = [pathOf EXCEPT ![nextIno] = n]
          /\ nextIno' = nextIno + 1
    /\ task' = [task EXCEPT ![k] = NoTask]
    /\ UNCHANGED <<cache, wireVars, local, hostVars, crossed>>

Answers(k) == GetOrCreate(k) \/ PutAttr(k) \/ Invalidate(k) \/ StatAfter(k) \/ Remap(k) \/ Allocate(k) \/ Finish(k)

MountNext ==
    \/ \E k \in Tasks :
          \/ \E n \in Names : Lookup(k, n) \/ Create(k, n) \/ Mkdir(k, n) \/ Unlink(k, n)
          \/ \E n, m \in Names : Rename(k, n, m)
          \/ \E i \in Inos : Getattr(k, i) \/ OpenFile(k, i) \/ Setattr(k, i)
          \/ \E fd \in local : Release(k, fd) \/ Readdir(k, fd) \/ (\E i \in Inos : WriteFile(k, fd, i))
          \/ Answers(k) \/ Timeout(k)
    \/ HostAnswers \/ Deliver \/ ClearCache \/ LinkDies
    \/ \E n \in Names : Expire(n)

\* A task that can go on does, and a request's timer fires.
MountFairness == \A k \in Tasks : WF_mountVars(Answers(k)) /\ WF_mountVars(Timeout(k))

MountSpec == MountInit /\ [][MountNext]_mountVars /\ MountFairness

-----------------------------------------------------------------------------
\* The two maps of the InodeMap are each other's inverse, through lookups,
\* creates, removals and renames over an existing path, whatever overlaps.
InodesAgree ==
    /\ \A n \in Names : inoOf[n] # 0 => pathOf[inoOf[n]] = n
    /\ \A i \in Inos : pathOf[i] # NoName => inoOf[pathOf[i]] = i

\* A cached attribute carries the inode its path has: a lookup that it answers
\* leads to the file of that name.  Excepted are paths that were unlinked or
\* renamed while another operation was under way on them: its late put_attr
\* brings a dead or moved inode back for the cache's five seconds.
CachedInodesAgree ==
    \A n \in Names \ crossed :
        (cache[n] # 0 /\ \A k \in Tasks : n \notin On(k)) => pathOf[cache[n]] = n

\* An operation goes on with the answer to its own request, never with that
\* of one that timed out: an fd it takes was opened for its path.
AnswersMatch ==
    \A k \in Tasks : task[k].at = "got" =>
        task[k].got = CASE task[k].op \in {"lookup", "getattr"} -> "stat"
                        [] task[k].op = "unlink" -> "remove"
                        [] task[k].op = "release" -> "close"
                        [] task[k].op = "setattr" -> IF task[k].got = "stat" THEN "stat" ELSE "truncate"
                        [] task[k].op = "mkdir" -> IF task[k].got = "stat" THEN "stat" ELSE "mkdir"
                        [] OTHER -> task[k].op

\* A handle the kernel may use is open on the host: it is dropped here before
\* the close is sent.
LocalHandlesOpen == local \subseteq hostFds

\* Every operation of the kernel is answered, also when the host stalls or the
\* stream is gone.
EveryOpReplies == \A k \in Tasks : (task[k].at # "idle") ~> (task[k].at = "idle")

\* The VM's side of a share: inodes and paths agree, in the cache too, every
\* operation goes on with its own answer, and the handles the kernel has are open.
MountSafe == InodesAgree /\ CachedInodesAgree /\ AnswersMatch /\ LocalHandlesOpen
=============================================================================
