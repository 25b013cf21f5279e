----------------------------- MODULE StoreLogin -----------------------------
(***************************************************************************)
(* The store session of the host (store/auth.rs, store/client.rs): login   *)
(* by polling, the access token in memory, the refresh token in keys.db,   *)
(* refreshes by whoever finds the access token expired or refused, logout, *)
(* and the restore at the first use after a start.                         *)
(*                                                                         *)
(* A refresh token is the number of its issue, an access token that of the *)
(* answer it came with; 0 is no token.  The store is external: it accepts  *)
(* the tokens in valid and, when it rotates, each of them once.            *)
(***************************************************************************)
EXTENDS Naturals, FiniteSets

CONSTANTS Tasks,       \* the tasks that may work on the session
          MaxIssued,   \* bound: tokens the store issues
          MaxRestarts  \* bound: restarts of the host process

VARIABLES valid, issued, rotates,  \* the store
          access,     \* access_token, in memory
          db,         \* the refresh token in keys.db
          legacy,     \* the refresh token in the file older versions wrote
          restored,   \* restore_once has run
          cancel,     \* login_cancel, one flag for all pollers
          task,       \* the tasks
          leaving,    \* a logout has cleared the memory and not yet keys.db
          out,        \* logged out, and no login begun since
          late,       \* a task was under way when that logout was
          lossy,      \* an answer, a write or a race may have cost the session
          restarts

loginVars == <<valid, issued, rotates, access, db, legacy, restored, cancel, task, leaving, out,
               late, lossy, restarts>>

Idle == [kind |-> "none", pc |-> "idle", tok |-> 0]

LoginInit ==
  /\ issued = 1 /\ rotates \in BOOLEAN
  /\ legacy \in {0, 1} /\ valid = {1} \cap {legacy}
  /\ access = 0 /\ db = 0 /\ restored = FALSE /\ cancel = FALSE
  /\ task = [t \in Tasks |-> Idle]
  /\ leaving = FALSE /\ out = FALSE /\ late = FALSE /\ lossy = FALSE /\ restarts = 0

Busy == {t \in Tasks : task[t].pc # "idle"}
Be(t, pc) == task' = [task EXCEPT ![t].pc = pc]
End(t) == task' = [task EXCEPT ![t] = Idle]
Store == <<valid, issued, rotates>>
Notes == <<leaving, restarts>>

----------------------------------------------------------------------------
(* Login: begin_login with its background poller, and the blocking login.  *)

\* The session is made and the poller started; the shared flag is reset.
BeginLogin(t, kind) ==
  /\ task[t].pc = "idle" /\ issued < MaxIssued
  /\ task' = [task EXCEPT ![t] = [kind |-> kind, pc |-> "poll", tok |-> 0]]
  /\ cancel' = IF kind = "background" THEN FALSE ELSE cancel
  /\ out' = FALSE /\ late' = (late \/ leaving)
  /\ UNCHANGED <<Store, Notes, access, db, legacy, restored, lossy>>

\* cancel_login
CancelLogin ==
  /\ ~cancel
  /\ cancel' = TRUE
  /\ UNCHANGED <<Store, Notes, access, db, legacy, restored, task, out, late, lossy>>

\* The user has authorized: the store answers with tokens.
Authorized(t) ==
  /\ issued < MaxIssued
  /\ issued' = issued + 1 /\ valid' = valid \cup {issued + 1}
  /\ task' = [task EXCEPT ![t].pc = "mem", ![t].tok = issued + 1]
  /\ UNCHANGED rotates

\* One round of the background task: cancelled, past the deadline or session
\* gone; or tokens.  (A pending or failed round changes nothing.)
PollBackground(t) ==
  /\ task[t].pc = "poll" /\ task[t].kind = "background"
  /\ \/ End(t) /\ UNCHANGED <<Store>>
     \/ ~cancel /\ Authorized(t)
  /\ UNCHANGED <<Notes, access, db, legacy, restored, cancel, out, late, lossy>>

\* One round of login(), which nothing cancels.
PollBlocking(t) ==
  /\ task[t].pc = "poll" /\ task[t].kind = "blocking"
  /\ \/ End(t) /\ UNCHANGED <<Store>>
     \/ Authorized(t)
  /\ UNCHANGED <<Notes, access, db, legacy, restored, cancel, out, late, lossy>>

----------------------------------------------------------------------------
(* Refresh and restore.                                                    *)

\* refresh reads keys.db; without a token it is an error and nothing more.
BeginRefresh(t) ==
  /\ task[t].pc = "idle" /\ db # 0 /\ issued < MaxIssued
  /\ task' = [task EXCEPT ![t] = [kind |-> "refresh", pc |-> "send", tok |-> db]]
  /\ lossy' = (lossy \/ Busy # {}) /\ late' = (late \/ leaving)
  /\ UNCHANGED <<Store, Notes, access, db, legacy, restored, cancel, out>>

\* access_token refreshes a token whose exp is near; it does not when there is none.
RefreshNearExpiry(t) == access # 0 /\ BeginRefresh(t)

\* A request that was refused with 401 refreshes whatever its token was.
RefreshUnauthorized(t) == BeginRefresh(t)

\* ensure_restored, at most once per process: the token of keys.db, or that of
\* the legacy file, which is moved to keys.db and removed (even when the write
\* fails).
BeginRestore(t) ==
  /\ task[t].pc = "idle" /\ ~restored /\ issued < MaxIssued
  /\ restored' = TRUE
  /\ \/ db = 0 /\ legacy = 0 /\ UNCHANGED <<db, legacy, task, late, lossy>>
     \/ /\ db # 0
        /\ task' = [task EXCEPT ![t] = [kind |-> "restore", pc |-> "send", tok |-> db]]
        /\ lossy' = (lossy \/ Busy # {}) /\ late' = (late \/ leaving)
        /\ UNCHANGED <<db, legacy>>
     \/ /\ db = 0 /\ legacy # 0
        /\ db' \in {legacy, 0} /\ legacy' = 0
        /\ task' = [task EXCEPT ![t] = [kind |-> "restore", pc |-> "send", tok |-> legacy]]
        /\ lossy' = (lossy \/ Busy # {}) /\ late' = (late \/ leaving)
  /\ UNCHANGED <<Store, Notes, access, cancel, out>>

\* The store answers POST /auth/refresh: new tokens, a refusal, or the request or
\* its answer is lost.
Answer(t) ==
  LET known == task[t].tok \in valid IN
  /\ task[t].pc = "send"
  /\ \/ /\ known /\ issued < MaxIssued
        /\ issued' = issued + 1
        /\ valid' = (IF rotates THEN valid \ {task[t].tok} ELSE valid) \cup {issued + 1}
        /\ \/ task' = [task EXCEPT ![t].pc = "mem", ![t].tok = issued + 1] /\ UNCHANGED lossy
           \/ End(t) /\ lossy' = TRUE
        /\ UNCHANGED rotates
     \/ ~known /\ Be(t, "refused") /\ UNCHANGED <<Store, lossy>>
     \/ End(t) /\ UNCHANGED <<Store, lossy>>
  /\ UNCHANGED <<Notes, access, db, legacy, restored, cancel, out, late>>

\* fault: only the access token is replaced.
SavesNothing(t) == db

\* store_tokens writes the refresh token to keys.db.
Saves(t) == task[t].tok

\* The access token first, in memory ...
StoreMem(t) ==
  /\ task[t].pc = "mem"
  /\ access' = task[t].tok
  /\ Be(t, "db")
  /\ UNCHANGED <<Store, Notes, db, legacy, restored, cancel, out, late, lossy>>

\* ... then the refresh token in keys.db; the write may fail, with a warning or
\* an error, and the access token stays.
StoreDb(t) ==
  /\ task[t].pc = "db"
  /\ \/ db' = Saves(t) /\ UNCHANGED lossy
     \/ UNCHANGED db /\ lossy' = TRUE
  /\ End(t)
  /\ UNCHANGED <<Store, Notes, access, legacy, restored, cancel, out, late>>

\* A refused refresh clears everything, memory first; a refused restore nothing.
Refused(t) ==
  /\ task[t].pc = "refused"
  /\ \/ task[t].kind = "restore" /\ End(t) /\ UNCHANGED access
     \/ task[t].kind = "refresh" /\ access' = 0 /\ Be(t, "clear")
  /\ UNCHANGED <<Store, Notes, db, legacy, restored, cancel, out, late, lossy>>

RefusedClears(t) ==
  /\ task[t].pc = "clear"
  /\ db' = 0 /\ End(t)
  /\ UNCHANGED <<Store, Notes, access, legacy, restored, cancel, out, late, lossy>>

----------------------------------------------------------------------------
\* logout clears the memory ...
Logout ==
  /\ ~leaving /\ ~out
  /\ access' = 0 /\ leaving' = TRUE
  /\ late' = (Busy # {} \/ legacy # 0)
  /\ UNCHANGED <<Store, db, legacy, restored, cancel, task, out, lossy, restarts>>

\* What is in keys.db after clear_tokens.
CleansDb == 0

\* ... and then keys.db.
LogoutDb ==
  /\ leaving
  /\ db' = CleansDb /\ leaving' = FALSE
  /\ out' = TRUE /\ late' = (late \/ Busy # {}) /\ lossy' = (lossy \/ late')
  /\ UNCHANGED <<Store, access, legacy, restored, cancel, task, restarts>>

\* The process ends and starts again: memory and tasks are gone.
Restart ==
  /\ restarts < MaxRestarts
  /\ restarts' = restarts + 1
  /\ access' = 0 /\ restored' = FALSE /\ cancel' = FALSE /\ leaving' = FALSE
  /\ task' = [t \in Tasks |-> Idle]
  /\ lossy' = (lossy \/ Busy # {})
  /\ UNCHANGED <<Store, db, legacy, out, late>>

LoginNext ==
  \/ CancelLogin \/ Logout \/ LogoutDb \/ Restart
  \/ \E t \in Tasks :
       \/ \E kind \in {"background", "blocking"} : BeginLogin(t, kind)
       \/ PollBackground(t) \/ PollBlocking(t)
       \/ RefreshNearExpiry(t) \/ RefreshUnauthorized(t) \/ BeginRestore(t) \/ Answer(t)
       \/ StoreMem(t) \/ StoreDb(t) \/ Refused(t) \/ RefusedClears(t)

----------------------------------------------------------------------------
\* Logging out ends the session: until the next login there is no access token
\* and nothing in keys.db to restore one from, over restarts too, unless a login
\* or a refresh was under way when the user logged out.
LogoutHolds == out /\ ~late => access = 0 /\ db = 0

\* A session that is in use can be renewed and restored: what keys.db holds is a
\* token the store still takes, unless an answer or a write was lost or two tasks
\* refreshed at once.
SessionRestorable ==
  access # 0 /\ Busy = {} /\ ~leaving /\ ~lossy => db \in valid

\* The store session ends when the user logs out and can be restored until then.
LoginSafe == LogoutHolds /\ SessionRestorable
=============================================================================
