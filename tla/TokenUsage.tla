----------------------------- MODULE TokenUsage -----------------------------
(***************************************************************************)
(* LLM token accounting of one VM: the check before a request              *)
(* (token_limit.rs, ConfigStore::check_token_limit), the record after it   *)
(* (token_monitor, token_extractor) and the maintenance that folds the raw *)
(* logs into days, weeks and months (run_token_usage_maintenance).         *)
(*                                                                         *)
(* Time is a tick; a UTC day is DayTicks ticks.  Records carry UTC dates,  *)
(* maintenance reads the local clock, Skew ticks ahead of UTC.  A month is *)
(* MonthDays days and a week WeekDays, so that the 60 days of raw logs the *)
(* code keeps (Retain) are two months.                                     *)
(***************************************************************************)
EXTENDS Integers, FiniteSets, FiniteSetsExt

CONSTANTS
    Requests,     \* proxied requests that can be in flight at once
    DayTicks, MonthDays, WeekDays, Retain, Skew,
    MaxTick,      \* bound: where the clock stops
    MaxSpent,     \* bound: tokens recorded in a behaviour
    MaxEmpty,     \* bound: ticks with rows of no tokens only
    LimitRows     \* the limit tables a behaviour may start with

\* The local clock is less than a day from UTC, raw logs are kept for more
\* than a day, and every row limits the one provider or all of them.
ASSUME UsageAssumption ==
    /\ IsFiniteSet(Requests)
    /\ {DayTicks, MonthDays, WeekDays} \subseteq Nat \ {0}
    /\ Retain \in Nat /\ Retain > 1
    /\ Skew \in Int /\ Skew > -DayTicks /\ Skew < DayTicks
    /\ {MaxTick, MaxSpent} \subseteq Nat
    /\ \A rows \in LimitRows : \A l \in rows : l.provider \in {"p", "*"} /\ l.tokens \in Nat

None == -1
Ticks == 0..MaxTick
UtcDay(t) == t \div DayTicks
LocalDay(t) == (t + Skew) \div DayTicks
Month(d) == d \div MonthDays
Week(d) == (d + 1) \div WeekDays
Days == 0..UtcDay(MaxTick)
Months == 0..Month(UtcDay(MaxTick))
Weeks == 0..Week(UtcDay(MaxTick))

VARIABLES
    now,      \* the clock
    limits,   \* token_usage_limits: rows [provider, scope, tokens, action]
    req,      \* per request: its step, the provider it is counted for, its month
    logs,     \* token_usage_logs: tokens of each tick, None when no row
    daily,    \* token_usage_daily
    weekly,   \* token_usage_weekly
    monthly,  \* token_usage_monthly
    maint,    \* the maintenance task: its step and the dates it still folds
    spent     \* history: tokens ever recorded, by day

usageVars == <<now, limits, req, logs, daily, weekly, monthly, maint, spent>>

Idle == [at |-> "idle", month |-> None, n |-> 0]
Resting == [at |-> "idle", dates |-> {}, day |-> None, month |-> None]

\* Sum of f over S, an absent row counting nothing.
Total(f, S) == MapThenSumSet(LAMBDA x : IF f[x] = None THEN 0 ELSE f[x], S)

TicksOf(d) == {t \in Ticks : UtcDay(t) = d}
DaysOf(m) == {d \in Days : Month(d) = m}
DaysOfWeek(w) == {d \in Days : Week(d) = w}

EmptyAllowed == logs[now] # None \/ Cardinality({t \in Ticks : logs[t] = 0}) < MaxEmpty

UsageInit ==
    /\ now = 0
    /\ limits \in LimitRows
    /\ req = [r \in Requests |-> Idle]
    /\ logs = [t \in Ticks |-> None]
    /\ daily = [d \in Days |-> None]
    /\ weekly = [w \in Weeks |-> None]
    /\ monthly = [m \in Months |-> None]
    /\ maint = Resting
    /\ spent = [d \in Days |-> 0]

-----------------------------------------------------------------------------
(* What counts as an LLM request: a configured provider's domain and path  *)
(* (match_request, match_domain_only), or an auth header with a JSON body   *)
(* elsewhere.  One provider and the wildcard "*" of the limits are modelled; *)
(* anything else is neither limited nor recorded and leaves no state here.  *)

Provider == "p"

\* Tokens the rows of a scope hold for the current day or month; with one
\* provider the wildcard sums the same rows.
Used(scope) ==
    IF scope = "monthly" THEN Total(monthly, {Month(UtcDay(now))})
                         ELSE Total(logs, TicksOf(UtcDay(now)))

\* check_token_limit: the rows for the provider and for "*" whose limit is
\* reached; 0 is unlimited.
Exceeded(pid) ==
    {l \in limits : l.provider \in {pid, "*"} /\ l.tokens # 0 /\ Used(l.scope) >= l.tokens}

\* check_pre_request for one id: the first exceeded row decides, and SQL
\* gives the rows no order; a "warn" row lets the request pass.
Verdicts(pid) ==
    IF Exceeded(pid) = {} THEN {"pass"}
    ELSE {IF l.action = "warn" THEN "pass" ELSE "block" : l \in Exceeded(pid)}

-----------------------------------------------------------------------------
(* A request. *)

\* fault: the request is forwarded whatever the check answers
CheckIgnored(r) ==
    /\ req[r].at = "idle"
    /\ req' = [req EXCEPT ![r].at = "forward"]
    /\ UNCHANGED <<now, limits, logs, daily, weekly, monthly, maint, spent>>

\* check_pre_request for the provider and then for "*"; a block answers 429,
\* which the inspecting proxy also records as a row of no tokens.
Check(r) ==
    /\ req[r].at = "idle"
    /\ \E v \in Verdicts(Provider), w \in Verdicts("*") :
           \/ /\ "block" \in {v, w}
              /\ \E row \in BOOLEAN :
                     logs' = IF row /\ logs[now] = None /\ EmptyAllowed THEN [logs EXCEPT ![now] = 0] ELSE logs
              /\ UNCHANGED req
           \/ /\ "block" \notin {v, w}
              /\ req' = [req EXCEPT ![r].at = "forward"]
              /\ UNCHANGED logs
    /\ UNCHANGED <<now, limits, daily, weekly, monthly, maint, spent>>

\* The tokens read out of a response: the provider's JSON paths in the body or
\* in the last events of a stream, or an estimate from the bytes.  0 is a
\* response without usage; one token stands for any count.
Extracted == {0, 1}

\* The upstream answered, the response was streamed: its row is inserted here;
\* the monthly total follows in a statement of its own.  A failed upstream
\* call, or a VM that hung up mid-stream, records nothing.
InsertLog(r) ==
    /\ req[r].at = "forward"
    /\ \/ req' = [req EXCEPT ![r] = Idle] /\ UNCHANGED <<logs, spent>>
       \/ \E n \in Extracted :
             /\ Total(spent, Days) + n <= MaxSpent
             /\ n = 0 => EmptyAllowed
             /\ logs' = [logs EXCEPT ![now] = (IF @ = None THEN 0 ELSE @) + n]
             /\ spent' = [spent EXCEPT ![UtcDay(now)] = @ + n]
             /\ req' = [req EXCEPT ![r] = [at |-> "monthly", month |-> Month(UtcDay(now)), n |-> n]]
    /\ UNCHANGED <<now, limits, daily, weekly, monthly, maint>>

\* upsert_token_usage_monthly for the month read before the row was inserted.
UpsertMonthly(r) ==
    /\ req[r].at = "monthly"
    /\ monthly' = [monthly EXCEPT ![req[r].month] = (IF @ = None THEN 0 ELSE @) + req[r].n]
    /\ req' = [req EXCEPT ![r] = Idle]
    /\ UNCHANGED <<now, limits, logs, daily, weekly, maint, spent>>

-----------------------------------------------------------------------------
(* Maintenance, at startup and on command. *)

\* fault: today is folded as if it were over
MaintainStartToday ==
    /\ maint.at = "idle"
    /\ maint' = [at |-> "daily", day |-> LocalDay(now), month |-> None,
                 dates |-> {d \in Days : /\ d \in (LocalDay(now) - Retain)..LocalDay(now)
                                         /\ daily[d] = None
                                         /\ \E t \in TicksOf(d) : logs[t] # None}]
    /\ UNCHANGED <<now, limits, req, logs, daily, weekly, monthly, spent>>

\* get_dates_needing_daily_aggregation: dates with rows and no daily record,
\* from Retain days ago to yesterday, by the local calendar.
MaintainStart ==
    /\ maint.at = "idle"
    /\ maint' = [at |-> "daily", day |-> LocalDay(now), month |-> None,
                 dates |-> {d \in Days : /\ d \in (LocalDay(now) - Retain)..(LocalDay(now) - 1)
                                         /\ daily[d] = None
                                         /\ \E t \in TicksOf(d) : logs[t] # None}]
    /\ UNCHANGED <<now, limits, req, logs, daily, weekly, monthly, spent>>

\* aggregate_daily_from_logs, one date at a time, by UTC date.
MaintainDaily ==
    /\ maint.at = "daily"
    /\ maint.dates # {}
    /\ LET d == Min(maint.dates) IN
       /\ daily' = [daily EXCEPT ![d] = IF \A t \in TicksOf(d) : logs[t] = None
                                        THEN @ ELSE Total(logs, TicksOf(d))]
       /\ maint' = [maint EXCEPT !.dates = @ \ {d}]
    /\ UNCHANGED <<now, limits, req, logs, weekly, monthly, spent>>

\* aggregate_weekly_from_daily for the weeks from Retain days ago to the last
\* completed one.
MaintainWeekly ==
    /\ maint.at = "daily"
    /\ maint.dates = {}
    /\ weekly' = [w \in Weeks |->
                    IF /\ w \in Week(maint.day - Retain)..(Week(maint.day) - 1)
                       /\ \E d \in DaysOfWeek(w) : daily[d] # None
                    THEN Total(daily, DaysOfWeek(w)) ELSE weekly[w]]
    /\ maint' = [maint EXCEPT !.at = "monthly", !.month = Month(maint.day) - 1]
    /\ UNCHANGED <<now, limits, req, logs, daily, monthly, spent>>

\* finalize_monthly_from_daily for the two months before the local one: the
\* sum of the daily records replaces the running total, when there are any.
MaintainMonthly ==
    /\ maint.at = "monthly"
    /\ LET m == maint.month IN
       monthly' = IF m \in Months /\ \E d \in DaysOf(m) : daily[d] # None
                  THEN [monthly EXCEPT ![m] = Total(daily, DaysOf(m))] ELSE monthly
    /\ maint' = [maint EXCEPT !.at = IF maint.month = Month(maint.day) - 2 THEN "delete" ELSE @,
                              !.month = @ - 1]
    /\ UNCHANGED <<now, limits, req, logs, daily, weekly, spent>>

\* delete_old_token_usage_logs, by time and not by date.
MaintainDelete ==
    /\ maint.at = "delete"
    /\ logs' = [t \in Ticks |-> IF t < now - Retain * DayTicks THEN None ELSE logs[t]]
    /\ maint' = Resting
    /\ UNCHANGED <<now, limits, req, daily, weekly, monthly, spent>>

\* Time passes, whatever requests are in flight; a maintenance run is a few
\* statements with no wait between them, short against a tick.
Tick ==
    /\ now < MaxTick
    /\ maint.at = "idle"
    /\ now' = now + 1
    /\ UNCHANGED <<limits, req, logs, daily, weekly, monthly, maint, spent>>

UsageNext ==
    \/ \E r \in Requests : Check(r) \/ InsertLog(r) \/ UpsertMonthly(r)
    \/ MaintainStart \/ MaintainDaily \/ MaintainWeekly \/ MaintainMonthly \/ MaintainDelete
    \/ Tick

UsageSpec == UsageInit /\ [][UsageNext]_usageVars

-----------------------------------------------------------------------------
UsageTypeOK ==
    /\ now \in Ticks
    /\ \A r \in Requests : req[r].month \in Months \cup {None}
    /\ \A t \in Ticks : logs[t] \in 0..MaxSpent \cup {None} /\ (logs[t] # None => t <= now)
    /\ \A d \in Days : daily[d] \in 0..MaxSpent \cup {None} /\ spent[d] \in 0..MaxSpent
    /\ \A w \in Weeks : weekly[w] \in 0..MaxSpent \cup {None}
    /\ \A m \in Months : monthly[m] \in 0..(2 * MaxSpent) \cup {None}

\* Tokens whose row is inserted and whose monthly upsert is still to come.
Unposted(m) == Cardinality({r \in Requests : req[r].n = 1 /\ req[r].month = m})

SpentIn(m) == Total(spent, DaysOf(m))

\* The total that the monthly limit is checked against is what was spent in
\* the current UTC month, but for the upserts under way: maintenance neither
\* loses nor doubles it.
CurrentMonthExact ==
    LET m == Month(UtcDay(now)) IN Total(monthly, {m}) = SpentIn(m) - Unposted(m)

\* A day that has been folded holds everything spent on it: its raw rows may
\* be deleted.
DailyExact == \A d \in Days : daily[d] # None => daily[d] = spent[d]

\* The limit is checked before and recorded after a request, so concurrent
\* requests overshoot it: by at most one response each, when every
\* row blocks (a reached "warn" row may hide a reached "block" row).
OverrunBounded ==
    \A l \in limits :
        /\ l.action = "block" /\ l.tokens # 0
        /\ \A k \in limits : k.action = "block"
        => LET used == IF l.scope = "monthly" THEN SpentIn(Month(UtcDay(now)))
                                              ELSE spent[UtcDay(now)]
           IN  used <= l.tokens - 1 + Cardinality(Requests)

\* The totals are what was spent: the current month's, which the limits are
\* checked against, and every folded day's, whose raw rows are deleted.
UsageExact == UsageTypeOK /\ CurrentMonthExact /\ DailyExact
=============================================================================
