------------------------------ MODULE JobStore ------------------------------
(***************************************************************************)
(* The jobs table as its readers see it: expiry applied on every read, the *)
(* listing, statistics and recovery queries, and one reader whose calls    *)
(* interleave with the clock and with the writes of the job manager: those *)
(* of a job's run and those of its cancellation, which the store takes one *)
(* after the other.  No store call fails, and the process does not restart.*)
(*                                                                         *)
(* Each query is written twice in the code: JobStore scans list(), which   *)
(* is what InMemoryJobStore uses, and SQLiteJobStore restates it in SQL    *)
(* over text timestamps.  The reader's calls are those of SQLiteJobStore,  *)
(* which await a worker thread; InMemoryJobStore answers in one step.      *)
(*                                                                         *)
(* A name X_Variant is X with a plausible fault in it; no action uses one. *)
(***************************************************************************)
EXTENDS Naturals, Sequences, FiniteSets, Functions, SequencesExt

CONSTANTS
  Jobs,            \* job ids
  Capabilities,
  CapabilityOf,    \* [Jobs -> Capabilities]
  Hooked,          \* the jobs with a webhook_url
  Blank,           \* those whose webhook_url is the empty string
  Cancelled,       \* those that cancel() may be called for
  NoFilter,         \* a filter that is None
  NoTime,          \* result_expires_at is None; no created_at yet
  Ttl,             \* result_ttl, in ticks of the clock
  TicksPerSecond,  \* stands for the 10^6 microseconds of a datetime
  PageLimit,       \* the limit of list_page
  Polled,          \* the jobs the reader gets
  Wants,           \* the filters on status it lists with
  MaxTime          \* bound: the clock's last tick

Terminal == {"ready", "error"}
Unfinished == {"pending", "processing"}
Shown == Terminal \cup Unfinished \cup {"expired"}

ASSUME ConstantsAssumption ==
  /\ CapabilityOf \in [Jobs -> Capabilities]
  /\ Hooked \cup Blank \cup Cancelled \subseteq Jobs /\ Hooked \cap Blank = {}
  /\ NoFilter \notin Jobs \cup Capabilities \cup Shown
  /\ NoTime \notin Nat
  /\ {Ttl, TicksPerSecond, PageLimit} \subseteq Nat \ {0}
  /\ Polled \subseteq Jobs
  /\ Wants \subseteq Shown \cup {NoFilter}
  /\ MaxTime \in Nat

VARIABLES
  now,      \* clock.now()
  order,    \* Seq(Jobs) the rows as inserted: rowid, or the dict's order
  status,   \* [Jobs -> Status] the status column
  made,     \* [Jobs -> Time or NoTime] created_at
  expires,  \* [Jobs -> Time or NoTime] result_expires_at
  told,     \* jobs whose webhook_status is set
  run,      \* [Jobs -> Run] how far the job's task is with its writes
  stop,     \* [Jobs -> Stop] how far a cancel() of the job is
  writes,   \* [Jobs -> Seq(Write)] the update_status calls under way, in line
  query,    \* the reader's call: what it asked, and the rows it was given
  phase,    \* {"idle", "asked", "selected"} where the call is
  seen      \* history: [Jobs -> SUBSET Display] what was displayed during the call

rowVars == <<order, status, made, expires, told, run, stop, writes>>
callVars == <<query, phase>>
vars == <<now, rowVars, callVars, seen>>

Status == Terminal \cup Unfinished \cup {"absent"}
Time == 0 .. MaxTime
Expiry == 0 .. MaxTime + Ttl
Display == Shown \cup {"absent"}
NoQuery == [job |-> NoFilter, want |-> NoFilter, asked |-> 0,
            rows |-> << >>, status |-> << >>, expires |-> << >>, total |-> 0]

(* marking and recording: its update_status is in line, or running.         *)
Run == {"none", "scheduled", "marking", "providing", "recording", "over"}

(* claimed: within the grace period; stopped: the cancelled record is       *)
(* written.                                                                 *)
Stop == {"none", "claimed", "writing", "stopped"}

Write == [by : {"run", "cancel"}, status : {"processing"} \cup Terminal,
          expires : Expiry \cup {NoTime}]

Rows == {order[i] : i \in DOMAIN order}

-----------------------------------------------------------------------------
(* Timestamps as SQLite compares them.  isoformat() leaves the fraction out *)
(* when it is zero, so either "+" (of +00:00) or "." follows the seconds.   *)
Plus == 43
Dot == 46

IsoFormat(t) ==
  LET fraction == t % TicksPerSecond
  IN <<t \div TicksPerSecond, IF fraction = 0 THEN Plus ELSE Dot, fraction>>

TextBefore(a, b) ==
  \E i \in DOMAIN a : a[i] < b[i] /\ \A k \in 1 .. i - 1 : a[k] = b[k]

-----------------------------------------------------------------------------
(* The status a caller sees, by _apply_expiry ...                           *)
ApplyExpiry(s, e, t) ==
  IF s \in Terminal /\ e # NoTime /\ t >= e THEN "expired" ELSE s

(* ... and by _DISPLAY_STATUS_SQL.                                          *)
DisplayStatusSql_Raw(j, t) == status[j]

DisplayStatusSql_Strict(j, t) ==
  IF /\ status[j] \in Terminal /\ expires[j] # NoTime
     /\ TextBefore(IsoFormat(expires[j]), IsoFormat(t))
    THEN "expired" ELSE status[j]

DisplayStatusSql(j, t) ==
  IF /\ status[j] \in Terminal /\ expires[j] # NoTime
     /\ ~TextBefore(IsoFormat(t), IsoFormat(expires[j]))
    THEN "expired" ELSE status[j]

Displayed(j) == ApplyExpiry(status[j], expires[j], now)

-----------------------------------------------------------------------------
(* list_page: the jobs that pass the filters, newest first, up to the limit. *)
Passes(j, shown, want, capability) ==
  /\ want \in {NoFilter, shown}
  /\ capability \in {NoFilter, CapabilityOf[j]}

Matching(want, capability) == {j \in Rows : Passes(j, Displayed(j), want, capability)}

MatchingSql(want, capability, t) ==
  {j \in Rows : Passes(j, DisplayStatusSql(j, t), want, capability)}

RowId(j) == CHOOSE i \in DOMAIN order : order[i] = j

(* Of two jobs made at once, the sort of list() keeps the older row first,  *)
(* ORDER BY created_at DESC, rowid DESC the newer one.                      *)
Newest(i, j) == made[i] > made[j] \/ (made[i] = made[j] /\ RowId(i) < RowId(j))

NewestSql_ByRowId(i, j) == RowId(i) > RowId(j)

NewestSql(i, j) ==
  \/ TextBefore(IsoFormat(made[j]), IsoFormat(made[i]))
  \/ made[i] = made[j] /\ RowId(i) > RowId(j)

(* Sorted and cut: every row of a page comes before all that do not precede *)
(* it there, and none is left out of a page that has room.                  *)
Pages(matching, before) ==
  LET Rest(s, i) == matching \ {s[k] : k \in 1 .. i - 1}
  IN {s \in SeqOf(matching, PageLimit) :
       /\ \A i \in DOMAIN s :
            s[i] \in Rest(s, i) /\ \A j \in Rest(s, i) \ {s[i]} : <<s[i], j>> \in before
       /\ Len(s) < PageLimit => Rest(s, Len(s) + 1) = {}}

ListPages(want, capability) ==
  LET jobs == Matching(want, capability)
  IN Pages(jobs, {p \in jobs \X jobs : Newest(p[1], p[2])})

SelectPages(want, capability, t) ==
  LET jobs == MatchingSql(want, capability, t)
  IN Pages(jobs, {p \in jobs \X jobs : NewestSql(p[1], p[2])})

(* stats(): counts over list(), or those of a GROUP BY summed up again: as   *)
(* many pairs of a group and one of its numbers.                            *)
Stats == [total |-> Len(order),
          by_status |-> [s \in Shown |-> Cardinality({j \in Rows : Displayed(j) = s})],
          by_capability |-> [c \in Capabilities |-> Cardinality({j \in Rows : CapabilityOf[j] = c})]]

StatsSql ==
  LET n[g \in Shown \X Capabilities] == Cardinality(MatchingSql(g[1], g[2], now))
      Sum(groups) == Cardinality(UNION {{g} \X (1 .. n[g]) : g \in groups})
  IN [total |-> Sum(Shown \X Capabilities),
      by_status |-> [s \in Shown |-> Sum({s} \X Capabilities)],
      by_capability |-> [c \in Capabilities |-> Sum(Shown \X {c})]]

(* list_recovery_candidates: by the displayed status and a webhook_url that *)
(* is not empty, or by stored columns and one that is not NULL.             *)
Candidates == {j \in Rows : Displayed(j) \in Unfinished \/ (j \in Hooked /\ j \notin told)}

CandidatesSql ==
  {j \in Rows : status[j] \in Unfinished \/ (j \in Hooked \cup Blank /\ j \notin told)}

-----------------------------------------------------------------------------
Init ==
  /\ now = 0
  /\ order = << >>
  /\ status = [j \in Jobs |-> "absent"]
  /\ made = [j \in Jobs |-> NoTime]
  /\ expires = [j \in Jobs |-> NoTime]
  /\ told = {}
  /\ run = [j \in Jobs |-> "none"] /\ stop = [j \in Jobs |-> "none"]
  /\ writes = [j \in Jobs |-> << >>]
  /\ query = NoQuery
  /\ phase = "idle"
  /\ seen = [j \in Jobs |-> {}]

(* History: what a caller watching all along would have seen.               *)
Watch ==
  seen' = [j \in Jobs |-> IF phase' = "idle" THEN {} ELSE seen[j] \cup {Displayed(j)'}]

(* Bound: a status write takes less than result_ttl.                        *)
Tick ==
  /\ now < MaxTime
  /\ \A j \in Jobs : \A i \in DOMAIN writes[j] :
       writes[j][i].expires # NoTime => now + 1 < writes[j][i].expires
  /\ now' = now + 1
  /\ UNCHANGED <<rowVars, callVars>>
  /\ Watch

-----------------------------------------------------------------------------
(* The writers: JobManager.                                                 *)

(* _new_record stamps the job; store.create inserts it later, and in any    *)
(* order.  The job's task exists from then on.                              *)
NewRecord(j) ==
  /\ made[j] = NoTime
  /\ made' = [made EXCEPT ![j] = now]
  /\ UNCHANGED <<now, order, status, expires, told, run, stop, writes, callVars>>
  /\ Watch

Create(j) ==
  /\ made[j] # NoTime /\ status[j] = "absent"
  /\ status' = [status EXCEPT ![j] = "pending"]
  /\ order' = Append(order, j)
  /\ run' = [run EXCEPT ![j] = "scheduled"]
  /\ UNCHANGED <<now, made, expires, told, stop, writes, callVars>>
  /\ Watch

(* update_status is called, result_expires_at computed from the clock.      *)
CallUpdate(j, by, s) ==
  /\ writes' = [writes EXCEPT ![j] = Append(@,
       [by |-> by, status |-> s, expires |-> IF s \in Terminal THEN now + Ttl ELSE NoTime])]
  /\ UNCHANGED <<now, order, status, made, expires, told, callVars>>
  /\ Watch

(* The run marks its job without a look at the cancellations, and records   *)
(* an outcome only if there is none.                                        *)
CallMark(j) ==
  /\ run[j] = "scheduled"
  /\ run' = [run EXCEPT ![j] = "marking"]
  /\ CallUpdate(j, "run", "processing")
  /\ UNCHANGED stop

CallRecord(j) ==
  /\ run[j] = "providing" /\ stop[j] = "none"
  /\ run' = [run EXCEPT ![j] = "recording"]
  /\ \E s \in Terminal : CallUpdate(j, "run", s)
  /\ UNCHANGED stop

(* The run ends and writes nothing: it is cancelled while it queues for a   *)
(* slot, its outcome is discarded, or its provider cancels itself.          *)
RunStops(j) ==
  /\ \/ run[j] = "scheduled" /\ stop[j] # "none"
     \/ run[j] = "providing"
  /\ run' = [run EXCEPT ![j] = "over"]
  /\ UNCHANGED <<now, order, status, made, expires, told, stop, writes, callVars>>
  /\ Watch

(* cancel() claims a job whose run is not over, or a row left unfinished.   *)
Claim(j) ==
  /\ j \in Cancelled
  /\ \/ run[j] \notin {"none", "over"} /\ stop[j] = "none"
     \/ run[j] = "over" /\ stop[j] \in {"none", "stopped"} /\ Displayed(j) \in Unfinished
  /\ stop' = [stop EXCEPT ![j] = "claimed"]
  /\ UNCHANGED <<now, order, status, made, expires, told, run, writes, callVars>>
  /\ Watch

(* The run has let go or the grace period is over: the cancelled record is  *)
(* written, over whatever there is by then.                                 *)
CallCancel(j) ==
  /\ stop[j] = "claimed"
  /\ stop' = [stop EXCEPT ![j] = "writing"]
  /\ CallUpdate(j, "cancel", "error")
  /\ UNCHANGED run

(* The first call in line replaces status and expiry wholesale, and returns *)
(* to whoever made it; a run finds there that it has been cancelled.        *)
Update(j) ==
  /\ status' = [status EXCEPT ![j] = Head(writes[j]).status]
  /\ expires' = [expires EXCEPT ![j] = Head(writes[j]).expires]

UpdateStatus(j) ==
  /\ writes[j] # << >>
  /\ Update(j)
  /\ writes' = [writes EXCEPT ![j] = Tail(@)]
  /\ IF Head(writes[j]).by = "run"
       THEN /\ run' = [run EXCEPT ![j] =
                 IF @ = "marking" /\ stop[j] = "none" THEN "providing" ELSE "over"]
            /\ UNCHANGED stop
       ELSE /\ stop' = [stop EXCEPT ![j] = "stopped"]
            /\ UNCHANGED run
  /\ UNCHANGED <<now, order, made, told, callVars>>
  /\ Watch

(* The record of an outcome or a cancellation is on its way to its webhook. *)
SetWebhookStatus(j) ==
  /\ j \in Hooked \ told /\ (status[j] \in Terminal \/ stop[j] = "stopped")
  /\ told' = told \cup {j}
  /\ UNCHANGED <<now, order, status, made, expires, run, stop, writes, callVars>>
  /\ Watch

-----------------------------------------------------------------------------
(* The reader: one get() or list_page() after another.                      *)

Ask ==
  /\ phase = "idle"
  /\ phase' = "asked"
  /\ LET call == [NoQuery EXCEPT !.asked = now]
     IN query' \in {[call EXCEPT !.job = j] : j \in Polled}
                    \cup {[call EXCEPT !.want = s] : s \in Wants}
  /\ UNCHANGED <<now, rowVars>>
  /\ Watch

(* The worker thread runs the statements, with the store's lock held; the   *)
(* clock was read before the lock was asked for.                            *)
Select ==
  /\ phase = "asked"
  /\ phase' = "selected"
  /\ \E rows \in IF query.job \in Jobs
                   THEN {IF query.job \in Rows THEN <<query.job>> ELSE << >>}
                   ELSE SelectPages(query.want, NoFilter, query.asked) :
       query' = [query EXCEPT
         !.rows = rows,
         !.status = [i \in DOMAIN rows |-> status[rows[i]]],
         !.expires = [i \in DOMAIN rows |-> expires[rows[i]]],
         !.total = Cardinality(MatchingSql(query.want, NoFilter, query.asked))]
  /\ UNCHANGED <<now, rowVars>>
  /\ Watch

(* The call resumes, applies expiry to the rows it was given, and returns.  *)
ShownAs_Stored(i) == query.status[i]

ShownAs(i) == ApplyExpiry(query.status[i], query.expires[i], now)

Response == [i \in DOMAIN query.rows |-> [job |-> query.rows[i], shown |-> ShownAs(i)]]

Answer ==
  /\ phase = "selected"
  /\ phase' = "idle"
  /\ query' = NoQuery
  /\ UNCHANGED <<now, rowVars>>
  /\ Watch

-----------------------------------------------------------------------------
Next ==
  \/ Tick
  \/ \E j \in Jobs : \/ NewRecord(j) \/ Create(j) \/ CallMark(j) \/ CallRecord(j) \/ RunStops(j)
                    \/ Claim(j) \/ CallCancel(j) \/ UpdateStatus(j) \/ SetWebhookStatus(j)
  \/ Ask \/ Select \/ Answer

Spec == Init /\ [][Next]_vars

-----------------------------------------------------------------------------
(* Every variable has its type, and only terminal rows have an expiry.      *)
TypeOK ==
  /\ now \in Time
  /\ order \in Seq(Jobs) /\ IsInjective(order)
  /\ status \in [Jobs -> Status]
  /\ made \in [Jobs -> Time \cup {NoTime}]
  /\ expires \in [Jobs -> Expiry \cup {NoTime}]
  /\ \A j \in Jobs : (expires[j] # NoTime) = (status[j] \in Terminal)
  /\ told \subseteq Hooked
  /\ run \in [Jobs -> Run] /\ stop \in [Jobs -> Stop]
  /\ writes \in [Jobs -> Seq(Write)]
  /\ query \in [job : Polled \cup {NoFilter}, want : Wants \cup {NoFilter}, asked : Time,
                rows : Seq(Jobs), status : Seq(Status),
                expires : Seq(Expiry \cup {NoTime}), total : Nat]
  /\ phase \in {"idle", "asked", "selected"}
  /\ seen \in [Jobs -> SUBSET Display]

(* The SQL restatements of the queries answer as the scans they replace do, *)
(* although they compare text: the same counts, the same matching jobs,     *)
(* pages that differ only among jobs made at the same instant, and the same *)
(* candidates, but for jobs with an empty webhook_url, which the sweep      *)
(* passes over.                                                             *)
Dates(s) == [i \in DOMAIN s |-> made[s[i]]]

StoresAgree ==
  phase = "idle" =>   \* the reader plays no part in it
    /\ StatsSql = Stats
    /\ Candidates \subseteq CandidatesSql
    /\ CandidatesSql \ Candidates \subseteq {j \in Blank : status[j] \in Terminal}
    /\ \A want \in Shown \cup {NoFilter}, c \in Capabilities \cup {NoFilter} :
         /\ MatchingSql(want, c, now) = Matching(want, c)
         /\ \A s \in SelectPages(want, c, now), r \in ListPages(want, c) : Dates(s) = Dates(r)

(* The jobs that matched the call at some moment of it, and at every one.   *)
Ever == {j \in Jobs : \E s \in seen[j] \ {"absent"} : Passes(j, s, query.want, NoFilter)}
Always == {j \in Jobs : \A s \in seen[j] : s # "absent" /\ Passes(j, s, query.want, NoFilter)}

(* A listing answers for some moments of its own call: it counts every job  *)
(* that matched throughout, and none that matched at no time.               *)
Listed == phase = "selected" /\ query.job = NoFilter

TotalIsFromTheCall ==
  Listed => Cardinality(Always) <= query.total /\ query.total <= Cardinality(Ever)

(* A job that matched throughout is on the page, or the page is full of     *)
(* jobs that are no older.                                                  *)
PageIsNewest ==
  Listed => \A j \in Always :
    \/ \E i \in DOMAIN Response : Response[i].job = j
    \/ /\ Len(Response) = PageLimit
       /\ \A i \in DOMAIN Response : made[Response[i].job] >= made[j]

(* A page of one status shows a job with another only if its result expired *)
(* while the call was under way: "status=ready never returns a job whose    *)
(* result window has already passed" when the call began.                   *)
SlipsOnlyDuringTheCall ==
  Listed /\ query.want # NoFilter =>
    \A i \in DOMAIN Response :
      \/ Response[i].shown = query.want
      \/ Response[i].shown = "expired" /\ query.expires[i] > query.asked

(* Every job of an answer is shown with a status it displayed at some       *)
(* moment of the call, although the row was read earlier than its expiry    *)
(* was judged: whoever polls or lists one call after another sees a job go  *)
(* back, from expired to ready or from finished to processing, only where   *)
(* its record did.  The one exception is a row of a cancelled job that has  *)
(* been written over since it was read: it may be shown as expired.         *)
AnswersAreOfTheCall ==
  phase = "selected" =>
    \A i \in DOMAIN Response :
      LET j == Response[i].job IN
      \/ Response[i].shown \in seen[j]
      \/ Response[i].shown = "expired" /\ stop[j] # "none" /\ query.expires[i] # expires[j]

=============================================================================
