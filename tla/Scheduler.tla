------------------------------ MODULE Scheduler ------------------------------
(***************************************************************************)
(* The scheduled plans of automation.rs: the scheduler's rounds, and the   *)
(* schedule commands of commands.rs.  What a plan that is started does is  *)
(* TaskRegistry's subject; here it is counted.                             *)
(*                                                                         *)
(* The schedules are one row of workspace_state: the scheduler, every 15   *)
(* seconds, and the commands load the whole list and write it back.  Time  *)
(* is a number of ticks; the clock on the wall may show a time twice.      *)
(***************************************************************************)
EXTENDS Naturals, Sequences, FiniteSets, FiniteSetsExt, NoValue

CONSTANTS
    Schedule,   \* ids of schedules
    PlanKind,   \* schedule_type, expression and misfire_policy a schedule may have
    Wall(_),    \* the time the clock on the wall shows at a tick
    MaxTime,    \* bound of the model: ticks
    MaxWrites,  \* bound of the model: saves and deletions of schedules
    MaxLaunches \* bound of the model: starts of the application

\* validate_schedule: an interval is some seconds; a daily, weekly or cron expression is
\* the set of the times it matches.
InstantKind == [type : {"once", "interval"}, expr : Nat \ {0}, skip : BOOLEAN, grace : Nat]
CalendarKind == [type : {"daily", "cron"}, expr : SUBSET Nat, skip : BOOLEAN, grace : Nat]

ASSUME ScheduleAssumption ==
    /\ MaxTime \in Nat /\ \A at \in 0..MaxTime : Wall(at) \in 0..MaxTime
    /\ PlanKind \subseteq InstantKind \union CalendarKind

VARIABLES
    now,         \* Utc::now()
    schedules,   \* the row cnshell.automation.schedules
    tick,        \* the scheduler's round: what it loaded, and the plans that are due
    edit,        \* a schedule command between its load and its save
    started,     \* occurrences whose plan was started, as often as it was
    edited,      \* schedules whose last run was forgotten over an edit, or that were
                 \* made another kind of schedule
    minted,      \* ids the window has made up (crypto.randomUUID)
    writes, launches

scheduleVars == <<now, schedules, tick, edit, started, edited, minted, writes, launches>>

Idle == [at |-> "idle", time |-> 0, rows |-> <<>>, due |-> {}]

ScheduleInit ==
    /\ now = 0 /\ schedules = [s \in Schedule |-> None]
    /\ tick = Idle /\ edit = Idle
    /\ started = [s \in Schedule |-> [w \in 0..MaxTime |-> 0]]
    /\ edited = {} /\ minted = {} /\ writes = 0 /\ launches = 1

\* occurrence_key: calendar occurrences are named by what the wall shows.
Calendar(kind) == kind.type \in {"daily", "cron"}
Key(row, at) == IF Calendar(row.kind) THEN Wall(at) ELSE at

\* LocalResult: of a time that is shown twice, its first showing.
FirstShown(at) == \A b \in 0..MaxTime : Wall(b) = Wall(at) => at <= b

\* next_run_at: a single time, so long after the last run, or the next match of the
\* calendar that is not the occurrence last run.  A day or a weekday (daily) has one time,
\* a cron expression as many as it likes, and it matches whenever they are shown.
NextTimesAgain(row, after) ==
    CASE row.kind.type = "once" -> {row.kind.expr} \ 0..after
      [] row.kind.type = "interval" -> {row.kind.expr + after}
      [] OTHER -> {at \in after + 1..MaxTime : Wall(at) \in row.kind.expr}

NextTimes(row, after) ==
    CASE row.kind.type = "once" -> {row.kind.expr} \ 0..after
      [] row.kind.type = "interval" ->
             {row.kind.expr + (IF row.lastRun > after THEN row.lastRun ELSE after)}
      [] OTHER -> {at \in after + 1..MaxTime :
                       /\ Wall(at) \in row.kind.expr /\ Wall(at) # row.lastKey
                       /\ row.kind.type = "daily" => FirstShown(at)}

NextRun(row, after) ==
    IF ~row.enabled \/ NextTimes(row, after) = {} THEN None ELSE Min(NextTimes(row, after))

\* advance_schedule.
Advance(row, at) ==
    LET run == [row EXCEPT !.lastRun = at, !.lastKey = Key(row, row.next)]
    IN  IF row.kind.type = "once" THEN [run EXCEPT !.enabled = FALSE, !.next = None]
        ELSE [run EXCEPT !.next = NextRun(run, at)]

Settle(row, at) ==
    LET next == NextRun(row, at)
    IN  [row EXCEPT !.next = next, !.enabled = row.kind.type # "once" \/ next # None]

\* collect_due_plans: what is due and not missed by more than the grace of its kind.
OnTime(row, at) == row.kind.skip => at - row.next <= row.kind.grace

Arrived(row, at) == row # None /\ row.enabled /\ row.next # None /\ row.next <= at

Collected(rows, at) ==
    [s \in Schedule |->
        IF rows[s] = None \/ ~rows[s].enabled THEN rows[s]
        ELSE IF rows[s].next = None THEN Settle(rows[s], at)
        ELSE IF Arrived(rows[s], at) THEN Advance(rows[s], at) ELSE rows[s]]

Changed(rows, at) ==
    \E s \in Schedule :
        Arrived(rows[s], at) \/ (rows[s] # None /\ rows[s].enabled /\ rows[s].next = None)

DuePlans(rows, at) == {s \in Schedule : Arrived(rows[s], at) /\ OnTime(rows[s], at)}

\* start_scheduler: a round takes the time, loads the schedules, saves what changed, and
\* only then starts what is due.
TickStart ==
    /\ tick.at = "idle"
    /\ tick' = [Idle EXCEPT !.at = "tick", !.time = now]
    /\ UNCHANGED <<now, schedules, edit, started, edited, minted, writes, launches>>

TickLoad ==
    /\ tick.at = "tick"
    /\ LET rows == Collected(schedules, tick.time)
           due == {<<s, Key(schedules[s], schedules[s].next)>> : s \in DuePlans(schedules, tick.time)}
       IN  tick' = IF ~Changed(schedules, tick.time) THEN Idle
                   ELSE [tick EXCEPT !.at = "save", !.rows = rows, !.due = due]
    /\ UNCHANGED <<now, schedules, edit, started, edited, minted, writes, launches>>

\* A save that fails skips the round.
TickSave ==
    /\ tick.at = "save"
    /\ \/ schedules' = tick.rows /\ tick' = [tick EXCEPT !.at = "spawn"]
       \/ UNCHANGED schedules /\ tick' = Idle
    /\ UNCHANGED <<now, edit, started, edited, minted, writes, launches>>

TickSpawn ==
    /\ tick.at = "spawn"
    /\ IF tick.due = {} THEN tick' = Idle /\ UNCHANGED started
       ELSE \E d \in tick.due :
              /\ started' = [started EXCEPT ![d[1]][d[2]] = @ + 1]
              /\ tick' = [tick EXCEPT !.due = @ \ {d}]
    /\ UNCHANGED <<now, schedules, edit, edited, minted, writes, launches>>

\* prepare_schedule_for_save: the cursors are those of the row that was loaded.
Prepared(kind, enabled, old, at) ==
    LET row == [kind |-> kind, enabled |-> enabled, next |-> None,
                lastRun |-> IF old = None THEN 0 ELSE old.lastRun,
                lastKey |-> IF old = None THEN None ELSE old.lastKey]
    IN  [row EXCEPT !.next = NextRun(row, at)]

\* automation_schedule_save and automation_schedule_delete load the list and prepare it...
LoadForSave(s) ==
    \E kind \in PlanKind, enabled \in BOOLEAN :
        LET row == Prepared(kind, enabled, schedules[s], now)
        IN  /\ edit.at = "idle" /\ writes < MaxWrites
            /\ schedules[s] # None \/ s \notin minted
            /\ enabled => row.next # None
            /\ edit' = [Idle EXCEPT !.at = "save", !.rows = [schedules EXCEPT ![s] = row],
                                    !.due = schedules]
            /\ writes' = writes + 1 /\ minted' = minted \union {s}
            /\ UNCHANGED <<now, schedules, tick, started, edited, launches>>

LoadForDelete(s) ==
    /\ edit.at = "idle" /\ writes < MaxWrites /\ schedules[s] # None
    /\ edit' = [Idle EXCEPT !.at = "save", !.rows = [schedules EXCEPT ![s] = None],
                            !.due = schedules]
    /\ writes' = writes + 1
    /\ UNCHANGED <<now, schedules, tick, started, edited, minted, launches>>

\* A schedule that is edited goes on as what it was, or as another of its kind.
SameKind(k, l) ==
    k = l \/ \E types \in {{"once", "interval"}, {"daily"}} : {k.type, l.type} \subseteq types

\* ... and write it, whatever the scheduler has written since: the run that was last is
\* forgotten so.
StoreEdit ==
    /\ edit.at = "save"
    /\ schedules' = edit.rows /\ edit' = Idle
    /\ edited' = edited \union
           {s \in Schedule : \/ schedules[s] # edit.due[s]
                             \/ /\ edit.rows[s] # None /\ edit.due[s] # None
                                /\ ~SameKind(edit.rows[s].kind, edit.due[s].kind)}
    /\ UNCHANGED <<now, tick, started, minted, writes, launches>>

(***************************************************************************)
(* Time, and the application.                                              *)
(***************************************************************************)
Pass ==
    /\ now < MaxTime /\ now' = now + 1
    /\ UNCHANGED <<schedules, tick, edit, started, edited, minted, writes, launches>>

\* The application ends at any point and starts again, perhaps much later: only the
\* database is left.
Relaunch ==
    /\ launches < MaxLaunches /\ launches' = launches + 1
    /\ now' \in now..MaxTime
    /\ tick' = Idle /\ edit' = Idle
    /\ UNCHANGED <<schedules, started, edited, minted, writes>>

ScheduleNext ==
    \/ TickStart \/ TickLoad \/ TickSave \/ TickSpawn
    \/ \E s \in Schedule : LoadForSave(s) \/ LoadForDelete(s)
    \/ StoreEdit \/ Pass \/ Relaunch

ScheduleSpec == ScheduleInit /\ [][ScheduleNext]_scheduleVars

(***************************************************************************)
(* Properties.                                                             *)
(***************************************************************************)
\* The type of the schedules and of the rounds; a schedule that is off has no next run.
ScheduleTypeOK ==
    /\ \A s \in Schedule : schedules[s] # None /\ ~schedules[s].enabled => schedules[s].next = None
    /\ tick.at \in {"idle", "tick", "save", "spawn"} /\ edit.at \in {"idle", "save"}

\* A cron expression that matches two times of a stretch the clock shows twice: only the
\* last occurrence is remembered, so it may run them again.
SeveralInRepeat(w) ==
    \E kind \in PlanKind : \E a, b, c \in 0..MaxTime :
        /\ kind.type = "cron" /\ {w, Wall(b)} \subseteq kind.expr
        /\ a < b /\ b < c /\ Wall(a) = w /\ Wall(b) # w /\ Wall(c) = w

\* docs/USER_GUIDE.md:86 and docs/NEXT_DEVELOPMENT_PLAN.md:250: an occurrence is executed
\* once, however often the clock shows its time, whenever the application ends and
\* whatever the user edits -- but for the edits that forget it, and SeveralInRepeat.
OccurrenceRunsOnce ==
    \A s \in Schedule \ edited : \A w \in 0..MaxTime :
        started[s][w] <= 1 \/ SeveralInRepeat(w)
=============================================================================
