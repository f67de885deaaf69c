----------------------------- MODULE SyncSchedule -----------------------------
(***************************************************************************)
(* The sync-orchestrator for one account: the tick of the scheduler        *)
(* (scheduler.py) and the manual trigger (api/routes.py).  Both stage      *)
(* sync.job.requested and record the time of the request in one            *)
(* transaction; the events reach the account's topic in order.             *)
(***************************************************************************)
EXTENDS Naturals, FiniteSets, Sequences

CONSTANTS Schedules,    \* the account's entries in settings.accounts, in order
          NeverRequested

VARIABLES lastRequested,  \* the account's row in sync_schedule_state
          tick,           \* the tick in progress: what it has read
          jobs            \* the topic

scheduleVars == <<lastRequested, tick, jobs>>

ScheduleEntries ==
    [kind : SUBSET {"products", "offers"}, mode : {"full", "delta"}, interval : Nat]

ASSUME ScheduleAssumption == Schedules \in Seq(ScheduleEntries)

Jobs == [kind : SUBSET {"products", "offers"}, mode : {"full", "delta"}, at : Nat]
NotTicking == [due |-> {}]
Ticks == [due : SUBSET DOMAIN Schedules, at : Nat]

ScheduleTypeOK ==
    /\ lastRequested \in Nat \cup {NeverRequested}
    /\ tick \in Ticks \cup {NotTicking}
    /\ jobs \in Seq(Jobs)

ScheduleInit ==
    /\ lastRequested = NeverRequested
    /\ tick = NotTicking
    /\ jobs = <<>>

\* Mutant of IsDue: only after the interval.
IsDueLater(schedule, now) ==
    lastRequested # NeverRequested => now > lastRequested + schedule.interval

\* is_due: the interval has passed since the account was last asked for.
IsDue(schedule, now) ==
    lastRequested # NeverRequested => now >= lastRequested + schedule.interval

\* list_accounts: what an operator is told of an entry.
AccountStatus(schedule, now) ==
    CASE lastRequested = NeverRequested -> "never"
      [] lastRequested # NeverRequested /\ now >= lastRequested + schedule.interval -> "overdue"
      [] OTHER -> "ok"

Request(schedule, at) == [kind |-> schedule.kind, mode |-> schedule.mode, at |-> at]

\* run_tick: the last requests are loaded ...
LoadLastRequested(now) ==
    LET due == {n \in DOMAIN Schedules : IsDue(Schedules[n], now)}
    IN  /\ tick = NotTicking
        /\ due # {}
        /\ tick' = [due |-> due, at |-> now]
        /\ UNCHANGED <<lastRequested, jobs>>

\* ... and the due accounts requested, in the order of the entries, and marked.
RequestDue ==
    /\ tick # NotTicking
    /\ \E entry \in [1..Cardinality(tick.due) -> tick.due] :
          /\ \A m, n \in DOMAIN entry : m < n => entry[m] < entry[n]
          /\ jobs' = jobs \o [n \in DOMAIN entry |-> Request(Schedules[entry[n]], tick.at)]
    /\ lastRequested' = tick.at
    /\ tick' = NotTicking

\* trigger_sync: the first entry of the account, at once.
TriggerSync(now) ==
    /\ Schedules # <<>>
    /\ jobs' = Append(jobs, Request(Schedules[1], now))
    /\ lastRequested' = now
    /\ UNCHANGED tick
=============================================================================
