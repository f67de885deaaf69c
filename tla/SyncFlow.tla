------------------------------- MODULE SyncFlow -------------------------------
(***************************************************************************)
(* Scheduler, supplier and connector together: jobs are requested on one   *)
(* topic, whose consumer has no dead-letter sink (sync_consumer.run).      *)
(* The jobs of an account are one partition, handled one at a time - until *)
(* a sync outlasts max.poll.interval: then the partition, with the job     *)
(* still uncommitted, goes to another worker while the first carries on.   *)
(***************************************************************************)
EXTENDS ConnectorSync, SyncSchedule

CONSTANTS MaxTime,      \* bound: the clock
          LastChange,   \* bound: the supplier changes nothing later
          MaxJobs,      \* bound: jobs requested by hand stop here
          MaxFaults     \* bound: failures, crashes and rebalances

VARIABLES offset,       \* jobs committed by the consumer group
          owner,        \* the worker the partition is assigned to
          faults,
          overlapped,   \* history: two syncs were under way at once
          shrunk        \* history: a list lost a row while a sync was paging

flowVars == <<offset, owner, faults, overlapped, shrunk>>
vars == <<now, catalogue, connectorVars, scheduleVars, flowVars>>

ASSUME FlowAssumption ==
    /\ Workers # {} /\ NoTime \notin Nat
    /\ \A n \in DOMAIN Schedules : Schedules[n].kind # {}
    /\ MaxTime \in Nat /\ LastChange \in Nat /\ MaxJobs \in Nat /\ MaxFaults \in Nat

Init ==
    /\ SupplierInit /\ ConnectorInit /\ ScheduleInit
    /\ offset = 0 /\ owner \in Workers /\ faults = 0
    /\ overlapped = FALSE /\ shrunk = FALSE

Busy(w) == sync[w] # Idle

Clock ==
    /\ now < MaxTime
    /\ now' = now + 1
    /\ UNCHANGED <<catalogue, connectorVars, scheduleVars, flowVars>>

SupplierChanges ==
    /\ now <= LastChange
    /\ \E i \in Items, p \in Prices \cup {NoPrice, Delisted} :
          /\ Change(i, p)
          /\ shrunk' = (shrunk \/ (p = Delisted /\ \E w \in Workers : Busy(w)))
    /\ UNCHANGED <<connectorVars, scheduleVars, offset, owner, faults, overlapped>>

Tick ==
    /\ LoadLastRequested(now) \/ RequestDue
    /\ UNCHANGED <<now, catalogue, connectorVars, flowVars>>

Trigger ==
    /\ Len(jobs) < MaxJobs
    /\ TriggerSync(now)
    /\ UNCHANGED <<now, catalogue, connectorVars, flowVars>>

Take(w) ==
    /\ owner = w /\ offset < Len(jobs)
    /\ StartSync(w, jobs[offset + 1].kind, jobs[offset + 1].mode)
    /\ overlapped' = (overlapped \/ \E v \in Workers : Busy(v))
    /\ UNCHANGED <<now, catalogue, scheduleVars, offset, owner, faults, shrunk>>

Work(w) ==
    /\ RunAccountSync(w)
    /\ UNCHANGED <<now, catalogue, scheduleVars, flowVars>>

\* The job is committed, unless the partition has gone to another worker.
Finish(w) ==
    /\ Busy(w) /\ sync[w].phase = "done"
    /\ sync' = [sync EXCEPT ![w] = Idle]
    /\ offset' = IF owner = w THEN offset + 1 ELSE offset
    /\ UNCHANGED <<now, catalogue, stagedVars, watermark, scheduleVars, owner, faults, overlapped, shrunk>>

\* The sync raises: after its retries the worker ends, restarts and finds the job again.
Fail(w) ==
    /\ SyncFails(w)
    /\ IF MustFail(w) THEN UNCHANGED faults ELSE faults < MaxFaults /\ faults' = faults + 1
    /\ UNCHANGED <<now, catalogue, scheduleVars, offset, owner, overlapped, shrunk>>

\* The sync takes too long and the partition is given to an idle worker.
Rebalance(w) ==
    /\ faults < MaxFaults
    /\ owner # w /\ Busy(owner) /\ ~Busy(w)
    /\ owner' = w
    /\ faults' = faults + 1
    /\ UNCHANGED <<now, catalogue, connectorVars, scheduleVars, offset, overlapped, shrunk>>

Next ==
    \/ Clock \/ SupplierChanges \/ Tick \/ Trigger
    \/ \E w \in Workers : Take(w) \/ Work(w) \/ Finish(w) \/ Fail(w) \/ Rebalance(w)

Spec == Init /\ [][Next]_vars

-----------------------------------------------------------------------------
SyncTypeOK ==
    /\ SupplierTypeOK /\ ConnectorTypeOK /\ ScheduleTypeOK
    /\ offset \in 0..Len(jobs) /\ owner \in Workers /\ faults \in 0..MaxFaults
    /\ overlapped \in BOOLEAN /\ shrunk \in BOOLEAN

\* However many workers sync the account at once, a product has one identity and one discovered
\* event, an offer is announced after its product only, and its row has the price last announced.
MintedOnce ==
    \A i \in Items :
        /\ discovered[i] = (IF i \in identity THEN 1 ELSE 0)
        /\ priceEvents[i] # <<>> => discovered[i] = 1
        /\ lastPrice[i] = IF priceEvents[i] = <<>> THEN NoPrice
                          ELSE Price(i, priceEvents[i][Len(priceEvents[i])].version)

\* While syncs take turns, the price events of an offer form a chain: each starts from the price
\* the one before it announced, and none brings an older price of the supplier back.
PricesMoveForward ==
    ~overlapped =>
        \A i \in Items : \A n \in 1..Len(priceEvents[i]) :
            LET e == priceEvents[i][n]
            IN  /\ e.old # Price(i, e.version)
                /\ IF n = 1 THEN e.old = NoPrice
                   ELSE /\ e.old = Price(i, priceEvents[i][n - 1].version)
                        /\ priceEvents[i][n - 1].version < e.version

SyncedKinds == {k \in {"products", "offers"} : \A n \in DOMAIN Schedules : k \in Schedules[n].kind}

\* What the watermark promises: the current state of a product that has not changed since then is
\* staged, product and price, as far as every entry of the schedule asks for them.
Covered(i) ==
    (Listed(i) /\ watermark # NoTime /\ catalogue[i][Latest(i)].at < watermark) =>
        /\ "products" \in SyncedKinds => i \in identity
        /\ (SyncedKinds = {"products", "offers"} /\ Price(i, Latest(i)) \in Prices) =>
              lastPrice[i] = Price(i, Latest(i))

\* The watermark never passes a change that is not staged, through failures, crashes and
\* changes during a sync, while syncs take turns and no list shrinks under the paging.
WatermarkCovers == (~overlapped /\ ~shrunk) => \A i \in Items : Covered(i)

\* The same once redelivered jobs have run beside the first run of the same job and ended.  The
\* code does not have it (sync_handler.py:5 says it does): the run that writes last may have
\* fetched first, and both have set the watermark.
RedeliveryIsSafe == (~shrunk /\ \A w \in Workers : ~Busy(w)) => \A i \in Items : Covered(i)

\* An entry that is reported "ok", and every entry when the scheduler finds nothing due, has been
\* requested within its interval.
EveryEntryRuns ==
    \A n \in DOMAIN Schedules :
        \/ AccountStatus(Schedules[n], now) = "ok"
        \/ tick = NotTicking /\ \A m \in DOMAIN Schedules : ~IsDue(Schedules[m], now)
        => \E j \in DOMAIN jobs :
              /\ jobs[j] = Request(Schedules[n], jobs[j].at)
              /\ now < jobs[j].at + Schedules[n].interval
=============================================================================
