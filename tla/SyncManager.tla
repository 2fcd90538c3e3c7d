---------------------------- MODULE SyncManager ----------------------------
(***************************************************************************)
(* Manager: one worker goroutine per enabled sync_remotes row, kept in     *)
(* step with the table by a reconciler that polls it, while administrators *)
(* edit the rows and trigger passes, passes take as long as they take, and *)
(* the server shuts down.                                                  *)
(*                                                                         *)
(* What a pass does to a map is in VersionPublish and MirrorPass; here it  *)
(* is only "mid-sync" for a while.                                         *)
(***************************************************************************)
EXTENDS Integers

CONSTANTS
    Remotes,  \* sync_remotes ids
    Configs,  \* what configChanged compares: URL, key, interval, policy
    Off,      \* the row is absent or disabled
    Slots,    \* goroutines a worker may run on; a finished one is reused
    None,
    MaxEdits  \* bound: changes administrators make to the table

ASSUME OffAssumption == Off \notin Configs
ASSUME NoneAssumption == None \notin Remotes \cup Configs \cup Slots
ASSUME MaxEditsAssumption == MaxEdits \in Nat

VARIABLES
    table,     \* remote -> its row's configuration, or Off
    edits,     \* how many edits the table has had
    shutdown,  \* the root context is cancelled
    mainStop,  \* main has made its own call of Stop
    mpc,       \* where the goroutine running Start is
    desired,   \* remote -> configuration, as reconcile last read the table
    awaiting,  \* slots whose done channel reconcile waits for
    workers,   \* m.workers: remote -> slot of its worker, or None
    wpc,       \* slot -> where its goroutine is
    wremote,   \* slot -> the remote it syncs
    wconfig,   \* slot -> the configuration it was started with
    cancelled, \* slots whose own context is cancelled
    triggers,  \* slots whose trigger channel holds a signal
    reply      \* remote -> what Trigger last answered; see Trigger

tableVars == <<table, edits>>
stopVars == <<shutdown, mainStop>>
managerVars == <<mpc, desired, awaiting>>
workerVars == <<wpc, wremote, wconfig>>
signalVars == <<cancelled, triggers>>
vars == <<tableVars, stopVars, managerVars, workers, workerVars, signalVars,
          reply>>

Rows == Configs \cup {Off}

TypeOK ==
    /\ table \in [Remotes -> Rows]
    /\ edits \in 0..MaxEdits
    /\ shutdown \in BOOLEAN
    /\ mainStop \in BOOLEAN
    /\ mpc \in {"list", "diff", "await", "launch", "sleep", "returned"}
    /\ desired \in [Remotes -> Rows]
    /\ awaiting \in SUBSET Slots
    /\ workers \in [Remotes -> Slots \cup {None}]
    /\ wpc \in [Slots -> {"listing", "syncing", "waiting", "done"}]
    /\ wremote \in [Slots -> Remotes \cup {None}]
    /\ wconfig \in [Slots -> Configs \cup {None}]
    /\ cancelled \in SUBSET Slots
    /\ triggers \in SUBSET Slots
    /\ reply \in [Remotes -> {"none", "accepted", "notRunning"}]

Init ==
    /\ table \in [Remotes -> Rows]
    /\ edits = 0
    /\ shutdown = FALSE
    /\ mainStop = FALSE
    /\ mpc = "list"
    /\ desired = [r \in Remotes |-> Off]
    /\ awaiting = {}
    /\ workers = [r \in Remotes |-> None]
    /\ wpc = [s \in Slots |-> "done"]
    /\ wremote = [s \in Slots |-> None]
    /\ wconfig = [s \in Slots |-> None]
    /\ cancelled = {}
    /\ triggers = {}
    /\ reply = [r \in Remotes |-> "none"]

\* The reconciler's two critical sections exclude Trigger and Stop; only the
\* second one takes several steps here.
MuFree == mpc # "launch"

Live(s) == wpc[s] # "done"

\* A worker's context is derived from the root context.
Cancelled(s) == shutdown \/ s \in cancelled

Registered == {workers[r] : r \in Remotes} \ {None}

-----------------------------------------------------------------------------
(***************************************************************************)
(* Manager.Start and Manager.reconcile                                     *)
(***************************************************************************)
\* ListSyncRemotes, and EnsureSyncUser if there is any row.
ListRemotes ==
    /\ mpc = "list"
    /\ ~shutdown
    /\ desired' = table
    /\ mpc' = "diff"
    /\ UNCHANGED <<tableVars, stopVars, awaiting, workers, workerVars,
                   signalVars, reply>>

\* Either statement fails, as both do once the context is cancelled.
ListRemotesFails ==
    /\ mpc = "list"
    /\ mpc' = "sleep"
    /\ UNCHANGED <<tableVars, stopVars, desired, awaiting, workers,
                   workerVars, signalVars, reply>>

\* Mutant: configChanged never says yes.
Outdated_OnlyIfGone(r) == workers[r] # None /\ desired[r] = Off

\* Removed or disabled, or configChanged.
Outdated(r) == workers[r] # None /\ wconfig[workers[r]] # desired[r]

\* Mutant: the worker leaves the registry and nobody cancels it.
StopOutdated_NoCancel ==
    /\ mpc = "diff"
    /\ workers' = [r \in Remotes |-> IF Outdated(r) THEN None
                                                    ELSE workers[r]]
    /\ mpc' = "await"
    /\ UNCHANGED <<tableVars, stopVars, desired, awaiting, workerVars,
                   signalVars, reply>>

StopOutdated ==
    /\ mpc = "diff"
    /\ LET stopped == {workers[r] : r \in {q \in Remotes : Outdated(q)}}
       IN  /\ awaiting' = stopped
           /\ cancelled' = cancelled \cup stopped
    /\ workers' = [r \in Remotes |-> IF Outdated(r) THEN None
                                                    ELSE workers[r]]
    /\ mpc' = "await"
    /\ UNCHANGED <<tableVars, stopVars, desired, workerVars, triggers, reply>>

\* Mutant: the replacement does not wait for the worker it replaces.
AwaitStopped_NoWait ==
    /\ mpc = "await"
    /\ awaiting' = {}
    /\ mpc' = "launch"
    /\ UNCHANGED <<tableVars, stopVars, desired, workers, workerVars,
                   signalVars, reply>>

AwaitStopped ==
    /\ mpc = "await"
    /\ \A s \in awaiting : ~Live(s)
    /\ awaiting' = {}
    /\ mpc' = "launch"
    /\ UNCHANGED <<tableVars, stopVars, desired, workers, workerVars,
                   signalVars, reply>>

\* The remotes to restart are among the desired ones without a worker.
Unserved(r) == desired[r] # Off /\ workers[r] = None

StartWorker(r, s) ==
    /\ mpc = "launch"
    /\ Unserved(r)
    /\ ~Live(s)
    /\ workers' = [workers EXCEPT ![r] = s]
    /\ wpc' = [wpc EXCEPT ![s] = "listing"]
    /\ wremote' = [wremote EXCEPT ![s] = r]
    /\ wconfig' = [wconfig EXCEPT ![s] = desired[r]]
    /\ cancelled' = cancelled \ {s}
    /\ triggers' = triggers \ {s}
    /\ UNCHANGED <<tableVars, stopVars, managerVars>>
    /\ reply' = IF reply[r] = "accepted" /\ ~shutdown
                THEN [reply EXCEPT ![r] = "none"] ELSE reply

ReconcileEnds ==
    /\ mpc = "launch"
    /\ \A r \in Remotes : ~Unserved(r)
    /\ mpc' = "sleep"
    /\ UNCHANGED <<tableVars, stopVars, desired, awaiting, workers,
                   workerVars, signalVars, reply>>

ReconcileTick ==
    /\ mpc = "sleep"
    /\ mpc' = "list"
    /\ UNCHANGED <<tableVars, stopVars, desired, awaiting, workers,
                   workerVars, signalVars, reply>>

\* Manager.Stop: cancel every worker, and wait for none.
StopWorkers ==
    /\ cancelled' = cancelled \cup Registered
    /\ workers' = [r \in Remotes |-> None]

StartReturns ==
    /\ mpc = "sleep"
    /\ shutdown
    /\ StopWorkers
    /\ mpc' = "returned"
    /\ UNCHANGED <<tableVars, stopVars, desired, awaiting, workerVars,
                   triggers, reply>>

-----------------------------------------------------------------------------
(***************************************************************************)
(* runRemote and runOnce, on slot s                                        *)
(***************************************************************************)
WorkerGoto(s, state) == wpc' = [wpc EXCEPT ![s] = state]

\* The pass asks the remote for its maps, and with the answer it goes on.
PassListed(s) ==
    /\ wpc[s] = "listing"
    /\ ~Cancelled(s)
    /\ WorkerGoto(s, "syncing")
    /\ UNCHANGED <<tableVars, stopVars, managerVars, workers, wremote,
                   wconfig, signalVars, reply>>

\* The remote does not answer, as it cannot to a cancelled request.
PassListFails(s) ==
    /\ wpc[s] = "listing"
    /\ WorkerGoto(s, "waiting")
    /\ UNCHANGED <<tableVars, stopVars, managerVars, workers, wremote,
                   wconfig, signalVars, reply>>

\* Every map is mirrored, or an error (or the cancellation) stopped it.
PassEnds(s) ==
    /\ wpc[s] = "syncing"
    /\ WorkerGoto(s, "waiting")
    /\ UNCHANGED <<tableVars, stopVars, managerVars, workers, wremote,
                   wconfig, signalVars, reply>>

\* A pass that a live worker begins answers the triggers accepted so far.
PassBegins(s) ==
    /\ wpc[s] = "waiting"
    /\ WorkerGoto(s, "listing")
    /\ reply' = IF ~Cancelled(s) /\ reply[wremote[s]] = "accepted"
                THEN [reply EXCEPT ![wremote[s]] = "none"] ELSE reply
    /\ UNCHANGED <<tableVars, stopVars, managerVars, workers, wremote,
                   wconfig, cancelled>>

PollTick(s) == PassBegins(s) /\ UNCHANGED triggers

TriggeredPass(s) ==
    /\ s \in triggers
    /\ PassBegins(s)
    /\ triggers' = triggers \ {s}

\* Mutant: ctx.Done() leaves the select and not the loop.
WorkerExits_LoopsOn(s) ==
    /\ wpc[s] = "waiting"
    /\ Cancelled(s)
    /\ UNCHANGED vars

WorkerExits(s) ==
    /\ wpc[s] = "waiting"
    /\ Cancelled(s)
    /\ WorkerGoto(s, "done")
    /\ wremote' = [wremote EXCEPT ![s] = None]
    /\ wconfig' = [wconfig EXCEPT ![s] = None]
    /\ triggers' = triggers \ {s}
    /\ UNCHANGED <<tableVars, stopVars, managerVars, workers, cancelled,
                   reply>>

-----------------------------------------------------------------------------
(***************************************************************************)
(* The administrator and the operating system                              *)
(***************************************************************************)
\* Create, update or delete a row.
EditTable(r, row) ==
    /\ edits < MaxEdits
    /\ row # table[r]
    /\ table' = [table EXCEPT ![r] = row]
    /\ edits' = edits + 1
    /\ UNCHANGED <<stopVars, managerVars, workers, workerVars, signalVars,
                   reply>>

\* Mutant: the channel has no buffer, so a worker in a pass misses the signal.
Trigger_Unbuffered(r) ==
    /\ MuFree
    /\ \/ /\ workers[r] # None
          /\ triggers' = IF wpc[workers[r]] = "waiting"
                         THEN triggers \cup {workers[r]} ELSE triggers
          /\ reply' = [reply EXCEPT ![r] = "accepted"]
       \/ /\ workers[r] = None
          /\ reply' = [reply EXCEPT ![r] = "notRunning"]
          /\ UNCHANGED triggers
    /\ UNCHANGED <<tableVars, stopVars, managerVars, workers, workerVars,
                   cancelled>>

\* "accepted" stays until a pass begins that the trigger could have asked
\* for; "notRunning" is ErrRemoteNotRunning.
Trigger(r) ==
    /\ MuFree
    /\ \/ /\ workers[r] # None
          /\ triggers' = triggers \cup {workers[r]}
          /\ reply' = [reply EXCEPT ![r] = "accepted"]
       \/ /\ workers[r] = None
          /\ reply' = [reply EXCEPT ![r] = "notRunning"]
          /\ UNCHANGED triggers
    /\ UNCHANGED <<tableVars, stopVars, managerVars, workers, workerVars,
                   cancelled>>

Shutdown ==
    /\ ~shutdown
    /\ shutdown' = TRUE
    /\ UNCHANGED <<tableVars, mainStop, managerVars, workers, workerVars,
                   signalVars, reply>>

\* main's shutdown goroutine calls Stop too, beside the one in Start.
MainStops ==
    /\ shutdown
    /\ ~mainStop
    /\ MuFree
    /\ StopWorkers
    /\ mainStop' = TRUE
    /\ UNCHANGED <<tableVars, shutdown, managerVars, workerVars, triggers,
                   reply>>

Manage ==
    \/ ListRemotes
    \/ ListRemotesFails
    \/ StopOutdated
    \/ AwaitStopped
    \/ \E r \in Remotes, s \in Slots : StartWorker(r, s)
    \/ ReconcileEnds
    \/ ReconcileTick
    \/ StartReturns

Work(s) ==
    \/ PassListed(s)
    \/ PassListFails(s)
    \/ PassEnds(s)
    \/ TriggeredPass(s)
    \/ WorkerExits(s)

Next ==
    \/ Manage
    \/ \E s \in Slots : Work(s) \/ PollTick(s)
    \/ \E r \in Remotes : Trigger(r) \/ \E row \in Rows : EditTable(r, row)
    \/ Shutdown
    \/ MainStops

\* Goroutines run, passes end (the client has timeouts), the table can be
\* read again and again, and a select that finds a channel ready every time
\* it looks does not overlook it for ever. The poll interval may be as long
\* as the administrator likes, so nothing is promised of PollTick.
Fairness ==
    /\ WF_vars(Manage)
    /\ SF_vars(ListRemotes)
    /\ SF_vars(StartReturns)
    /\ WF_vars(MainStops)
    /\ \A s \in Slots :
        /\ WF_vars(Work(s))
        /\ SF_vars(WorkerExits(s))
        /\ SF_vars(TriggeredPass(s))

Spec == Init /\ [][Next]_vars
FairSpec == Spec /\ Fairness

-----------------------------------------------------------------------------
(***************************************************************************)
(* Properties                                                              *)
(***************************************************************************)
\* Two goroutines never sync one remote's directories at the same time: not
\* across a restart, which reconcile makes wait for the old worker, and not
\* across a Stop that empties the registry between the two halves of a
\* reconcile and waits for nobody.
OneWorkerMidSync ==
    \A s, t \in Slots :
        wpc[s] = "syncing" /\ wpc[t] = "syncing" /\ wremote[s] = wremote[t]
            => s = t

\* A goroutine nobody has cancelled is the registered worker of its remote:
\* otherwise neither reconcile nor Stop could ever reach it again.
NoOrphanWorker ==
    \A s \in Slots :
        Live(s) /\ ~Cancelled(s) => workers[wremote[s]] = s

\* Once edits cease, the workers come to be, and stay, exactly those the
\* table asks for, each with the configuration of its row.
Settled ==
    \A r \in Remotes :
        IF table[r] = Off
        THEN workers[r] = None
        ELSE workers[r] # None /\ wconfig[workers[r]] = table[r]
Converges == <>[](shutdown \/ Settled)

\* A shutdown ends Start and every worker goroutine, also those that a
\* reconcile under way starts after Stop was called.
AllStop == shutdown ~> (mpc = "returned" /\ \A s \in Slots : ~Live(s))

\* An accepted trigger is followed by the beginning of a pass for its
\* remote, however long the poll interval: by the worker that took the
\* signal, or by its replacement. A remote that is switched off, and a
\* shutdown, forget it.
TriggerServed ==
    \A r \in Remotes :
        reply[r] = "accepted"
            ~> (reply[r] # "accepted" \/ table[r] = Off \/ shutdown)
=============================================================================
