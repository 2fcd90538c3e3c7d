-------------------------- MODULE SyncManagerProofs -------------------------
(***************************************************************************)
(* The safety of the Manager, for any remotes, configurations, goroutines  *)
(* and number of edits, and of the lives of the process that runs it.      *)
(***************************************************************************)
EXTENDS SyncManager, ServerLife, TLAPS

\* The registry, the goroutines and the reconciler keep their types.
THEOREM TypeCorrect == Spec => []TypeOK
<1> USE OffAssumption, NoneAssumption, MaxEditsAssumption
    DEF TypeOK, Rows, tableVars, stopVars, managerVars, workerVars, signalVars
<1>1. Init => TypeOK
  <2> SUFFICES ASSUME Init PROVE TypeOK
    OBVIOUS
  <2>1. edits \in 0..MaxEdits
    BY DEF Init
  <2>2. shutdown \in BOOLEAN /\ mainStop \in BOOLEAN
    BY DEF Init
  <2>3. QED
    BY <2>1, <2>2, Zenon DEF Init
<1>2. TypeOK /\ [Next]_vars => TypeOK'
  <2> SUFFICES ASSUME TypeOK, [Next]_vars PROVE TypeOK'
    OBVIOUS
  <2>1. ASSUME ListRemotes PROVE TypeOK'
    BY <2>1 DEF ListRemotes
  <2>2. ASSUME ListRemotesFails PROVE TypeOK'
    BY <2>2 DEF ListRemotesFails
  <2>3. ASSUME StopOutdated PROVE TypeOK'
    BY <2>3 DEF StopOutdated, Outdated
  <2>4. ASSUME AwaitStopped PROVE TypeOK'
    BY <2>4 DEF AwaitStopped
  <2>5. ASSUME NEW r \in Remotes, NEW s \in Slots, StartWorker(r, s)
        PROVE  TypeOK'
    BY <2>5 DEF StartWorker, Unserved
  <2>6. ASSUME ReconcileEnds PROVE TypeOK'
    BY <2>6 DEF ReconcileEnds
  <2>7. ASSUME ReconcileTick PROVE TypeOK'
    BY <2>7 DEF ReconcileTick
  <2>8. ASSUME StartReturns PROVE TypeOK'
    BY <2>8 DEF StartReturns, StopWorkers, Registered
  <2>9. ASSUME NEW s \in Slots, PassListed(s) PROVE TypeOK'
    BY <2>9 DEF PassListed, WorkerGoto
  <2>10. ASSUME NEW s \in Slots, PassListFails(s) PROVE TypeOK'
    BY <2>10 DEF PassListFails, WorkerGoto
  <2>11. ASSUME NEW s \in Slots, PassEnds(s) PROVE TypeOK'
    BY <2>11 DEF PassEnds, WorkerGoto
  <2>12. ASSUME NEW s \in Slots, PollTick(s) PROVE TypeOK'
    BY <2>12 DEF PollTick, PassBegins, WorkerGoto
  <2>13. ASSUME NEW s \in Slots, TriggeredPass(s) PROVE TypeOK'
    BY <2>13 DEF TriggeredPass, PassBegins, WorkerGoto
  <2>14. ASSUME NEW s \in Slots, WorkerExits(s) PROVE TypeOK'
    BY <2>14 DEF WorkerExits, WorkerGoto
  <2>15. ASSUME NEW r \in Remotes, Trigger(r) PROVE TypeOK'
    BY <2>15 DEF Trigger
  <2>16. ASSUME NEW r \in Remotes, NEW row \in Rows, EditTable(r, row)
        PROVE  TypeOK'
    BY <2>16 DEF EditTable
  <2>17. ASSUME Shutdown PROVE TypeOK'
    BY <2>17 DEF Shutdown
  <2>18. ASSUME MainStops PROVE TypeOK'
    BY <2>18 DEF MainStops, StopWorkers, Registered
  <2>19. CASE UNCHANGED vars
    BY <2>19 DEF vars
  <2>20. QED
    BY <2>1, <2>2, <2>3, <2>4, <2>5, <2>6, <2>7, <2>8, <2>9, <2>10, <2>11,
       <2>12, <2>13, <2>14, <2>15, <2>16, <2>17, <2>18, <2>19
       DEF Next, Manage, Work
<1>3. QED
  BY <1>1, <1>2, PTL DEF Spec

-----------------------------------------------------------------------------
(***************************************************************************)
(* Until the shutdown, a live goroutine either is the registered worker of *)
(* its remote, or has been cancelled by the reconcile under way, which     *)
(* waits for it and has taken its remote out of the registry.  So there is *)
(* at most one for each remote.                                            *)
(*                                                                         *)
(* After the shutdown this is no longer so: Stop empties the registry and  *)
(* waits for nobody, and a reconcile under way may start a second          *)
(* goroutine.  But no goroutine gets from listing to syncing any more, so  *)
(* that those that are mid-sync can only become fewer.                     *)
(***************************************************************************)
RegisteredLive ==
    \A r \in Remotes : workers[r] # None =>
        /\ Live(workers[r])
        /\ wremote[workers[r]] = r
        /\ workers[r] \notin cancelled

LiveAccounted ==
    \A s \in Slots : Live(s) =>
        /\ wremote[s] \in Remotes
        /\ IF s \in cancelled
           THEN /\ mpc = "await"
                /\ s \in awaiting
                /\ workers[wremote[s]] = None
           ELSE workers[wremote[s]] = s

OneLive ==
    \A s, t \in Slots :
        Live(s) /\ Live(t) /\ wremote[s] = wremote[t] => s = t

Running == RegisteredLive /\ LiveAccounted /\ OneLive

WorkerInv == OneWorkerMidSync /\ (~shutdown => Running)

LEMMA WorkerInit == Init => WorkerInv
BY DEF Init, WorkerInv, Running, RegisteredLive, LiveAccounted, OneLive, Live,
       OneWorkerMidSync

\* Goroutines that neither begin to sync nor change remote keep apart.
LEMMA FewerMidSync ==
    ASSUME OneWorkerMidSync,
           \A s \in Slots :
                wpc'[s] = "syncing" =>
                    wpc[s] = "syncing" /\ wremote'[s] = wremote[s]
    PROVE  OneWorkerMidSync'
BY DEF OneWorkerMidSync

\* A step of goroutine s that goes on and leaves the registry alone.
LEMMA GoesOn ==
    ASSUME TypeOK, WorkerInv, NEW s \in Slots, NEW state,
           wpc[s] # "done", state # "done",
           state = "syncing" => ~Cancelled(s),
           wpc' = [wpc EXCEPT ![s] = state],
           UNCHANGED <<stopVars, managerVars, workers, wremote, cancelled>>
    PROVE  WorkerInv'
<1> USE DEF stopVars, managerVars, Live
<1>1. \A t \in Slots : Live(t)' = Live(t)
  BY DEF TypeOK
<1>2. ~shutdown' => Running'
  BY <1>1 DEF WorkerInv, Running, RegisteredLive, LiveAccounted, OneLive, TypeOK
<1>3. OneWorkerMidSync'
  <2>1. CASE state = "syncing"
    <3>1. Running
      BY <2>1 DEF WorkerInv, Cancelled
    <3>2. QED
      BY <1>1, <3>1 DEF Running, OneLive, OneWorkerMidSync
  <2>2. CASE state # "syncing"
    BY <2>2, FewerMidSync DEF WorkerInv, TypeOK
  <2>3. QED
    BY <2>1, <2>2
<1>4. QED
  BY <1>2, <1>3 DEF WorkerInv

LEMMA WorkerStep == TypeOK /\ WorkerInv /\ [Next]_vars => WorkerInv'
<1> USE NoneAssumption
    DEF tableVars, stopVars, managerVars, workerVars, signalVars
<1> SUFFICES ASSUME TypeOK, WorkerInv, [Next]_vars PROVE WorkerInv'
  OBVIOUS
\* Steps of the reconciler that change neither goroutines nor registry.
<1>a. ASSUME UNCHANGED <<stopVars, workers, workerVars, cancelled>>,
             mpc # "await"
      PROVE  WorkerInv'
  BY <1>a DEF WorkerInv, Running, RegisteredLive, LiveAccounted, OneLive, Live,
              OneWorkerMidSync
<1>1. ASSUME ListRemotes PROVE WorkerInv'
  BY <1>1, <1>a DEF ListRemotes
<1>2. ASSUME ListRemotesFails PROVE WorkerInv'
  BY <1>2, <1>a DEF ListRemotesFails
<1>3. ASSUME StopOutdated PROVE WorkerInv'
  <2> DEFINE stopped == {workers[r] : r \in {q \in Remotes : Outdated(q)}}
  <2>1. /\ mpc = "diff" /\ mpc' = "await"
        /\ awaiting' = stopped
        /\ cancelled' = cancelled \cup stopped
        /\ workers' = [r \in Remotes |-> IF Outdated(r) THEN None
                                                        ELSE workers[r]]
        /\ UNCHANGED <<stopVars, workerVars>>
    BY <1>3 DEF StopOutdated
  <2> HIDE DEF stopped
  <2>2. OneWorkerMidSync'
    BY <2>1 DEF WorkerInv, OneWorkerMidSync
  <2>3. ASSUME Running PROVE Running'
    <3>1. \A r \in Remotes :
            workers[r] # None => (workers[r] \in stopped <=> Outdated(r))
      BY <2>3 DEF stopped, Running, RegisteredLive
    <3>2. RegisteredLive'
      BY <2>1, <2>3, <3>1 DEF Running, RegisteredLive, Live
    <3>3. LiveAccounted'
      <4> SUFFICES ASSUME NEW s \in Slots, Live(s)'
                   PROVE  /\ wremote[s] \in Remotes
                          /\ IF s \in cancelled'
                             THEN s \in stopped /\ workers'[wremote[s]] = None
                             ELSE workers'[wremote[s]] = s
        BY <2>1 DEF LiveAccounted
      <4>1. /\ wremote[s] \in Remotes
            /\ s \notin cancelled
            /\ workers[wremote[s]] = s
        BY <2>1, <2>3 DEF Running, LiveAccounted, Live
      <4>2. QED
        BY <2>1, <3>1, <4>1
    <3>4. OneLive'
      BY <2>1, <2>3 DEF Running, OneLive, Live
    <3>5. QED
      BY <3>2, <3>3, <3>4 DEF Running
  <2>4. QED
    BY <2>1, <2>2, <2>3 DEF WorkerInv
<1>4. ASSUME AwaitStopped PROVE WorkerInv'
  BY <1>4 DEF AwaitStopped, WorkerInv, Running, RegisteredLive, LiveAccounted,
              OneLive, Live, OneWorkerMidSync
<1>5. ASSUME NEW r \in Remotes, NEW s \in Slots, StartWorker(r, s)
      PROVE  WorkerInv'
  <2>1. /\ mpc = "launch" /\ workers[r] = None /\ ~Live(s)
        /\ workers' = [workers EXCEPT ![r] = s]
        /\ wpc' = [wpc EXCEPT ![s] = "listing"]
        /\ wremote' = [wremote EXCEPT ![s] = r]
        /\ cancelled' = cancelled \ {s}
        /\ UNCHANGED <<stopVars, managerVars>>
    BY <1>5 DEF StartWorker, Unserved
  <2>2. OneWorkerMidSync'
    BY <2>1, FewerMidSync DEF WorkerInv, TypeOK, Live
  <2>3. ASSUME Running PROVE Running'
    <3>1. \A t \in Slots : t # s =>
            /\ Live(t)' = Live(t)
            /\ wremote'[t] = wremote[t]
            /\ t \in cancelled' <=> t \in cancelled
      BY <2>1 DEF Live, TypeOK
    <3>2. /\ Live(s)' /\ wremote'[s] = r /\ s \notin cancelled'
          /\ workers'[r] = s
          /\ \A q \in Remotes : q # r => workers'[q] = workers[q]
      BY <2>1 DEF Live, TypeOK
    <3>3. \A t \in Slots : Live(t) =>
            /\ t # s /\ wremote[t] \in Remotes \ {r}
            /\ t \notin cancelled
            /\ workers[wremote[t]] = t
      BY <2>1, <2>3 DEF Running, LiveAccounted
    <3>4. RegisteredLive'
      BY <2>3, <3>1, <3>2, <3>3 DEF Running, RegisteredLive, TypeOK
    <3>5. LiveAccounted'
      BY <3>1, <3>2, <3>3 DEF LiveAccounted
    <3>6. OneLive'
      BY <2>3, <3>1, <3>2, <3>3 DEF Running, OneLive
    <3>7. QED
      BY <3>4, <3>5, <3>6 DEF Running
  <2>4. QED
    BY <2>1, <2>2, <2>3 DEF WorkerInv
<1>6. ASSUME ReconcileEnds PROVE WorkerInv'
  BY <1>6, <1>a DEF ReconcileEnds
<1>7. ASSUME ReconcileTick PROVE WorkerInv'
  BY <1>7, <1>a DEF ReconcileTick
<1>8. ASSUME StartReturns PROVE WorkerInv'
  BY <1>8 DEF StartReturns, WorkerInv, OneWorkerMidSync
<1>9. ASSUME NEW s \in Slots, PassListed(s) PROVE WorkerInv'
  BY <1>9, GoesOn DEF PassListed, WorkerGoto
<1>10. ASSUME NEW s \in Slots, PassListFails(s) PROVE WorkerInv'
  BY <1>10, GoesOn DEF PassListFails, WorkerGoto
<1>11. ASSUME NEW s \in Slots, PassEnds(s) PROVE WorkerInv'
  BY <1>11, GoesOn DEF PassEnds, WorkerGoto
<1>12. ASSUME NEW s \in Slots, PassBegins(s) PROVE WorkerInv'
  BY <1>12, GoesOn DEF PassBegins, WorkerGoto
<1>13. ASSUME NEW s \in Slots, WorkerExits(s) PROVE WorkerInv'
  <2>1. /\ Cancelled(s)
        /\ wpc' = [wpc EXCEPT ![s] = "done"]
        /\ wremote' = [wremote EXCEPT ![s] = None]
        /\ UNCHANGED <<stopVars, managerVars, workers, cancelled>>
    BY <1>13 DEF WorkerExits, WorkerGoto
  <2>2. \A t \in Slots : Live(t)' => t # s /\ Live(t) /\ wremote'[t] = wremote[t]
    BY <2>1 DEF Live, TypeOK
  <2>3. OneWorkerMidSync'
    BY <2>1, FewerMidSync DEF WorkerInv, TypeOK
  <2>4. ASSUME Running, ~shutdown PROVE Running'
    <3>1. s \in cancelled
      BY <2>1, <2>4 DEF Cancelled
    <3>2. RegisteredLive'
      BY <2>1, <2>4, <3>1 DEF Running, RegisteredLive, Live, TypeOK
    <3>3. LiveAccounted' /\ OneLive'
      BY <2>1, <2>2, <2>4 DEF Running, LiveAccounted, OneLive
    <3>4. QED
      BY <3>2, <3>3 DEF Running
  <2>5. QED
    BY <2>1, <2>3, <2>4 DEF WorkerInv
\* Steps of others.
<1>b. ASSUME UNCHANGED <<mpc, awaiting, workers, workerVars, cancelled>>,
             shutdown => shutdown'
      PROVE  WorkerInv'
  BY <1>b DEF WorkerInv, Running, RegisteredLive, LiveAccounted, OneLive, Live,
              OneWorkerMidSync
<1>14. ASSUME NEW r \in Remotes, Trigger(r) PROVE WorkerInv'
  BY <1>14, <1>b DEF Trigger
<1>15. ASSUME NEW r \in Remotes, NEW row \in Rows, EditTable(r, row)
      PROVE  WorkerInv'
  BY <1>15, <1>b DEF EditTable
<1>16. ASSUME Shutdown PROVE WorkerInv'
  BY <1>16, <1>b DEF Shutdown
<1>17. ASSUME MainStops PROVE WorkerInv'
  BY <1>17 DEF MainStops, WorkerInv, OneWorkerMidSync
<1>18. CASE UNCHANGED vars
  BY <1>18, <1>b DEF vars
<1>19. QED
  BY <1>1, <1>2, <1>3, <1>4, <1>5, <1>6, <1>7, <1>8, <1>9, <1>10, <1>11,
     <1>12, <1>13, <1>14, <1>15, <1>16, <1>17, <1>18
     DEF Next, Manage, Work, PollTick, TriggeredPass

\* No two goroutines ever sync one remote at the same time: not across a
\* restart, whatever Trigger and Stop do in the middle of it, and not while
\* the server shuts down.
THEOREM RemotesSyncedOneAtATime == Spec => []OneWorkerMidSync
<1>1. WorkerInv => OneWorkerMidSync
  BY DEF WorkerInv
<1>2. QED
  BY <1>1, TypeCorrect, WorkerInit, WorkerStep, PTL DEF Spec

\* Every goroutine that is still to run is one reconcile and Stop can reach.
THEOREM WorkersAreReachable == Spec => []NoOrphanWorker
<1>1. WorkerInv => NoOrphanWorker
  BY DEF WorkerInv, Running, LiveAccounted, NoOrphanWorker, Cancelled
<1>2. QED
  BY <1>1, TypeCorrect, WorkerInit, WorkerStep, PTL DEF Spec

\* The reconciler waits only for goroutines it has cancelled, and only while
\* it awaits them.  So whoever holds it up is on its way out, with the root
\* context or without; it is what "reconcile cannot hang" rests on, beside the
\* fairness of the goroutines.
AwaitInv == awaiting \subseteq cancelled /\ (mpc # "await" => awaiting = {})

LEMMA AwaitStep == AwaitInv /\ [Next]_vars => AwaitInv'
<1> USE DEF AwaitInv, managerVars, signalVars
<1> SUFFICES ASSUME AwaitInv, [Next]_vars PROVE AwaitInv'
  OBVIOUS
<1>1. CASE Manage
  BY <1>1 DEF Manage, ListRemotes, ListRemotesFails, StopOutdated,
              AwaitStopped, StartWorker, ReconcileEnds, ReconcileTick,
              StartReturns, StopWorkers
<1>2. ASSUME NEW s \in Slots, Work(s) \/ PollTick(s) PROVE AwaitInv'
  BY <1>2 DEF Work, PassListed, PassListFails, PassEnds, PollTick,
              TriggeredPass, PassBegins, WorkerExits
<1>3. ASSUME NEW r \in Remotes,
             Trigger(r) \/ \E row \in Rows : EditTable(r, row)
      PROVE  AwaitInv'
  BY <1>3 DEF Trigger, EditTable
<1>4. CASE Shutdown \/ MainStops
  BY <1>4 DEF Shutdown, MainStops, StopWorkers
<1>5. CASE UNCHANGED vars
  BY <1>5 DEF vars
<1>6. QED
  BY <1>1, <1>2, <1>3, <1>4, <1>5 DEF Next

THEOREM AwaitsOnlyCancelled == Spec => []AwaitInv
<1>1. Init => AwaitInv
  BY DEF Init, AwaitInv
<1>2. QED
  BY <1>1, AwaitStep, PTL DEF Spec

\* Until the shutdown, an accepted trigger that no pass has answered is in
\* the channel of the worker now registered for its remote, or the remote has
\* no worker: no poll, restart or edit loses the signal and leaves the remote
\* with a worker that does not know of it.
TriggerInv ==
    ~shutdown =>
        \A r \in Remotes :
            reply[r] = "accepted" /\ workers[r] # None => workers[r] \in triggers

LEMMA TriggerStep ==
    TypeOK /\ WorkerInv /\ TriggerInv /\ [Next]_vars => TriggerInv'
<1> USE NoneAssumption
    DEF tableVars, stopVars, managerVars, workerVars, signalVars
<1> SUFFICES ASSUME TypeOK, WorkerInv, TriggerInv, [Next]_vars, ~shutdown'
             PROVE  TriggerInv'
  BY DEF TriggerInv
<1>a. ~shutdown
  BY DEF Next, Manage, Work, PollTick, TriggeredPass, ListRemotes,
         ListRemotesFails, StopOutdated, AwaitStopped, StartWorker,
         ReconcileEnds, ReconcileTick, StartReturns, PassListed,
         PassListFails, PassEnds, PassBegins, WorkerExits, Trigger, EditTable,
         Shutdown, MainStops, vars
<1>b. RegisteredLive /\ LiveAccounted
  BY <1>a DEF WorkerInv, Running
\* Steps that leave the registry, the channels and the answers alone.
<1>c. ASSUME UNCHANGED <<workers, triggers, reply>> PROVE TriggerInv'
  BY <1>a, <1>c DEF TriggerInv
<1>1. ASSUME ListRemotes \/ ListRemotesFails \/ AwaitStopped
             \/ ReconcileEnds \/ ReconcileTick
      PROVE  TriggerInv'
  BY <1>1, <1>c DEF ListRemotes, ListRemotesFails, AwaitStopped,
                    ReconcileEnds, ReconcileTick
<1>2. ASSUME StopOutdated PROVE TriggerInv'
  BY <1>a, <1>2 DEF StopOutdated, TriggerInv
\* The goroutine is nobody's, and its remote is taken to be asked anew.
<1>3. ASSUME NEW r \in Remotes, NEW s \in Slots, StartWorker(r, s)
      PROVE  TriggerInv'
  <2>1. /\ ~Live(s)
        /\ workers' = [workers EXCEPT ![r] = s]
        /\ triggers' = triggers \ {s}
        /\ reply' = IF reply[r] = "accepted"
                    THEN [reply EXCEPT ![r] = "none"] ELSE reply
    BY <1>a, <1>3 DEF StartWorker
  <2>2. \A q \in Remotes : workers[q] # s
    BY <1>b, <2>1 DEF RegisteredLive
  <2>3. reply'[r] # "accepted"
    BY <2>1 DEF TypeOK
  <2>4. \A q \in Remotes \ {r} : reply'[q] = reply[q] /\ workers'[q] = workers[q]
    BY <2>1 DEF TypeOK
  <2>5. QED
    BY <1>a, <2>1, <2>2, <2>3, <2>4 DEF TriggerInv
<1>4. ASSUME StartReturns PROVE TriggerInv'
  BY <1>a, <1>4 DEF StartReturns
<1>5. ASSUME NEW s \in Slots, PassListed(s) \/ PassListFails(s) \/ PassEnds(s)
      PROVE  TriggerInv'
  BY <1>5, <1>c DEF PassListed, PassListFails, PassEnds
\* A registered worker is not cancelled: the pass it begins answers for its
\* remote, whether or not it took the signal.
<1>6. ASSUME NEW s \in Slots, PassBegins(s),
             UNCHANGED triggers \/ triggers' = triggers \ {s}
      PROVE  TriggerInv'
  <2>1. Live(s) /\ UNCHANGED workers
    BY <1>6 DEF PassBegins, Live
  <2>2. wremote[s] \in Remotes
    BY <1>b, <2>1 DEF LiveAccounted
  <2>3. reply' = IF ~Cancelled(s) /\ reply[wremote[s]] = "accepted"
                 THEN [reply EXCEPT ![wremote[s]] = "none"] ELSE reply
    BY <1>6 DEF PassBegins
  <2>4. \A q \in Remotes : workers[q] = s => reply'[q] # "accepted"
    <3>1. SUFFICES ASSUME NEW q \in Remotes, workers[q] = s
                   PROVE  reply'[q] # "accepted"
      OBVIOUS
    <3>2. wremote[s] = q /\ ~Cancelled(s)
      BY <1>a, <1>b, <3>1 DEF RegisteredLive, Cancelled
    <3>3. QED
      BY <2>3, <3>2 DEF TypeOK
  <2>5. \A q \in Remotes : reply'[q] = "accepted" => reply[q] = "accepted"
    BY <2>2, <2>3 DEF TypeOK
  <2>6. QED
    BY <1>a, <1>6, <2>1, <2>4, <2>5 DEF TriggerInv
<1>7. ASSUME NEW s \in Slots, WorkerExits(s) PROVE TriggerInv'
  <2>1. /\ s \in cancelled
        /\ triggers' = triggers \ {s}
        /\ UNCHANGED <<workers, reply>>
    BY <1>a, <1>7 DEF WorkerExits, Cancelled
  <2>2. \A q \in Remotes : workers[q] # s
    BY <1>b, <2>1 DEF RegisteredLive, TypeOK
  <2>3. QED
    BY <1>a, <2>1, <2>2 DEF TriggerInv
<1>8. ASSUME NEW r \in Remotes, Trigger(r) PROVE TriggerInv'
  BY <1>a, <1>8 DEF Trigger, TriggerInv, TypeOK
<1>9. ASSUME NEW r \in Remotes, NEW row \in Rows, EditTable(r, row)
      PROVE  TriggerInv'
  BY <1>9, <1>c DEF EditTable
<1>10. ASSUME Shutdown \/ MainStops PROVE TriggerInv'
  BY <1>a, <1>10 DEF Shutdown, MainStops
<1>11. CASE UNCHANGED vars
  BY <1>11, <1>c DEF vars
<1>12. QED
  BY <1>1, <1>2, <1>3, <1>4, <1>5, <1>6, <1>7, <1>8, <1>9, <1>10, <1>11
     DEF Next, Manage, Work, PollTick, TriggeredPass

THEOREM TriggersAreNotLost == Spec => []TriggerInv
<1>1. Init => TriggerInv
  BY DEF Init, TriggerInv
<1>2. QED
  BY <1>1, TypeCorrect, WorkerInit, WorkerStep, TriggerStep, PTL DEF Spec

-----------------------------------------------------------------------------
(***************************************************************************)
(* The lives of the process that runs the Manager (ServerLife), for any    *)
(* number of constraints, versions and ends.                               *)
(***************************************************************************)

\* A key is generated only in a life that found none, and no life that got
\* as far as opening server.key leaves none behind; so the key in memory is
\* from the first the one that is written, and then the one that is kept.
LifeKeyInv ==
    /\ generated <= ends + 1
    /\ private = Missing /\ stage \in {"down", "ensure"} => generated <= ends
    /\ private \notin Keys => public = Missing
    /\ public \in {private, Missing, Cut}
    /\ stage = "private" => private = Missing
    /\ stage = "private_opened" => private = Cut
    /\ stage \in {"private", "private_opened"} => key = generated /\ key \in Keys
    /\ stage \in {"public", "public_opened"} => key = private /\ key \in Keys
    /\ stage = "load" => private # Missing
    /\ stage \in {"migrate", "seed", "serve"} => key = private /\ key \in Keys

\* Every constraint the migration has come past is there, whichever life
\* added it.
LifeMigrateInv ==
    /\ 1..looked \subseteq constraints
    /\ stage \in {"seed", "serve"} => looked = Constraints

\* IndexBackfilled is not inductive: a version that was found and has not
\* been come past is still left or under way, a version is under way alone,
\* and a cut index is one being written or one that an earlier write left.
LifeIndexInv ==
    /\ stage # "serve" => backfill = NoBackfill
    /\ backfill.found \subseteq Existing
    /\ backfill.at \in {"look", "done"} => backfill.current = {}
    /\ \A v, w \in backfill.current : v = w
    /\ backfill.at = "done" => backfill.left = {}
    /\ backfill.at = "write" => \A v \in backfill.current : index[v] # "missing"
    /\ \A v \in Versions : index[v] = "cut" =>
            v \in interrupted \/ (backfill.at = "write" /\ v \in backfill.current)
    /\ backfill.at \in {"look", "open", "write", "done"} =>
        \A v \in backfill.found :
            v \in backfill.left \cup backfill.current \/ index[v] \in {"cut", "whole"}

LifeInv == LifeTypeOK /\ LifeKeyInv /\ LifeMigrateInv /\ LifeIndexInv

BackfillStates ==
    [at : {"off", "list", "look", "open", "write", "done", "failed"},
     left : SUBSET Versions, current : SUBSET Versions, found : SUBSET Versions]

LEMMA NoBackfillTyped == NoBackfill \in BackfillStates
BY DEF NoBackfill, BackfillStates

LEMMA LifeTypeInitially == LifeInit => LifeTypeOK
<1> SUFFICES ASSUME LifeInit PROVE LifeTypeOK
  OBVIOUS
<1>1. backfill \in BackfillStates
  BY NoBackfillTyped DEF LifeInit
<1>2. index \in [Versions -> {"no_version", "missing", "cut", "whole"}]
  BY DEF LifeInit
<1>3. looked \in 0..Constraints /\ ends \in 0..MaxEnds
  BY BoundsAssumption DEF LifeInit
<1>4. QED
  BY <1>1, <1>2, <1>3 DEF LifeInit, LifeTypeOK, BackfillStates

\* What the end of a process leaves typed.
LEMMA GoneTyped ==
    ASSUME LifeTypeOK, Gone
    PROVE  /\ stage' = "down" /\ key' = Missing /\ looked' \in 0..Constraints
           /\ backfill' \in BackfillStates /\ interrupted' \subseteq Versions
<1>1. backfill.current \subseteq Versions
  BY DEF LifeTypeOK
<1>2. QED
  BY <1>1, NoBackfillTyped, BoundsAssumption DEF LifeTypeOK, Gone

\* What the goroutine leaves typed, and what it does not touch.
LEMMA BackfillTyped ==
    ASSUME LifeTypeOK, BackfillStep
    PROVE  /\ backfill' \in BackfillStates
           /\ index' \in [Versions -> {"no_version", "missing", "cut", "whole"}]
           /\ interrupted' \subseteq Versions
           /\ UNCHANGED <<stage, keyVars, key, dataVars, looked, ends>>
<1> USE DEF Backfill, diskVars, BackfillStates
<1> DEFINE Typed ==
        /\ backfill' \in BackfillStates
        /\ index' \in [Versions -> {"no_version", "missing", "cut", "whole"}]
        /\ interrupted' \subseteq Versions
        /\ UNCHANGED <<stage, keyVars, key, dataVars, looked, ends>>
<1>1. /\ backfill \in BackfillStates
      /\ index \in [Versions -> {"no_version", "missing", "cut", "whole"}]
      /\ interrupted \subseteq Versions
  BY DEF LifeTypeOK
<1>2. CASE ListVersions
  <2>1. backfill' = [at |-> "look", left |-> Existing, current |-> {},
                     found |-> Existing]
    BY <1>2 DEF ListVersions, NoBackfill
  <2>2. Existing \subseteq Versions
    BY DEF Existing
  <2>3. QED
    BY <1>1, <1>2, <2>1, <2>2 DEF ListVersions
<1>3. ASSUME NEW v \in Versions, IndexFound(v) PROVE Typed
  BY <1>1, <1>3 DEF IndexFound
<1>4. ASSUME NEW v \in Versions, ScanVersion(v) PROVE Typed
  BY <1>1, <1>4 DEF ScanVersion
<1>5. ASSUME NEW v \in Versions, VersionGone(v) PROVE Typed
  BY <1>1, <1>5 DEF VersionGone
<1>6. ASSUME NEW v \in Versions, OpenIndex(v) PROVE Typed
  BY <1>1, <1>6 DEF OpenIndex
<1>7. ASSUME NEW v \in Versions, WriteIndex(v) PROVE Typed
  <2>1. index' \in [Versions -> {"no_version", "missing", "cut", "whole"}]
    BY <1>1, <1>7 DEF WriteIndex
  <2>2. QED
    BY <1>1, <1>7, <2>1 DEF WriteIndex
<1>8. ASSUME NEW v \in Versions, WriteIndexFails(v) PROVE Typed
  BY <1>1, <1>8 DEF WriteIndexFails
<1>9. CASE BackfillEnds
  BY <1>1, <1>9 DEF BackfillEnds
<1>10. QED
  BY <1>2, <1>3, <1>4, <1>5, <1>6, <1>7, <1>8, <1>9 DEF BackfillStep

LEMMA LifeTypeStep ==
    LifeTypeOK /\ LifeKeyInv /\ [LifeNext]_lifeVars => LifeTypeOK'
<1> USE DEF LifeTypeOK, Go, keyVars, dataVars, diskVars
<1> SUFFICES ASSUME LifeTypeOK, LifeKeyInv, [LifeNext]_lifeVars
             PROVE  LifeTypeOK'
  OBVIOUS
<1>1. CASE Start
  BY <1>1 DEF Start
<1>2. CASE LeavePair
  BY <1>2 DEF LeavePair
<1>3. CASE GeneratePair
  <2>1. generated' \in Keys
    BY <1>3, BoundsAssumption DEF GeneratePair, PairExists, LifeKeyInv, Keys
  <2>2. QED
    BY <1>3, <2>1 DEF GeneratePair
<1>4. CASE WritePrivate
  <2>1. private' \in Keys \cup {Missing, Cut}
    BY <1>4 DEF WritePrivate, LifeKeyInv
  <2>2. QED
    BY <1>4, <2>1 DEF WritePrivate
<1>5. CASE WritePublic
  <2>1. public' \in Keys \cup {Missing, Cut}
    BY <1>5 DEF WritePublic, LifeKeyInv
  <2>2. QED
    BY <1>5, <2>1 DEF WritePublic
<1>6. CASE Load
  <2>1. key' \in Keys \cup {Missing}
    BY <1>6 DEF Load
  <2>2. QED
    BY <1>6, <2>1 DEF Load
<1>7. CASE LoadFails
  BY <1>7, GoneTyped DEF LoadFails, BackfillStates
<1>8. CASE AddConstraint
  <2>1. looked' \in 0..Constraints /\ constraints' \subseteq 1..Constraints
    BY <1>8, BoundsAssumption DEF AddConstraint
  <2>2. QED
    BY <1>8, <2>1 DEF AddConstraint
<1>9. CASE Migrated
  BY <1>9 DEF Migrated
<1>10. CASE SeedUser
  <2>1. backfill' \in BackfillStates
    BY <1>10 DEF SeedUser, NoBackfill, BackfillStates
  <2>2. account' \in {"absent", "seeded", "changed"}
    BY <1>10 DEF SeedUser
  <2>3. QED
    BY <1>10, <2>1, <2>2 DEF SeedUser, BackfillStates
<1>11. CASE BackfillStep
  BY <1>11, BackfillTyped DEF BackfillStates
<1>12. ASSUME NEW v \in Versions, Publish(v) PROVE LifeTypeOK'
  BY <1>12 DEF Publish
<1>13. ASSUME NEW v \in Versions, RemoveVersion(v) PROVE LifeTypeOK'
  BY <1>13 DEF RemoveVersion
<1>14. CASE ChangeAccount
  BY <1>14 DEF ChangeAccount
<1>15. CASE End
  <2>1. ends' \in 0..MaxEnds
    BY <1>15, BoundsAssumption DEF End
  <2>2. QED
    BY <1>15, <2>1, GoneTyped DEF End, BackfillStates
<1>16. CASE UNCHANGED lifeVars
  BY <1>16 DEF lifeVars
<1>17. QED
  BY <1>1, <1>2, <1>3, <1>4, <1>5, <1>6, <1>7, <1>8, <1>9, <1>10, <1>11,
     <1>12, <1>13, <1>14, <1>15, <1>16 DEF LifeNext, Life

LEMMA LifeKeyStep ==
    LifeTypeOK /\ LifeKeyInv /\ [LifeNext]_lifeVars => LifeKeyInv'
<1> USE BoundsAssumption
    DEF LifeTypeOK, LifeKeyInv, Keys, Missing, Cut, Go, keyVars
<1> SUFFICES ASSUME LifeTypeOK, LifeKeyInv, [LifeNext]_lifeVars
             PROVE  LifeKeyInv'
  OBVIOUS
<1>1. CASE Start
  BY <1>1 DEF Start
<1>2. CASE LeavePair
  BY <1>2 DEF LeavePair, PairExists
<1>3. CASE GeneratePair
  BY <1>3 DEF GeneratePair, PairExists
<1>4. CASE WritePrivate
  BY <1>4 DEF WritePrivate
<1>5. CASE WritePublic
  BY <1>5 DEF WritePublic
<1>6. CASE Load
  BY <1>6 DEF Load
<1>7. CASE LoadFails
  BY <1>7 DEF LoadFails, Gone
<1>8. CASE AddConstraint
  BY <1>8 DEF AddConstraint
<1>9. CASE Migrated
  BY <1>9 DEF Migrated
<1>10. CASE SeedUser
  BY <1>10 DEF SeedUser
<1>11. CASE BackfillStep
  BY <1>11, BackfillTyped
<1>12. ASSUME NEW v \in Versions, Publish(v) \/ RemoveVersion(v)
       PROVE  LifeKeyInv'
  BY <1>12 DEF Publish, RemoveVersion
<1>13. CASE ChangeAccount
  BY <1>13 DEF ChangeAccount
<1>14. CASE End
  BY <1>14 DEF End, Gone
<1>15. CASE UNCHANGED lifeVars
  BY <1>15 DEF lifeVars
<1>16. QED
  BY <1>1, <1>2, <1>3, <1>4, <1>5, <1>6, <1>7, <1>8, <1>9, <1>10, <1>11,
     <1>12, <1>13, <1>14, <1>15 DEF LifeNext, Life

LEMMA LifeMigrateStep ==
    LifeTypeOK /\ LifeMigrateInv /\ [LifeNext]_lifeVars => LifeMigrateInv'
<1> USE BoundsAssumption DEF LifeTypeOK, LifeMigrateInv, Go, dataVars
<1> SUFFICES ASSUME LifeTypeOK, LifeMigrateInv, [LifeNext]_lifeVars
             PROVE  LifeMigrateInv'
  OBVIOUS
<1>1. CASE Start \/ LeavePair \/ GeneratePair \/ WritePrivate \/ WritePublic
  BY <1>1 DEF Start, LeavePair, GeneratePair, WritePrivate, WritePublic
<1>2. CASE Load
  BY <1>2 DEF Load
<1>3. CASE LoadFails \/ End
  BY <1>3 DEF LoadFails, End, Gone
<1>4. CASE AddConstraint
  BY <1>4 DEF AddConstraint
<1>5. CASE Migrated
  BY <1>5 DEF Migrated
<1>6. CASE SeedUser
  BY <1>6 DEF SeedUser
<1>7. CASE BackfillStep
  BY <1>7, BackfillTyped
<1>8. ASSUME NEW v \in Versions, Publish(v) \/ RemoveVersion(v)
      PROVE  LifeMigrateInv'
  BY <1>8 DEF Publish, RemoveVersion
<1>9. CASE ChangeAccount
  BY <1>9 DEF ChangeAccount
<1>10. CASE UNCHANGED lifeVars
  BY <1>10 DEF lifeVars
<1>11. QED
  BY <1>1, <1>2, <1>3, <1>4, <1>5, <1>6, <1>7, <1>8, <1>9, <1>10
     DEF LifeNext, Life

\* The process is gone, or another has not yet come to the indexes.
LEMMA GoneIndexed ==
    ASSUME LifeTypeOK, LifeIndexInv, Gone, UNCHANGED index
    PROVE  LifeIndexInv'
BY DEF LifeTypeOK, LifeIndexInv, Gone, NoBackfill, Existing

LEMMA LifeIndexStep ==
    LifeTypeOK /\ LifeIndexInv /\ [LifeNext]_lifeVars => LifeIndexInv'
<1> USE DEF LifeTypeOK, LifeIndexInv, NoBackfill, Existing, Go, diskVars
<1> SUFFICES ASSUME LifeTypeOK, LifeIndexInv, [LifeNext]_lifeVars
             PROVE  LifeIndexInv'
  OBVIOUS
<1>1. CASE \/ Start \/ LeavePair \/ GeneratePair \/ WritePrivate \/ WritePublic
           \/ Load \/ AddConstraint \/ Migrated
  BY <1>1 DEF Start, LeavePair, GeneratePair, WritePrivate, WritePublic, Load,
              AddConstraint, Migrated
<1>2. CASE LoadFails \/ End
  BY <1>2, GoneIndexed DEF LoadFails, End
<1>3. CASE SeedUser
  BY <1>3 DEF SeedUser
<1>4. CASE ListVersions
  BY <1>4 DEF ListVersions, Backfill
<1>5. ASSUME NEW v \in Versions, IndexFound(v) PROVE LifeIndexInv'
  BY <1>5 DEF IndexFound, Backfill
<1>6. ASSUME NEW v \in Versions, ScanVersion(v) PROVE LifeIndexInv'
  BY <1>6 DEF ScanVersion, Backfill
<1>7. ASSUME NEW v \in Versions, VersionGone(v) PROVE LifeIndexInv'
  BY <1>7 DEF VersionGone, Backfill
<1>8. ASSUME NEW v \in Versions, OpenIndex(v) PROVE LifeIndexInv'
  BY <1>8 DEF OpenIndex, Backfill
<1>9. ASSUME NEW v \in Versions, WriteIndex(v) PROVE LifeIndexInv'
  BY <1>9 DEF WriteIndex, Backfill
<1>10. ASSUME NEW v \in Versions, WriteIndexFails(v) PROVE LifeIndexInv'
  BY <1>10 DEF WriteIndexFails, Backfill
<1>11. CASE BackfillEnds
  BY <1>11 DEF BackfillEnds, Backfill
<1>12. ASSUME NEW v \in Versions, Publish(v) PROVE LifeIndexInv'
  BY <1>12 DEF Publish
<1>13. ASSUME NEW v \in Versions, RemoveVersion(v) PROVE LifeIndexInv'
  BY <1>13 DEF RemoveVersion
<1>14. CASE ChangeAccount
  BY <1>14 DEF ChangeAccount
<1>15. CASE UNCHANGED lifeVars
  BY <1>15 DEF lifeVars
<1>16. QED
  BY <1>1, <1>2, <1>3, <1>4, <1>5, <1>6, <1>7, <1>8, <1>9, <1>10, <1>11,
     <1>12, <1>13, <1>14, <1>15 DEF LifeNext, Life, BackfillStep

LEMMA LifeInitially == LifeInit => LifeInv
<1> SUFFICES ASSUME LifeInit PROVE LifeInv
  OBVIOUS
<1>1. LifeKeyInv
  BY BoundsAssumption DEF LifeInit, LifeKeyInv, Keys, Missing, Cut
<1>2. LifeMigrateInv
  BY DEF LifeInit, LifeMigrateInv
<1>3. LifeIndexInv
  BY DEF LifeInit, LifeIndexInv, NoBackfill, Existing
<1>4. QED
  BY <1>1, <1>2, <1>3, LifeTypeInitially DEF LifeInv

LEMMA LifeStep == LifeInv /\ [LifeNext]_lifeVars => LifeInv'
BY LifeTypeStep, LifeKeyStep, LifeMigrateStep, LifeIndexStep DEF LifeInv

\* The server's state keeps its types through all its lives.
THEOREM LifeTypeCorrect == LifeSpec => []LifeTypeOK
<1>1. LifeInv => LifeTypeOK
  BY DEF LifeInv
<1>2. QED
  BY <1>1, LifeInitially, LifeStep, PTL DEF LifeSpec

\* However many lives ended at whichever step, one that serves has the key
\* that its keys directory keeps and every foreign key in the database.
THEOREM ServesReadyCorrect == LifeSpec => []ServesReady
<1>1. LifeInv => ServesReady
  <2> SUFFICES ASSUME LifeInv, stage = "serve" PROVE ServesReady
    BY DEF ServesReady
  <2>1. private \in Keys /\ key = private /\ public \in {private, Missing, Cut}
    BY DEF LifeInv, LifeKeyInv
  <2>2. constraints = 1..Constraints
    BY DEF LifeInv, LifeTypeOK, LifeMigrateInv
  <2>3. QED
    BY <2>1, <2>2 DEF ServesReady
<1>2. QED
  BY <1>1, LifeInitially, LifeStep, PTL DEF LifeSpec

\* A finished backfill leaves an index in every version it found, cut only
\* where an earlier backfill was stopped, whatever is published and removed
\* beside it.
THEOREM IndexBackfilledCorrect == LifeSpec => []IndexBackfilled
<1>1. LifeInv => IndexBackfilled
  BY DEF LifeInv, LifeTypeOK, LifeIndexInv, IndexBackfilled
<1>2. QED
  BY <1>1, LifeInitially, LifeStep, PTL DEF LifeSpec

\* No step of any life takes back a key once written, and none of start-up
\* an account an administrator has changed.
THEOREM RestartKeepsCorrect == LifeSpec => RestartKeeps
<1> DEFINE Kept ==
        /\ private \in Keys => private' = private
        /\ (stage # "serve" /\ account = "changed") => account' = account
<1>1. ASSUME LifeInv, [LifeNext]_lifeVars PROVE Kept
  <2> USE <1>1 DEF Go, keyVars, dataVars
  <2>1. CASE \/ Start \/ LeavePair \/ GeneratePair \/ WritePublic \/ Load
             \/ LoadFails \/ AddConstraint \/ Migrated \/ SeedUser
    BY <2>1 DEF Start, LeavePair, GeneratePair, WritePublic, Load, LoadFails,
                AddConstraint, Migrated, SeedUser
  <2>2. CASE WritePrivate
    BY <2>2, BoundsAssumption
       DEF WritePrivate, LifeInv, LifeKeyInv, Keys, Missing, Cut
  <2>3. CASE BackfillStep
    BY <2>3, BackfillTyped DEF LifeInv
  <2>4. CASE \E v \in Versions : Publish(v) \/ RemoveVersion(v)
    BY <2>4 DEF Publish, RemoveVersion
  <2>5. CASE ChangeAccount \/ End
    BY <2>5 DEF ChangeAccount, End
  <2>6. CASE UNCHANGED lifeVars
    BY <2>6 DEF lifeVars
  <2>7. QED
    BY <2>1, <2>2, <2>3, <2>4, <2>5, <2>6 DEF LifeNext, Life
<1>2. QED
  BY <1>1, LifeInitially, LifeStep, PTL DEF LifeSpec, RestartKeeps
=============================================================================
