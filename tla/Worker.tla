-------------------------------- MODULE Worker --------------------------------
(***************************************************************************)
(* The worker process: the interval tasks its scheduler drives (sync with  *)
(* its health alarm, outbox recovery, the token refresh), the drainer task *)
(* with its heartbeat, and what a death of the process takes with it.      *)
(* The process is restarted by the container, with its memory empty and    *)
(* the database as it was.                                                 *)
(*                                                                         *)
(* Composes NotificationOutbox (the alarm is an urgent notification, the   *)
(* recovery sweep is one of the tasks) and GraphWrites (the drainer's      *)
(* adapter reads the token cell that a task and the hook refresh).         *)
(***************************************************************************)
EXTENDS NotificationOutbox, GraphWrites

CONSTANTS
    SyncTask,     \* the sync interval task, as a sender of notifications
    AlarmCategory,
    MaxSyncs      \* model bound: sync iterations

ASSUME WorkerAssumption ==
    /\ SyncTask \in Sender
    /\ AlarmCategory \in Category /\ MaxSyncs \in Nat

VARIABLES
    health,       \* worker_health.last_outcome, per component
    sync,         \* where the sync task is, and how its last run_once ended
    alarmFired,   \* WorkerState.alarm_fired_for_episode
    drainerUp,    \* ~drainer_task.done()
    syncs         \* history variable: iterations

workerVars == <<health, sync, alarmFired, drainerUp, syncs>>
allVars == <<outboxVars, graphVars, workerVars>>
-----------------------------------------------------------------------------
Component == {"sync", "actions_drainer"}

WorkerInit ==
    /\ OutboxInit /\ GraphInit
    /\ health = [c \in Component |-> "none"]
    /\ sync = [pc |-> "sleep", ended |-> "none", raised |-> FALSE]
    /\ alarmFired = FALSE /\ drainerUp = TRUE
    /\ syncs = 0

SyncGoto(pc) == sync' = [sync EXCEPT !.pc = pc]
QueuesKeep   == UNCHANGED <<outboxVars, graphVars>>

\* run_once; a failure is caught and becomes the failed heartbeat.
RunSync ==
    /\ sync.pc = "sleep" /\ syncs < MaxSyncs
    /\ syncs' = syncs + 1
    /\ \E outcome \in {"ok", "failed"} :
            sync' = [pc |-> "beat", ended |-> outcome, raised |-> FALSE]
    /\ UNCHANGED <<health, alarmFired, drainerUp>> /\ QueuesKeep

\* A success closes the episode.
SyncBeat ==
    /\ sync.pc = "beat"
    /\ health' = [health EXCEPT !["sync"] = sync.ended]
    /\ alarmFired' = (alarmFired /\ sync.ended = "failed")
    /\ SyncGoto("alarm")
    /\ UNCHANGED <<drainerUp, syncs>> /\ QueuesKeep

\* Mutant: the alarm is an important notification.
MutCheckAlarm ==
    /\ sync.pc = "alarm"
    /\ IF health["sync"] = "failed" /\ ~alarmFired
       THEN /\ sender[SyncTask].pc = "idle" /\ sent < MaxEvents
            /\ Send(SyncTask, "important", AlarmCategory)
            /\ SyncGoto("alarming")
       ELSE SyncGoto("wrap") /\ UNCHANGED outboxVars
    /\ UNCHANGED <<health, alarmFired, drainerUp, syncs, graphVars>>

\* _check_alarm; the heartbeat it reads was just written, so only its outcome
\* and never its age decides.
CheckAlarm ==
    /\ sync.pc = "alarm"
    /\ IF health["sync"] = "failed" /\ ~alarmFired
       THEN /\ sender[SyncTask].pc = "idle" /\ sent < MaxEvents
            /\ Send(SyncTask, "urgent", AlarmCategory)
            /\ SyncGoto("alarming")
       ELSE SyncGoto("wrap") /\ UNCHANGED outboxVars
    /\ UNCHANGED <<health, alarmFired, drainerUp, syncs, graphVars>>

\* send_urgent returned, whether it enqueued, collapsed or was muted.
AlarmSent ==
    /\ sync.pc = "alarming" /\ sender[SyncTask].pc = "idle"
    /\ alarmFired' = TRUE
    /\ SyncGoto("wrap")
    /\ UNCHANGED <<health, drainerUp, syncs>> /\ QueuesKeep

\* send_urgent raised to the scheduler's catch.
AlarmRaises ==
    /\ sync.pc = "alarming" /\ SenderFails(SyncTask)
    /\ sync' = [sync EXCEPT !.pc = "wrap", !.raised = TRUE]
    /\ UNCHANGED <<health, alarmFired, drainerUp, syncs, graphVars>>

\* The scheduler's own heartbeat reports whether the task raised.
WrapBeat ==
    /\ sync.pc = "wrap"
    /\ health' = [health EXCEPT !["sync"] = IF sync.raised THEN "failed" ELSE "ok"]
    /\ SyncGoto("sleep")
    /\ UNCHANGED <<alarmFired, drainerUp, syncs>> /\ QueuesKeep

\* The heartbeat loop of the drainer polls its task.
DrainerBeat ==
    /\ health' = [health EXCEPT !["actions_drainer"] = IF drainerUp THEN "ok" ELSE "failed"]
    /\ health' # health
    /\ UNCHANGED <<sync, alarmFired, drainerUp, syncs>> /\ QueuesKeep

\* The drainer's task ends for good (its loop catches every Exception).
DrainerEnds ==
    /\ drainerUp /\ call.pc = "idle" /\ Fault
    /\ drainerUp' = FALSE
    /\ UNCHANGED <<health, sync, alarmFired, syncs, graphVars>>
    /\ UNCHANGED <<outbox, sent, sender>> /\ SenderKeeps

\* The process dies, and the container with it: worker and API start again,
\* their memory and the calls they were serving gone, the token cell warmed
\* from the database.
Restart ==
    /\ Fault
    /\ sender' = [s \in Sender |-> IdleSender]
    /\ puller' = [p \in Puller |-> IF puller[p].pc \in {"claim", "fetch"} THEN IdlePuller
                                   ELSE puller[p]]
    /\ lateAcks' = {}
    /\ StartAgain
    /\ sync' = [pc |-> "sleep", ended |-> "none", raised |-> FALSE]
    /\ alarmFired' = FALSE /\ drainerUp' = TRUE
    /\ UNCHANGED <<outbox, muted, urgentOnly, digest, printed, posted, dropped,
                   sent, noise, reclaimed, crossed, health, syncs>>
-----------------------------------------------------------------------------
WorkerKeeps == UNCHANGED <<workerVars, graphVars>>

Other == Sender \ {SyncTask}

WorkerStep ==
    \/ RunSync \/ SyncBeat \/ CheckAlarm \/ AlarmSent \/ AlarmRaises \/ WrapBeat
    \/ DrainerBeat \/ DrainerEnds \/ Restart

OutboxStep ==
    \/ \E s \in Sender : SendStep(s)
    \/ \E s \in Other : SenderFails(s) \/ \E t \in Tier, c \in Category : Send(s, t, c)
    \/ \E p \in Puller : DeliverStep(p) \/ DeliveryFault(p)
    \/ \E c \in lateAcks : LateAck(c)
    \/ Reclaim \/ HermesStep \/ DigestStep \/ OperatorStep \/ TimeStep

GraphStep == (drainerUp \/ call.pc # "idle") /\ CallStep

WorkerNext ==
    \/ WorkerStep
    \/ OutboxStep /\ WorkerKeeps
    \/ GraphStep /\ UNCHANGED <<outboxVars, workerVars>>
    \/ TokenStep /\ UNCHANGED <<outboxVars, workerVars>>

WorkerSpec == WorkerInit /\ [][WorkerNext]_allVars

\* Interval tasks and loops run again and again; a claim nobody serves gets old;
\* Hermes posts what it does not drop.
WorkerFairness ==
    /\ \A s \in Sender : WF_allVars(SendStep(s) /\ WorkerKeeps)
    /\ \A p \in Puller : WF_allVars(DeliverStep(p) /\ WorkerKeeps)
    /\ WF_allVars(Reclaim /\ WorkerKeeps)
    /\ WF_allVars((\E m \in Undelivered : HermesPosts(m)) /\ WorkerKeeps)
    /\ WF_allVars((\E i \in DOMAIN outbox : Sticks(i)) /\ WorkerKeeps)
    /\ WF_allVars(SyncBeat) /\ WF_allVars(CheckAlarm)
    /\ WF_allVars(AlarmSent) /\ WF_allVars(WrapBeat)

FairWorkerSpec == WorkerSpec /\ WorkerFairness
-----------------------------------------------------------------------------
SendersOf(tier) == IF tier = "urgent" THEN Sender ELSE Other

\* The dedup bounds the noise: rows of one category and tier that wait, are
\* fresh and were never pulled stay below the threshold, but for the senders
\* that counted before one another's inserts.
NoiseBound ==
    \A t \in Tier, c \in Category :
        Cardinality({i \in Similar(t, c) : outbox[i].attempts = 0})
            < DedupThreshold + Cardinality(SendersOf(t))

\* A failing sync is heard of in Discord, unless the category is muted, the
\* sender or the process died, or its deliverers gave the row up.
SyncFailureHeard ==
    sync.pc = "alarming" /\ sender[SyncTask].pc = "mute"
    ~> \/ faults > 0 \/ muted[AlarmCategory] # "no"
       \/ \E m \in posted : /\ outbox[m.id].category = AlarmCategory
                            /\ outbox[m.id].tier = "urgent"
       \/ \E i \in DOMAIN outbox : /\ outbox[i].category = AlarmCategory
                                   /\ outbox[i].status = "failed_max_retries"
=============================================================================
