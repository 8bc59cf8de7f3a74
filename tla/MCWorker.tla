------------------------------- MODULE MCWorker -------------------------------
(* Instances of Worker for TLC.  Its parts hardly meet, so a behaviour spends *)
(* its bounded events on one of them: the outbox, the sync alarm or a call.   *)
EXTENDS Worker

Waiting == [tier |-> "important", category |-> AlarmCategory, told |-> {1},
            status |-> "pending", attempts |-> 0, stuck |-> FALSE, old |-> FALSE]

NoTokens == stored = MaxTokens /\ live = {}
\* The worker has been up: its drainer's heartbeat is written.
Beating  == health["actions_drainer"] = "ok"
OnOutbox == Beating /\ sent = MaxEvents - 2 /\ noise = MaxNoise /\ syncs = MaxSyncs /\ calls = MaxCalls /\ NoTokens
\* A row waits for the digest; what joins it?
OnSend   == ~Beating /\ sent = MaxEvents - 2 /\ outbox = <<Waiting>> /\ faults = MaxFaults
            /\ noise = MaxNoise /\ syncs = MaxSyncs /\ calls = MaxCalls /\ NoTokens
OnSync   == Beating /\ sent = MaxEvents - 1 /\ noise = MaxNoise /\ syncs = 0 /\ calls = MaxCalls
            /\ NoTokens
OnNoise  == ~Beating /\ sent = MaxEvents - 1 /\ noise = 0 /\ syncs = MaxSyncs /\ calls = MaxCalls
            /\ NoTokens
OnGraph  == ~Beating /\ sent = MaxEvents /\ noise = MaxNoise /\ syncs = MaxSyncs /\ calls = 0
            /\ live = 1 .. stored

ScenarioInit ==
    /\ outbox \in {<<>>, <<Waiting>>}
    /\ muted = [c \in Category |-> "no"] /\ urgentOnly = FALSE
    /\ sender = [s \in Sender |-> IdleSender]
    /\ puller = [p \in Puller |-> IdlePuller]
    /\ lateAcks = {} /\ digest = IdleDigest
    /\ printed = {} /\ posted = {} /\ dropped = {}
    /\ reclaimed = {} /\ crossed = {} /\ faults \in {0, MaxFaults}
    /\ stored \in {0, 1, MaxTokens} /\ cell = stored /\ live \in {{}, 1 .. stored}
    /\ call = IdleCall
    /\ executed = 0 /\ lost = 0 /\ requests = 0 /\ offered = 0 /\ hookErrors = 0
    /\ health \in {[c \in Component |-> "none"],
                   [sync |-> "none", actions_drainer |-> "ok"]}
    /\ sync = [pc |-> "sleep", ended |-> "none", raised |-> FALSE]
    /\ alarmFired = FALSE /\ drainerUp = TRUE
    /\ sent \in 0 .. MaxEvents /\ noise \in {0, MaxNoise}
    /\ syncs \in {0, MaxSyncs} /\ calls \in {0, MaxCalls}
    /\ OnSend \/ (faults = 0 /\ outbox = <<>> /\ (OnOutbox \/ OnSync \/ OnNoise \/ OnGraph))

ScenarioSpec == ScenarioInit /\ [][WorkerNext]_allVars /\ WorkerFairness
=============================================================================
