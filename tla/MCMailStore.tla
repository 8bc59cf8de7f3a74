----------------------------- MODULE MCMailStore -----------------------------
(* Instances of the mail store for TLC.  A behaviour is about the sync, over  *)
(* labelled messages, or about the pipeline and the operator.                *)
EXTENDS Ingest

\* What the patterns say of the bodies that the first message takes one after
\* the other: confidential, nothing, sensitive.
ConfidentialBodies == {<<1, 1>>}
SensitiveBodies == {<<1, 1>>, <<1, 3>>}

\* The table is up to date with these messages and this body, which the worker
\* has derived from its first prompts, or not yet.
Synced(ms, body) ==
    /\ inbox = [m \in Msg |-> IF m \in ms THEN body ELSE 0] /\ changed = inbox
    /\ rows = [m \in Msg |-> [marker |-> inbox[m], deleted |-> FALSE]]
    /\ link = head /\ body <= head /\ expiries = MaxExpiries /\ rounds = MaxRounds
    /\ booted = 1

NotYet ==
    /\ sens = [m \in Msg |-> NoLabel] /\ derived = [m \in Msg |-> Nothing]
    /\ keys = [m \in Msg |-> NoKeys] /\ judged = [m \in Msg |-> {}]

\* The worker has been through these messages; a forced one is confidential,
\* and no paid task got it.
Given(body) == IF Forces(1, body) = "none" THEN "normal" ELSE "confidential"
Filled(body, t) == t # "fine_class" /\ (Given(body) = "normal" \/ t \notin PaidTask)

Derived(ms, body) ==
    /\ sens = [m \in Msg |-> IF m \in ms THEN [class |-> Given(body), version |-> 1] ELSE NoLabel]
    /\ derived = [m \in Msg |-> [t \in Task |-> IF m \in ms /\ Filled(body, t)
                    THEN [body |-> body, version |-> 1, made |-> 1] ELSE NoValue]]
    /\ keys = [m \in Msg |-> [t \in Task |-> IF m \in ms /\ Filled(body, t)
                    THEN [body |-> body, version |-> 1] ELSE NoKey]]
    /\ judged = [m \in Msg |-> IF m \in ms THEN {body} ELSE {}]

\* Both messages are in the table, the first has left and come back.
OnSync ==
    /\ inbox = [m \in Msg |-> 1] /\ changed = inbox /\ head = 1
    /\ rows = [m \in Msg |-> [marker |-> 1, deleted |-> FALSE]] /\ link = 1
    /\ expiries = 0 /\ rounds = 0 /\ faults = 0 /\ jobs = MaxJobs
    /\ Derived(Msg, 1) /\ policy = MaxVersion /\ booted = MaxVersion

\* The worker alone: past a message it has no answer for, or while the body
\* of a message changes.
OnDrain ==
    /\ NotYet /\ policy = 1 /\ jobs = MaxJobs /\ faults = 0
    /\ \E body \in 1..MaxChanges :
        \/ Synced(Msg, body) /\ head = MaxChanges
        \/ Synced({1}, body) /\ head = MaxChanges - 1

\* The operator and the worker on one message, then the operator, with newer
\* prompts, while its body changes.
OnCommand ==
    \E body \in 1..MaxChanges :
        /\ Synced({1}, body)
        /\ \/ /\ NotYet /\ head = MaxChanges /\ faults = 0 /\ policy = 1 /\ jobs = 1
              /\ Forces(1, body) # "none"
           \/ /\ Derived({1}, body) /\ head = MaxChanges - 1 /\ faults = MaxFaults
              /\ policy = MaxVersion /\ jobs = IF body = 1 THEN 0 ELSE 1

ScenarioInit ==
    /\ head \in {1, MaxChanges - 1, MaxChanges}
    /\ OnSync \/ OnDrain \/ OnCommand
    /\ floor = 0 /\ syncer = [s \in Syncer |-> IdleSyncer]
    /\ fired = [s \in Syncer |-> FALSE]
    /\ notices = 0 /\ missed = {} /\ revived = {} /\ skipped = {} /\ mixed = FALSE
    /\ human = [m \in Msg |-> FALSE] /\ actor = [a \in Actor |-> Idle]
    /\ overlapped = {} /\ torn = {} /\ relabelled = {} /\ foreign = {} /\ exposed = {}

ScenarioSpec == ScenarioInit /\ [][IngestNext]_ingestVars /\ IngestFairness
=============================================================================
