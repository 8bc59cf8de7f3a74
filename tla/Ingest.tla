-------------------------------- MODULE Ingest --------------------------------
(***************************************************************************)
(* What becomes of a synced message: it gets a sensitivity label, from the *)
(* local model and then from the owner's patterns, and after it a row of   *)
(* derived values, each stamped with a key of the body and the prompt it   *)
(* was made from.  The worker drains the messages without a label; the     *)
(* operator runs one message (`ingest.pipeline --email-id`) or re-derives  *)
(* one task for many (`mailbot rederive`) in a process of its own, over    *)
(* the same tables, while the sync rewrites the bodies.                    *)
(*                                                                         *)
(* Abstractions.  A body is the change marker of its row: every change     *)
(* brings another body.  The patterns match the sender, the subject and    *)
(* the body, so what they force is a matter of the body at hand; their     *)
(* file is read when a process starts and does not change.  All prompts    *)
(* have one version.  Enrichment of senders and threads, which may fail    *)
(* and is never retried, is left out.                                      *)
(***************************************************************************)
EXTENDS MailSync, Sequences, SequencesExt

CONSTANTS
    Operator,        \* the process of the CLI; the worker's is Worker
    Task,            \* tasks the policy lists
    PaidTask,        \* those it gives to an API model
    Stuck,           \* external: messages the local model has no answer for
    ForceConfidential, \* external: the bodies of messages that a rule of
    ForceSensitive,  \* force_confidential, of force_sensitive matches
    BatchSize,       \* BATCH_SIZE
    MaxVersion,      \* model bound: prompt versions
    MaxJobs          \* model bound: commands of the operator

RouterTasks == <<"coarse_class", "fine_class", "summary_short",
                 "importance_scoring", "action_extraction">>

ASSUME IngestAssumption ==
    /\ Operator # Worker
    /\ Task \cap {NULL, "pipeline", "sensitivity_class"} = {}
    /\ PaidTask \subseteq Task /\ Task \subseteq ToSet(RouterTasks) \cup {"embedding"}
    /\ PaidTask \subseteq ToSet(RouterTasks)
    /\ Stuck \subseteq Msg
    /\ ForceConfidential \subseteq Msg \X Nat /\ ForceSensitive \subseteq Msg \X Nat
    /\ BatchSize \in Nat \ {0} /\ {MaxVersion, MaxJobs} \subseteq Nat

VARIABLES
    sens,       \* emails: sensitivity (NULL: sensitivity_at is) and prompt_v
    derived,    \* emails: body a value comes from (0: none), its prompt_v, and
                \* (history variable) the prompt it was made with
    human,      \* emails: class_coarse = 'human'
    keys,       \* derivations_idempotency
    policy,     \* prompt version in policy.yaml
    booted,     \* the one the worker has read
    actor,      \* locals of run_batch and execute_rederive
    jobs,       \* history variable: commands so far
    overlapped, \* history variable: messages two actors worked on at one time
    torn,       \* history variable: messages an actor died on between two writes
    relabelled, \* history variable: messages given a label by rederive
    judged,     \* history variable: bodies of a message the patterns were held to
    foreign,    \* history variable: messages and tasks rederive went through for
                \* a version that is not its policy's
    exposed     \* history variable: bodies an API model has read

histories == <<overlapped, torn, relabelled, judged, foreign, exposed>>
pipeVars == <<sens, derived, human, keys, policy, booted, actor, jobs, histories>>
ingestVars == <<syncVars, pipeVars>>
-----------------------------------------------------------------------------
Actor == {Worker, Operator}
NoLabel == [class |-> NULL, version |-> 0]
NoValue == [body |-> 0, version |-> 0, made |-> 0]
NoKey == [body |-> 0, version |-> 0]
Idle == [pc |-> "idle", job |-> NULL, queue |-> <<>>, msg |-> 0, body |-> 0,
         text |-> 0, asked |-> 0, version |-> 0, step |-> 0, label |-> NULL,
         human |-> FALSE]

\* The pipeline's order: the router's tasks, then the embedding.
Steps == SelectSeq(Append(RouterTasks, "embedding"), LAMBDA t : t \in Task)
Nothing == [t \in Task |-> NoValue]
NoKeys == [t \in Task |-> NoKey]

IngestInit ==
    /\ sens = [m \in Msg |-> NoLabel]
    /\ derived = [m \in Msg |-> Nothing] /\ keys = [m \in Msg |-> NoKeys]
    /\ human = [m \in Msg |-> FALSE]
    /\ policy = 1 /\ booted = 1
    /\ actor = [a \in Actor |-> Idle]
    /\ jobs = 0
    /\ overlapped = {} /\ torn = {} /\ relabelled = {}
    /\ judged = [m \in Msg |-> {}] /\ foreign = {} /\ exposed = {}

Classified(m) == sens[m].class # NULL
Unprocessed == {m \in Msg : Live(m) /\ ~Classified(m)}

\* ORDER BY received_at DESC
NewestFirst(ms) == {q \in [1 .. Cardinality(ms) -> ms] :
                        \A i, j \in DOMAIN q : i < j => q[i] > q[j]}

Set(a, new) == actor' = [actor EXCEPT ![a] = new]
At(a, pc) == actor[a].pc = pc
Rederiving(a) == actor[a].job \notin {NULL, "pipeline"}

\* What one actor does to its message leaves the rest alone.
SyncKeeps == UNCHANGED <<graphVars, rows, link, syncer, fired, notices, missed,
                         revived, skipped, mixed, rounds>>
LocalStep == SyncKeeps /\ UNCHANGED <<sens, derived, human, keys, policy, booted, jobs,
                                      histories>>
RowStep == SyncKeeps /\ UNCHANGED <<policy, booted, jobs, overlapped, torn, foreign>>
-----------------------------------------------------------------------------
(* Work to do. *)

\* Mutant: the limit is one short.
MutBatch(ms) == {SubSeq(q, 1, BatchSize - 1) : q \in NewestFirst(ms)}

Batch(ms) == {SubSeq(q, 1, IF Len(q) < BatchSize THEN Len(q) ELSE BatchSize) :
                q \in NewestFirst(ms)}

\* A tick of the worker: one batch of the messages without a label.
SelectBatch ==
    /\ At(Worker, "idle") /\ Unprocessed # {}
    /\ \E batch \in Batch(Unprocessed) :
            Set(Worker, [Idle EXCEPT !.pc = "next", !.job = "pipeline",
                                     !.queue = batch, !.asked = booted,
                                     !.version = booted])
    /\ NoFault /\ LocalStep

\* The process of a command has the policy of that moment.
Command(new) ==
    /\ At(Operator, "idle") /\ jobs < MaxJobs
    /\ jobs' = jobs + 1
    /\ Set(Operator, [new EXCEPT !.asked = policy])
    /\ NoFault /\ SyncKeeps
    /\ UNCHANGED <<sens, derived, human, keys, policy, booted, histories>>

ProcessOne(m) ==
    /\ rows[m].marker # 0
    /\ Command([Idle EXCEPT !.pc = "next", !.job = "pipeline", !.queue = <<m>>,
                            !.version = policy])

\* plan_rederive selects what another version made, or nothing did.
Selected(t, target) ==
    {m \in Msg : /\ Live(m)
                 /\ CASE t = "sensitivity_class" -> sens[m].version # target
                      [] t = "fine_class" -> derived[m][t].version # target /\ human[m]
                      [] OTHER -> derived[m][t].version # target}

\* --prompt-v may name any version: values and keys are stamped with it, the
\* label and the prompt that is asked are the policy's.
Rederive(t, target) ==
    LET ms == Selected(t, target)
    IN /\ ms # {}
       /\ t # "sensitivity_class" => \A m \in ms : Classified(m)
       /\ \E plan \in NewestFirst(ms) :
            Command([Idle EXCEPT !.pc = "next", !.job = t, !.queue = plan,
                !.version = IF t = "sensitivity_class" THEN policy ELSE target])

FirstPc(job) == CASE job = "pipeline" -> "label"
                  [] job \in {"sensitivity_class", "embedding"} -> "clear"
                  [] OTHER -> "ask"

\* The next message of the batch or the plan.  The body read here goes into
\* the prompts and the keys.
NextMessage(a) ==
    /\ At(a, "next")
    /\ LET new == actor[a].queue[1]
       IN /\ Set(a, [actor[a] EXCEPT !.pc = FirstPc(actor[a].job), !.queue = Tail(@),
                    !.msg = new, !.body = rows[new].marker, !.text = rows[new].marker,
                    !.step = 1, !.label = NULL, !.human = FALSE])
          /\ overlapped' = IF \E o \in Actor \ {a} : actor[o].msg = new
                           THEN overlapped \cup {new} ELSE overlapped
          /\ foreign' = IF actor[a].asked # actor[a].version
                        THEN foreign \cup {<<new, actor[a].job>>} ELSE foreign
    /\ NoFault /\ SyncKeeps
    /\ UNCHANGED <<sens, derived, human, keys, policy, booted, jobs, torn,
                   relabelled, judged, exposed>>

\* One message is done or has failed; the failure of one never stops the rest.
Finished(a) == IF actor[a].queue = <<>> THEN Idle
               ELSE [actor[a] EXCEPT !.pc = "next", !.msg = 0]
-----------------------------------------------------------------------------
(* Sensitivity. *)

CheckLabel(a) ==
    /\ At(a, "label")
    /\ Set(a, [actor[a] EXCEPT !.pc =
                IF Classified(actor[a].msg) THEN "key" ELSE "rate"])
    /\ NoFault /\ LocalStep

\* The cautious floor: an unsure normal is sensitive.
Floored(label, sure) == IF label = "normal" /\ ~sure THEN "sensitive" ELSE label

\* classify_sensitivity writes what the model said; the pipeline then applies
\* the patterns, rederive goes on to its next message.
Rate(a) ==
    /\ At(a, "rate") /\ actor[a].msg \notin Stuck
    /\ \E label \in {"normal", "sensitive", "confidential"}, sure \in BOOLEAN :
        LET m == actor[a].msg
            class == Floored(label, sure)
        IN /\ sens' = [sens EXCEPT ![m] = [class |-> class, version |-> actor[a].version]]
           /\ IF Rederiving(a)
              THEN Set(a, Finished(a)) /\ relabelled' = relabelled \cup {m}
              ELSE /\ Set(a, [actor[a] EXCEPT !.pc = "override", !.label = class])
                   /\ UNCHANGED relabelled
    /\ NoFault /\ RowStep /\ UNCHANGED <<derived, human, keys, judged, exposed>>

RateFails(a) ==
    /\ At(a, "rate")
    /\ IF actor[a].msg \in Stuck THEN NoFault ELSE Fault
    /\ Set(a, Finished(a)) /\ LocalStep

\* What the patterns force on a message with this body; a rule of
\* force_confidential comes before any of force_sensitive.
Forces(m, body) == CASE <<m, body>> \in ForceConfidential -> "confidential"
                     [] <<m, body>> \in ForceSensitive \ ForceConfidential -> "sensitive"
                     [] OTHER -> "none"

\* Mutant: a label that is not normal stands.
MutForced(m, body, label) ==
    IF label = "normal" /\ Forces(m, body) # "none" THEN Forces(m, body) ELSE label

\* Confidential always wins, sensitive only over normal.
Forced(m, body, label) ==
    IF \/ Forces(m, body) = "confidential"
       \/ Forces(m, body) = "sensitive" /\ label = "normal"
    THEN Forces(m, body) ELSE label

\* The pattern pass reads the row again, which need not hold the body that the
\* label or the prompts of this run are made from.  A rule that fires
\* overwrites the label, whoever wrote it since.
Override(a) ==
    /\ At(a, "override")
    /\ LET m == actor[a].msg
           body == rows[m].marker
           final == Forced(m, body, actor[a].label)
       IN /\ sens' = IF Forces(m, body) = "confidential" \/ final # actor[a].label
                     THEN [sens EXCEPT ![m].class = final] ELSE sens
          /\ judged' = [judged EXCEPT ![m] = @ \cup {body}]
    /\ Set(a, [actor[a] EXCEPT !.pc = "key"])
    /\ NoFault /\ RowStep /\ UNCHANGED <<derived, human, keys, relabelled, exposed>>
-----------------------------------------------------------------------------
(* The derived values. *)

\* The task an actor is at.
Current(a) == IF Rederiving(a) THEN actor[a].job ELSE Steps[actor[a].step]

Passed(a) == IF Rederiving(a) \/ actor[a].step = Len(Steps) THEN Finished(a)
             ELSE [actor[a] EXCEPT !.pc = "key", !.step = @ + 1]

\* Which steps the pipeline passes over: fine_class unless the coarse class is
\* human, a task with the key of this body and version, an embedding there is.
Skips(a) ==
    LET m == actor[a].msg
        t == Current(a)
    IN CASE t = "fine_class" /\ ~actor[a].human -> TRUE
         [] t = "embedding" -> derived[m][t].body # 0
         [] OTHER -> keys[m][t] = [body |-> actor[a].body, version |-> actor[a].version]

CheckKey(a) ==
    /\ At(a, "key")
    /\ IF Skips(a)
       THEN Set(a, IF Current(a) = "coarse_class" /\ Passed(a).pc # "idle"
                   THEN [Passed(a) EXCEPT !.human = human[actor[a].msg]] ELSE Passed(a))
       ELSE Set(a, [actor[a] EXCEPT !.pc = "ask"])
    /\ NoFault /\ LocalStep

\* Mutant: only what is confidential is kept.
MutBlocked(a) ==
    Current(a) \in PaidTask /\ sens[actor[a].msg].class = "confidential"

Blocked(a) == Current(a) \in PaidTask /\ sens[actor[a].msg].class # "normal"

\* The router refuses a message without a label, and keeps from the API models
\* what is not normal; the pipeline goes on to its next step, rederive counts a
\* failure.  An embedding is made from the body of now.
Ask(a) ==
    LET m == actor[a].msg
        t == Current(a)
    IN /\ At(a, "ask")
       /\ CASE ~Classified(m) -> Set(a, Finished(a)) /\ UNCHANGED exposed
            [] Classified(m) /\ Blocked(a) -> Set(a, Passed(a)) /\ UNCHANGED exposed
            [] OTHER ->
                /\ Set(a, [actor[a] EXCEPT !.pc = "store",
                        !.text = IF t = "embedding" THEN rows[m].marker ELSE actor[a].body])
                /\ exposed' = IF t \in PaidTask
                              THEN exposed \cup {[msg |-> m, body |-> actor[a].body]} ELSE exposed
       /\ NoFault /\ RowStep
       /\ UNCHANGED <<sens, derived, human, keys, relabelled, judged>>

AskFails(a) == At(a, "ask") /\ Fault /\ Set(a, Finished(a)) /\ LocalStep

\* A value is stamped with the version of the run, whatever prompt made it.
\* Embeddings have no prompt and are stamped "v1"; their key is recorded by the
\* pipeline and not by rederive.
Store(a) ==
    /\ At(a, "store")
    /\ \E h \in BOOLEAN :
        LET m == actor[a].msg
            t == Current(a)
        IN /\ h => t = "coarse_class"
           /\ derived' = [derived EXCEPT ![m][t] =
                IF t = "embedding" THEN [body |-> actor[a].text, version |-> 1, made |-> 1]
                ELSE [body |-> actor[a].text, version |-> actor[a].version,
                      made |-> actor[a].asked]]
           /\ human' = IF t = "coarse_class" THEN [human EXCEPT ![m] = h] ELSE human
           /\ Set(a, IF Rederiving(a) /\ t = "embedding" THEN Finished(a)
                     ELSE [actor[a] EXCEPT !.pc = "record", !.human = @ \/ h])
    /\ NoFault /\ RowStep /\ UNCHANGED <<sens, keys, relabelled, judged, exposed>>

\* Mutant: the key is made from the body in the table.
MutKeyOf(a) == [body |-> rows[actor[a].msg].marker, version |-> actor[a].version]

KeyOf(a) == [body |-> actor[a].body, version |-> actor[a].version]

Record(a) ==
    /\ At(a, "record")
    /\ keys' = [keys EXCEPT ![actor[a].msg][Current(a)] = KeyOf(a)]
    /\ Set(a, Passed(a))
    /\ NoFault /\ RowStep /\ UNCHANGED <<sens, derived, human, relabelled, judged, exposed>>

\* rederive clears before it asks: every derived value, or the embedding.
Clear(a) ==
    /\ At(a, "clear")
    /\ LET m == actor[a].msg
       IN IF actor[a].job = "embedding"
          THEN /\ derived' = [derived EXCEPT ![m]["embedding"].body = 0]
               /\ Set(a, [actor[a] EXCEPT !.pc = "ask"]) /\ UNCHANGED human
          ELSE /\ derived' = [derived EXCEPT ![m] = Nothing]
               /\ human' = [human EXCEPT ![m] = FALSE]
               /\ Set(a, [actor[a] EXCEPT !.pc = "unkey"])
    /\ NoFault /\ RowStep /\ UNCHANGED <<sens, keys, relabelled, judged, exposed>>

Unkey(a) ==
    /\ At(a, "unkey")
    /\ keys' = [keys EXCEPT ![actor[a].msg] = NoKeys]
    /\ Set(a, [actor[a] EXCEPT !.pc = "rate"])
    /\ NoFault /\ RowStep /\ UNCHANGED <<sens, derived, human, relabelled, judged, exposed>>

\* The process dies, is interrupted, or a write fails.
ActorDies(a) ==
    /\ ~At(a, "idle") /\ Fault
    /\ Set(a, Idle)
    /\ torn' = IF actor[a].pc \in {"override", "record", "unkey"}
               THEN torn \cup {actor[a].msg} ELSE torn
    /\ booted' = IF a = Worker THEN policy ELSE booted
    /\ SyncKeeps
    /\ UNCHANGED <<sens, derived, human, keys, policy, jobs, overlapped, relabelled,
                   judged, foreign, exposed>>

\* A new version of the prompts; the worker reads it when it starts.
NewPrompts ==
    /\ policy < MaxVersion
    /\ policy' = policy + 1
    /\ NoFault /\ SyncKeeps
    /\ UNCHANGED <<sens, derived, human, keys, booted, actor, jobs, histories>>
-----------------------------------------------------------------------------
ActorStep(a) ==
    \/ NextMessage(a) \/ CheckLabel(a) \/ Rate(a) \/ Override(a)
    \/ CheckKey(a) \/ Ask(a) \/ Store(a) \/ Record(a) \/ Clear(a) \/ Unkey(a)
    \/ RateFails(a)

WorkerStep == SelectBatch \/ ActorStep(Worker)

IngestNext ==
    \/ SyncNext /\ UNCHANGED pipeVars
    \/ WorkerStep \/ ActorStep(Operator)
    \/ \E m \in Msg : ProcessOne(m)
    \/ \E t \in Task \cup {"sensitivity_class"}, v \in 1..MaxVersion : Rederive(t, v)
    \/ \E a \in Actor : AskFails(a) \/ ActorDies(a)
    \/ NewPrompts

\* The worker's scheduler goes on ticking.
IngestFairness == WF_ingestVars(RoundStep(Worker) /\ UNCHANGED pipeVars)
                  /\ WF_ingestVars(WorkerStep)

IngestSpec == SyncInit /\ IngestInit /\ [][IngestNext]_ingestVars /\ IngestFairness
-----------------------------------------------------------------------------
AtWork(m) == \E a \in Actor : actor[a].msg = m

\* The patterns have been held to this body of the message, or to none.
JudgedBy(m, body) == judged[m] \subseteq {body}

\* The owner's patterns stick: what they force confidential is, what they
\* force sensitive is not normal, whatever the model said, its floor and the
\* order of two runs.  Open windows of the code: the pattern pass is a second
\* write (an actor is at work, or died before it), rederive has none, and a
\* body that the sync brings after the pass is never held to the patterns.
PatternsStick ==
    \A m \in Msg :
        LET body == rows[m].marker
        IN Classified(m) /\ ~AtWork(m) /\ m \notin torn \cup relabelled /\ JudgedBy(m, body) =>
            /\ Forces(m, body) = "confidential" => sens[m].class = "confidential"
            /\ Forces(m, body) = "sensitive" => sens[m].class # "normal"

\* The same promise as patterns.py gives it, without regard for rederive: of a
\* message whose only body so far went through the patterns.
ForcedStaysConfidential ==
    \A m \in Msg \ torn :
        LET body == rows[m].marker
        IN Forces(m, body) = "confidential" /\ Classified(m) /\ ~AtWork(m) /\ judged[m] = {body}
            => sens[m].class = "confidential"

\* An API model never reads a body the patterns force, unless two runs worked
\* on its message at one time, one died before the patterns, rederive took the
\* forced label away, or the patterns were held to another body of it: the
\* sync wrote between the pass and the reading for the prompt, either way.
ForcedNotExposed ==
    \A x \in exposed :
        Forces(x.msg, x.body) # "none" /\ JudgedBy(x.msg, x.body)
            => x.msg \in overlapped \cup torn \cup relabelled

\* A key stands for the value beside it: what the pipeline skips by it was
\* made from that body and, but for what rederive went through under a
\* --prompt-v that is not its policy's, with that prompt, whatever the sync
\* did meanwhile.  Two runs at one time, or one that dies between the value
\* and the key, may part them.
KeysBacked ==
    \A m \in Msg \ (overlapped \cup torn) : ~AtWork(m) =>
        \A t \in Task \ {"embedding"} : keys[m][t] # NoKey =>
            /\ derived[m][t].body = keys[m][t].body
            /\ derived[m][t].version = keys[m][t].version
            /\ <<m, t>> \notin foreign => derived[m][t].made = keys[m][t].version

\* The worker gets to every message that has an answer, past those that never
\* will, past faults and restarts.
QueueDrains == <>[](Unprocessed \subseteq Stuck)
===============================================================================
