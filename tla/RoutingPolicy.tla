---------------------------- MODULE RoutingPolicy ----------------------------
(***************************************************************************)
(* Which model a task goes to: policy.yaml, the operator's overrides file, *)
(* the snapshot each process routes by, the API's file watcher and the     *)
(* verb set_model_persistent.  The worker loads the files once, at start.  *)
(*                                                                         *)
(* Of a policy entry the model keeps the model, the escalate flag and      *)
(* whether answers are cached; an override sets the model.  A version is   *)
(* the baseline's number with the overrides that are in force.  A file is  *)
(* broken while it is half written, does not parse or fails its schema;    *)
(* policy.yaml is not deleted.                                             *)
(***************************************************************************)
EXTENDS Naturals, FiniteSets

CONSTANTS
    NULL,
    Tuned,       \* model bound: the tasks whose override changes
    Wanted,      \* model bound: the models an operator or a caller asks for
    Setter,      \* concurrent calls of the verb set_model_persistent
    MaxEdits     \* model bound: changes of the two files

ASSUME PolicyAssumption == MaxEdits \in Nat

VARIABLES
    baseline,    \* policy.yaml: its version, and whether it can be read
    overrides,   \* policy.user-overrides.yaml
    policy,      \* _policy, the snapshot of each process
    notified,    \* a change of a watched file the watcher has not handled
    watching,    \* awatch was started with the overrides file on its list
    suppressed,  \* _override_absent_after_applied
    setter,      \* the verb's calls
    edits        \* history variable: changes made to the files

policyVars == <<baseline, overrides, policy, notified, watching, suppressed, setter,
                edits>>
-----------------------------------------------------------------------------
Process == {"api", "worker"}
Model   == {"qwen", "haiku", "opus"}

\* The tasks the model routes, one for each kind of entry.
Task == {"intent_parsing_chat", "tone_style_mirror", "draft_reply",
         "hermes_aux", "tool_call", "summary_short", "embedding"}

Shipped == [t \in Task |->
    CASE t \in {"intent_parsing_chat", "tool_call", "embedding"} -> "qwen"
      [] t \in {"hermes_aux", "summary_short"} -> "haiku"
      [] OTHER -> "opus"]

Escalates(t) == t = "intent_parsing_chat"
Caches(t)    == t = "tone_style_mirror"

None == [t \in Task |-> NULL]

\* The entry a call routes by.
ModelOf(snap, t)    == IF snap.models[t] = NULL THEN Shipped[t] ELSE snap.models[t]
Overridden(snap, t) == snap.models[t] # NULL

\* load_policy: overrides that cannot be read leave the baseline alone.  It
\* raises when policy.yaml is broken: Readable is asked first.
Readable == baseline.state = "ok"

Load == [base |-> baseline.version, models |-> IF overrides.state = "ok" THEN overrides.models ELSE None]

IdleSetter == [pc |-> "idle", task |-> NULL, model |-> NULL, before |-> NULL]

PolicyStart ==
    /\ baseline = [state |-> "ok", version |-> 0]
    /\ overrides = [state |-> "ok", models |-> None]
    /\ policy = [p \in Process |-> Load]
    /\ notified = FALSE /\ watching = TRUE /\ suppressed = FALSE
    /\ setter = [s \in Setter |-> IdleSetter]

-----------------------------------------------------------------------------
\* The operator edits, breaks, deletes or recreates the overrides file.  A
\* deleted file may take the watch on it along.
EditOverrides ==
    /\ edits < MaxEdits /\ edits' = edits + 1
    /\ \/ \E t \in Tuned, m \in Wanted \cup {NULL} :
            overrides' = [state |-> "ok", models |-> [overrides.models EXCEPT ![t] = m]]
       \/ \E state \in {"absent", "broken"} :
            overrides' = [state |-> state, models |-> None]
    /\ overrides' # overrides
    /\ notified' = (notified \/ watching)
    /\ watching' \in IF overrides'.state = "absent" THEN {watching, FALSE} ELSE {watching}
    /\ UNCHANGED <<baseline, policy, suppressed, setter>>

\* The operator edits, breaks or repairs policy.yaml.  An edit of a broken file
\* makes it another version, a repair the one it was.
EditBaseline ==
    /\ edits < MaxEdits /\ edits' = edits + 1
    /\ \/ baseline' = [state |-> "ok", version |-> baseline.version + 1]
       \/ baseline' = [baseline EXCEPT !.state = IF Readable THEN "broken" ELSE "ok"]
    /\ notified' = TRUE
    /\ UNCHANGED <<overrides, policy, watching, suppressed, setter>>

\* Mutant: the reload compares the baseline's version alone.
MutReload ==
    /\ notified /\ notified' = FALSE
    /\ policy' = IF ~Readable \/ Load.base = policy["api"].base THEN policy
                 ELSE [policy EXCEPT !["api"] = Load]
    /\ UNCHANGED <<baseline, overrides, watching, suppressed, setter, edits>>

\* One turn of policy_reload_loop.  A file that does not load swaps nothing and
\* its notification is gone.  Once the deletion of the overrides was announced,
\* only a new baseline version without overrides wakes the watcher up.
Reload ==
    /\ notified /\ notified' = FALSE
    /\ LET new     == Load
           old     == policy["api"]
           ignored == \/ ~Readable \/ overrides.state = "broken"
                      \/ suppressed /\ (new.models # None \/ new = old)
       IN  IF ignored THEN UNCHANGED <<policy, suppressed>>
           ELSE /\ policy' = [policy EXCEPT !["api"] = new]
                /\ suppressed' = (old.models # None /\ overrides.state = "absent")
    /\ UNCHANGED <<baseline, overrides, watching, setter, edits>>

\* set_model_persistent up to its poll: the file is read, changed and replaced
\* without giving up the event loop.
SetModelPersistent(s, t, m) ==
    /\ setter[s].pc = "idle" /\ edits < MaxEdits
    /\ overrides.state = "ok"
    /\ overrides' = [overrides EXCEPT !.models[t] = m]
    /\ edits' = edits + 1
    /\ notified' = (notified \/ watching)
    /\ setter' = [setter EXCEPT ![s] = [pc |-> "poll", task |-> t, model |-> m,
                                        before |-> policy["api"]]]
    /\ UNCHANGED <<baseline, policy, watching, suppressed>>

\* The poll takes any new version for its own.
PollSees(s) ==
    /\ setter[s].pc = "poll" /\ policy["api"] # setter[s].before
    /\ setter' = [setter EXCEPT ![s].pc = "done"]
    /\ UNCHANGED <<baseline, overrides, policy, notified, watching, suppressed, edits>>

\* Two seconds passed: the verb says the file was written and the reload not seen.
PollEnds(s) ==
    /\ setter[s].pc = "poll"
    /\ setter' = [setter EXCEPT ![s].pc = "unseen"]
    /\ UNCHANGED <<baseline, overrides, policy, notified, watching, suppressed, edits>>

\* A process starts: it loads both files, or exits if policy.yaml is broken; the
\* API's watcher takes the files that exist.  A verb's call dies with the API.
Reboot(p) ==
    /\ Readable
    /\ policy' = [policy EXCEPT ![p] = Load]
    /\ IF p = "api"
       THEN /\ notified' = FALSE /\ suppressed' = FALSE
            /\ watching' = (overrides.state # "absent")
            /\ setter' = [s \in Setter |-> IdleSetter]
       ELSE UNCHANGED <<notified, suppressed, watching, setter>>
    /\ UNCHANGED <<baseline, overrides, edits>>

PolicyStep ==
    \/ EditOverrides \/ EditBaseline \/ Reload
    \/ \E s \in Setter :
        \/ PollSees(s) \/ PollEnds(s)
        \/ \E t \in Tuned, m \in Wanted : SetModelPersistent(s, t, m)
-----------------------------------------------------------------------------
\* Once the watcher is at rest the API routes by the files as they are, also
\* when one of them was broken and repaired in between, unless a file is broken
\* now or the overrides are not watched or were deleted while in force.
EditsReachRouter ==
    /\ ~notified /\ watching /\ ~suppressed
    /\ Readable /\ overrides.state # "broken"
    => policy["api"] = Load
=============================================================================
