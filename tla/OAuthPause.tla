------------------------------ MODULE OAuthPause ------------------------------
(***************************************************************************)
(* The refresh of the Graph token and the kill switch it pulls.  Every     *)
(* failed refresh is counted in oauth_state; at the threshold the router   *)
(* is paused, and the next success resumes it.  Three parties write the    *)
(* pause_state row: the worker's sync loop, the operator (whose pause and  *)
(* resume run in the API process), and scripts/refresh_outlook_oauth.py,   *)
(* which runs the same refresh code in a process of its own.               *)
(*                                                                         *)
(* The row is shared, but the code decides whether to pause or resume by   *)
(* PauseState's in-memory mirror, and every process has its own: seeded    *)
(* from the row when the worker boots, never seeded in the script, changed *)
(* only by that process's own pauses and resumes.  The API's mirror        *)
(* decides nothing but the wording of a reply and is left out.             *)
(*                                                                         *)
(* Every statement is its own transaction.  The call to the identity       *)
(* endpoint is one step whose outcome is free.                             *)
(***************************************************************************)
EXTENDS Naturals

CONSTANTS
    Worker,        \* the worker process
    Script,        \* processes running refresh_outlook_oauth.py
    NULL,          \* no reason, no writer
    Threshold,     \* OAUTH_REFRESH_FAIL_THRESHOLD
    MaxRejections, \* model bound: failed refreshes
    MaxReauths,    \* model bound: runs of the script
    MaxFaults      \* model bound: restarts, kills and database errors

ASSUME ThresholdAssumption == Threshold \in Nat \ {0}

ASSUME OAuthBoundAssumption == {MaxRejections, MaxReauths, MaxFaults} \subseteq Nat

ASSUME ProcessAssumption == Worker \notin Script /\ NULL \notin Script \cup {Worker}

VARIABLES
    pause,       \* the pause_state row
    mirror,      \* PauseState._paused and ._reason, per process
    oauth,       \* the oauth_state row
    health,      \* worker_health[oauth_refresh].outcome
    client,      \* locals of a refresh, per process
    writer,      \* history variable: who wrote the last pause
    reporter,    \* history variable: who wrote the last health outcome
    held,        \* history variable: the operator paused and has not resumed
    lifted,      \* history variable: resumed since the last counted failure
    rejections,  \* history variable: failed refreshes
    reauths,     \* history variable: runs of the script
    faults       \* history variable

rowVars   == <<pause, oauth, health>>
counts    == <<rejections, reauths, faults>>
ghostVars == <<writer, reporter, held, lifted, counts>>
vars == <<rowVars, mirror, client, ghostVars>>

Process == Script \cup {Worker}

OAuthReason == "oauth_refresh_failing"

PauseRow == [paused : BOOLEAN, reason : {NULL, OAuthReason, "manual_hold"}]

NotPaused == [paused |-> FALSE, reason |-> NULL]

PausedByOAuth(p) == p.paused /\ p.reason = OAuthReason

\* access: the access token is present and outside the refresh leeway.
OAuthRow == [seeded : BOOLEAN, access : BOOLEAN, failures : Nat]

NoOAuthRow == [seeded |-> FALSE, access |-> FALSE, failures |-> 0]

\* The statements of a refresh in order, on the way up and on the way down.
Succeeding == {"persist", "resume", "resumed", "healthy"}
Failing    == {"bump", "failing", "pause", "paused", "rollback"}

Point == {"idle", "seed", "post", "done"} \cup Succeeding \cup Failing

Client == [pc       : Point,
           count    : Nat,       \* the counter as this failure left it
           inserted : BOOLEAN]   \* a script's own bootstrap INSERT

IdleClient == [pc |-> "idle", count |-> 0, inserted |-> FALSE]

Init ==
    /\ pause = NotPaused
    /\ mirror = [p \in Process |-> NotPaused]
    /\ oauth \in {NoOAuthRow, [NoOAuthRow EXCEPT !.seeded = TRUE]}
    /\ health = NULL
    /\ client = [p \in Process |-> IdleClient]
    /\ writer = NULL /\ reporter = NULL
    /\ held = FALSE /\ lifted = FALSE
    /\ rejections = 0 /\ reauths = 0 /\ faults = 0
-----------------------------------------------------------------------------
Goto(p, pc) == client' = [client EXCEPT ![p].pc = pc]

\* A refresh that failed: the script takes its own INSERT back, and only that.
Leave(p) == IF client[p].inserted THEN Goto(p, "rollback")
            ELSE client' = [client EXCEPT ![p] = IdleClient]

\* get_access_token in the sync loop; a valid access token is simply used.
Load ==
    /\ client[Worker].pc = "idle"
    /\ ~oauth.access
    /\ Goto(Worker, IF oauth.seeded THEN "post" ELSE "seed")
    /\ UNCHANGED <<rowVars, mirror, ghostVars>>

\* The script always exchanges, starting from a mirror that says not paused.
Reauth(s) ==
    /\ client[s].pc \in {"idle", "done"}
    /\ reauths < MaxReauths
    /\ reauths' = reauths + 1
    /\ client' = [client EXCEPT ![s] = [IdleClient EXCEPT
                    !.pc = IF oauth.seeded THEN "post" ELSE "seed"]]
    /\ mirror' = [mirror EXCEPT ![s] = NotPaused]
    /\ UNCHANGED <<rowVars, writer, reporter, held, lifted, rejections, faults>>

\* The bootstrap INSERT; the loser of a race for it raises.
Seed(p) ==
    /\ client[p].pc = "seed"
    /\ IF oauth.seeded
       THEN /\ client' = [client EXCEPT ![p] = IdleClient]
            /\ UNCHANGED oauth
       ELSE /\ oauth' = [NoOAuthRow EXCEPT !.seeded = TRUE]
            /\ client' = [client EXCEPT ![p].pc = "post", ![p].inserted = p # Worker]
    /\ UNCHANGED <<pause, health, mirror, ghostVars>>

\* The identity endpoint: tokens, a failure, or a 200 that is not JSON, which
\* raises past all the bookkeeping (and past the script's rollback).
Post(p) ==
    /\ client[p].pc = "post"
    /\ \/ Goto(p, "persist") /\ UNCHANGED rejections
       \/ /\ rejections < MaxRejections
          /\ rejections' = rejections + 1
          /\ \/ Goto(p, "bump")
             \/ client' = [client EXCEPT ![p] = IdleClient]
    /\ UNCHANGED <<rowVars, mirror, writer, reporter, held, lifted, reauths, faults>>
-----------------------------------------------------------------------------
(* _record_refresh_failure. *)

\* Mutant: the caller decides by the count before its own failure.
MutBump(p) ==
    /\ client[p].pc = "bump"
    /\ IF oauth.seeded
       THEN /\ oauth' = [oauth EXCEPT !.failures = @ + 1]
            /\ client' = [client EXCEPT ![p].pc = "failing",
                                        ![p].count = oauth.failures]
            /\ lifted' = FALSE
       ELSE /\ client' = [client EXCEPT ![p].pc = "failing", ![p].count = 0]
            /\ UNCHANGED <<oauth, lifted>>
    /\ UNCHANGED <<pause, health, mirror, writer, reporter, held, counts>>

\* UPDATE ... RETURNING: the caller decides by the count it left.
Bump(p) ==
    /\ client[p].pc = "bump"
    /\ IF oauth.seeded
       THEN /\ oauth' = [oauth EXCEPT !.failures = @ + 1]
            /\ client' = [client EXCEPT ![p].pc = "failing",
                                        ![p].count = oauth.failures + 1]
            /\ lifted' = FALSE
       ELSE /\ client' = [client EXCEPT ![p].pc = "failing", ![p].count = 0]
            /\ UNCHANGED <<oauth, lifted>>
    /\ UNCHANGED <<pause, health, mirror, writer, reporter, held, counts>>

\* The health row, then the threshold and the mirror, read with no await.
ReportFailure(p) ==
    /\ client[p].pc = "failing"
    /\ health' = "failed"
    /\ reporter' = p
    /\ IF client[p].count >= Threshold /\ ~mirror[p].paused
       THEN Goto(p, "pause") ELSE Leave(p)
    /\ UNCHANGED <<pause, oauth, mirror, writer, held, lifted, counts>>

\* PauseState.pause: the row, and in a further step the mirror.
PauseRouter(p) ==
    /\ client[p].pc = "pause"
    /\ pause' = [paused |-> TRUE, reason |-> OAuthReason]
    /\ writer' = p
    /\ Goto(p, "paused")
    /\ UNCHANGED <<oauth, health, mirror, reporter, held, lifted, counts>>

MirrorPause(p) ==
    /\ client[p].pc = "paused"
    /\ mirror' = [mirror EXCEPT ![p] = [paused |-> TRUE, reason |-> OAuthReason]]
    /\ Leave(p)
    /\ UNCHANGED <<rowVars, ghostVars>>

\* The script's DELETE, whatever has become of the row it inserted.
Rollback(s) ==
    /\ client[s].pc = "rollback"
    /\ oauth' = NoOAuthRow
    /\ client' = [client EXCEPT ![s] = IdleClient]
    /\ UNCHANGED <<pause, health, mirror, ghostVars>>
-----------------------------------------------------------------------------
(* The success of exchange_and_persist and _record_refresh_success. *)

\* Mutant: the health row is written before the router is resumed.
MutPersist(p) ==
    /\ client[p].pc = "persist"
    /\ oauth' = IF oauth.seeded
                THEN [oauth EXCEPT !.access = TRUE, !.failures = 0] ELSE oauth
    /\ health' = "ok" /\ reporter' = p
    /\ Goto(p, "resume")
    /\ UNCHANGED <<pause, mirror, writer, held, lifted, counts>>

Persist(p) ==
    /\ client[p].pc = "persist"
    /\ oauth' = IF oauth.seeded
                THEN [oauth EXCEPT !.access = TRUE, !.failures = 0] ELSE oauth
    /\ Goto(p, "resume")
    /\ UNCHANGED <<pause, health, mirror, ghostVars>>

\* try_resume_if_reason: by the mirror, and the row loses only its flag.
ResumeRouter(p) ==
    /\ client[p].pc = "resume"
    /\ IF PausedByOAuth(mirror[p])
       THEN /\ pause' = [pause EXCEPT !.paused = FALSE]
            /\ lifted' = TRUE
            /\ Goto(p, "resumed")
       ELSE /\ Goto(p, "healthy")
            /\ UNCHANGED <<pause, lifted>>
    /\ UNCHANGED <<oauth, health, mirror, writer, reporter, held, counts>>

MirrorResume(p) ==
    /\ client[p].pc = "resumed"
    /\ mirror' = [mirror EXCEPT ![p] = NotPaused]
    /\ Goto(p, "healthy")
    /\ UNCHANGED <<rowVars, ghostVars>>

\* Mutant: an outcome the status board does not know.
MutReportSuccess(p) ==
    /\ client[p].pc = "healthy"
    /\ health' = "success" /\ reporter' = p
    /\ client' = [client EXCEPT ![p] = IdleClient]
    /\ UNCHANGED <<pause, oauth, mirror, writer, held, lifted, counts>>

\* The worker goes back to its loop; the script exits with status 0, unless
\* the row has gone and the last load raises.
ReportSuccess(p) ==
    /\ client[p].pc = "healthy"
    /\ health' = "ok" /\ reporter' = p
    /\ client' = [client EXCEPT ![p] = [IdleClient EXCEPT
            !.pc = IF p # Worker /\ oauth.seeded THEN "done" ELSE "idle"]]
    /\ UNCHANGED <<pause, oauth, mirror, writer, held, lifted, counts>>

RefreshStep(p) ==
    \/ Seed(p) \/ Post(p)
    \/ Bump(p) \/ ReportFailure(p) \/ PauseRouter(p) \/ MirrorPause(p) \/ Rollback(p)
    \/ Persist(p) \/ ResumeRouter(p) \/ MirrorResume(p) \/ ReportSuccess(p)
-----------------------------------------------------------------------------
(* The operator, time and faults. *)

OperatorPause ==
    /\ pause' = [paused |-> TRUE, reason |-> "manual_hold"]
    /\ writer' = NULL
    /\ held' = TRUE
    /\ UNCHANGED <<oauth, health, mirror, client, reporter, lifted, counts>>

OperatorResume ==
    /\ pause' = [pause EXCEPT !.paused = FALSE]
    /\ held' = FALSE
    /\ lifted' = TRUE
    /\ UNCHANGED <<oauth, health, mirror, client, writer, reporter, counts>>

\* An access token lives about an hour.
Expire ==
    /\ oauth.access
    /\ oauth' = [oauth EXCEPT !.access = FALSE]
    /\ UNCHANGED <<pause, health, mirror, client, ghostVars>>

\* Mutant: the new process does not read the row.
MutRestart ==
    /\ faults < MaxFaults
    /\ faults' = faults + 1
    /\ client' = [client EXCEPT ![Worker] = IdleClient]
    /\ mirror' = [mirror EXCEPT ![Worker] = NotPaused]
    /\ UNCHANGED <<rowVars, writer, reporter, held, lifted, rejections, reauths>>

\* The worker dies and boots: init_pipeline_runtime seeds its mirror.
Restart ==
    /\ faults < MaxFaults
    /\ faults' = faults + 1
    /\ client' = [client EXCEPT ![Worker] = IdleClient]
    /\ mirror' = [mirror EXCEPT ![Worker] = pause]
    /\ UNCHANGED <<rowVars, writer, reporter, held, lifted, rejections, reauths>>

Kill(s) ==
    /\ client[s].pc \notin {"idle", "done"}
    /\ faults < MaxFaults
    /\ faults' = faults + 1
    /\ client' = [client EXCEPT ![s] = IdleClient]
    /\ UNCHANGED <<rowVars, mirror, writer, reporter, held, lifted, rejections, reauths>>

\* A statement raises.  The pause, the resume and the rollback are best
\* effort; any other error ends the refresh where it is, without rollback.
DbError(p) ==
    /\ faults < MaxFaults
    /\ faults' = faults + 1
    /\ \/ client[p].pc = "pause" /\ Leave(p)
       \/ client[p].pc = "resume" /\ PausedByOAuth(mirror[p]) /\ Goto(p, "healthy")
       \/ /\ client[p].pc \in {"seed", "bump", "failing", "persist", "healthy", "rollback"}
          /\ client' = [client EXCEPT ![p] = IdleClient]
    /\ UNCHANGED <<rowVars, mirror, writer, reporter, held, lifted, rejections, reauths>>

FaultStep == Restart \/ (\E s \in Script : Kill(s)) \/ (\E p \in Process : DbError(p))

Next ==
    \/ Load
    \/ \E s \in Script : Reauth(s)
    \/ \E p \in Process : RefreshStep(p)
    \/ OperatorPause \/ OperatorResume
    \/ Expire
    \/ FaultStep

Spec == Init /\ [][Next]_vars

\* The sync loop runs every few minutes and access tokens do expire.  That the
\* endpoint accepts a refresh in the end is the bound on rejections.
Fairness == WF_vars(Load \/ RefreshStep(Worker)) /\ WF_vars(Expire)

FairSpec == Spec /\ Fairness
-----------------------------------------------------------------------------
OTypeOK ==
    /\ pause \in PauseRow
    /\ mirror \in [Process -> PauseRow]
    /\ oauth \in OAuthRow
    /\ health \in {NULL, "ok", "failed"}
    /\ client \in [Process -> Client]
    /\ writer \in Process \cup {NULL}
    /\ reporter \in Process \cup {NULL}
    /\ held \in BOOLEAN
    /\ lifted \in BOOLEAN
    /\ rejections \in Nat
    /\ reauths \in Nat
    /\ faults \in Nat

\* Whoever counts the failure that reaches the threshold, and however worker
\* and script interleave, the router is paused: it is, or the pause is on its
\* way, or someone resumed after that failure.  Not when the worker's mirror
\* already says paused, which an operator's resume leaves behind.
ThresholdPauses ==
    oauth.failures >= Threshold /\ faults = 0 =>
        \/ pause.paused
        \/ lifted
        \/ mirror[Worker].paused
        \/ \E p \in Process : client[p].pc \in {"failing", "pause"}
                                /\ client[p].count >= Threshold

\* The worker never reports a healthy refresh while the router is still held
\* by its own automatic pause: it resumes first and reports second.
HealthyMeansResumed ==
    health = "ok" /\ reporter = Worker /\ writer = Worker /\ faults = 0 =>
        ~PausedByOAuth(pause)

\* An automatic pause by the worker ends, across restarts, database errors and
\* whatever the operator and the script do meanwhile.
AutoPauseEnds ==
    PausedByOAuth(pause) /\ writer = Worker ~>
        ~(PausedByOAuth(pause) /\ writer = Worker)
-----------------------------------------------------------------------------
(* What the repository says of the pause and the code does not do. *)

\* "Never clobber a foreign pause reason": the operator's pause holds until
\* the operator resumes.
HoldSurvives == held => pause.paused /\ pause.reason = "manual_hold"
=============================================================================
