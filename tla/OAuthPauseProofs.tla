--------------------------- MODULE OAuthPauseProofs ---------------------------
(***************************************************************************)
(* Theorems about OAuthPause: its types, that the failure which reaches    *)
(* the threshold pauses the router, and that the worker never reports a    *)
(* healthy refresh while its own automatic pause still holds it.           *)
(***************************************************************************)
EXTENDS OAuthPause, TLAPS

\* The worker's automatic pause is mirrored, except while the mirror is being
\* written, and it is gone once a refresh has passed its resume.
PauseMirrored ==
    PausedByOAuth(pause) /\ writer = Worker =>
        \/ client[Worker].pc = "paused"
        \/ /\ PausedByOAuth(mirror[Worker])
           /\ client[Worker].pc \notin {"resumed", "healthy"}

\* By the time the worker pauses, its last report is no longer "ok".
FailureReported ==
    client[Worker].pc = "pause" => ~(health = "ok" /\ reporter = Worker)

HealthInv == faults = 0 => PauseMirrored /\ FailureReported /\ HealthyMeansResumed

\* The worker is a process and no script.
LEMMA WorkerProcess == Worker \in Process /\ (\A s \in Script : s # Worker /\ s \in Process)
  BY ProcessAssumption DEF Process
-----------------------------------------------------------------------------
\* The next-state relation as a list of actions of one process each.
LEMMA NextCases ==
  ASSUME Next
  PROVE  \/ Load \/ OperatorPause \/ OperatorResume \/ Expire \/ Restart
         \/ \E s \in Script : Reauth(s) \/ Kill(s)
         \/ \E p \in Process : RefreshStep(p) \/ DbError(p)
  BY DEF Next, FaultStep

\* Moving a process to a named point keeps the type of the locals.
LEMMA GotoTypes ==
  ASSUME client \in [Process -> Client], NEW p \in Process, NEW pc \in Point
  PROVE  [client EXCEPT ![p].pc = pc] \in [Process -> Client]
  BY DEF Client

\* So does resetting it.
LEMMA IdleTypes ==
  ASSUME client \in [Process -> Client], NEW p \in Process
  PROVE  [client EXCEPT ![p] = IdleClient] \in [Process -> Client]
<1>1. IdleClient \in Client
  BY DEF Client, IdleClient, Point
<1>2. QED BY <1>1

\* So does starting it.
LEMMA StartTypes ==
  ASSUME client \in [Process -> Client], NEW p \in Process, NEW pc \in Point
  PROVE  [client EXCEPT ![p] = [IdleClient EXCEPT !.pc = pc]] \in [Process -> Client]
<1>1. [IdleClient EXCEPT !.pc = pc] \in Client
  BY DEF Client, IdleClient
<1>2. QED BY <1>1

\* So do both ways of leaving a failed refresh.
LEMMA LeaveTypes ==
  ASSUME client \in [Process -> Client], NEW p \in Process, Leave(p)
  PROVE  client' \in [Process -> Client]
<1>1. [client EXCEPT ![p].pc = "rollback"] \in [Process -> Client]
  BY GotoTypes DEF Point, Failing
<1>2. [client EXCEPT ![p] = IdleClient] \in [Process -> Client]
  BY IdleTypes
<1>3. \/ client' = [client EXCEPT ![p].pc = "rollback"]
      \/ client' = [client EXCEPT ![p] = IdleClient]
  BY DEF Leave, Goto
<1>4. QED BY <1>1, <1>2, <1>3

\* Every point the actions name is one.
LEMMA Points ==
  {"idle", "seed", "post", "done", "persist", "resume", "resumed", "healthy",
   "bump", "failing", "pause", "paused", "rollback"} \subseteq Point
  BY DEF Point, Succeeding, Failing

\* What is written to the pause row or a mirror is a pause row.
LEMMA PauseTypes ==
  /\ NotPaused \in PauseRow
  /\ [paused |-> TRUE, reason |-> OAuthReason] \in PauseRow
  /\ [paused |-> TRUE, reason |-> "manual_hold"] \in PauseRow
  /\ \A r \in PauseRow : [r EXCEPT !.paused = FALSE] \in PauseRow
<1>1. NotPaused \in PauseRow
  BY DEF NotPaused, PauseRow
<1>2. [paused |-> TRUE, reason |-> OAuthReason] \in PauseRow
  BY DEF PauseRow
<1>3. [paused |-> TRUE, reason |-> "manual_hold"] \in PauseRow
  BY DEF PauseRow
<1>4. \A r \in PauseRow : [r EXCEPT !.paused = FALSE] \in PauseRow
  BY DEF PauseRow
<1>5. QED BY <1>1, <1>2, <1>3, <1>4

\* What is written to oauth_state is a row of it.
LEMMA OAuthTypes ==
  /\ NoOAuthRow \in OAuthRow
  /\ [NoOAuthRow EXCEPT !.seeded = TRUE] \in OAuthRow
  /\ \A r \in OAuthRow : [r EXCEPT !.failures = @ + 1] \in OAuthRow
  /\ \A r \in OAuthRow : [r EXCEPT !.access = FALSE] \in OAuthRow
  /\ \A r \in OAuthRow : [r EXCEPT !.access = TRUE, !.failures = 0] \in OAuthRow
<1>1. NoOAuthRow \in OAuthRow /\ [NoOAuthRow EXCEPT !.seeded = TRUE] \in OAuthRow
  BY DEF NoOAuthRow, OAuthRow
<1>2. \A r \in OAuthRow : [r EXCEPT !.failures = @ + 1] \in OAuthRow
  BY DEF OAuthRow
<1>3. \A r \in OAuthRow : [r EXCEPT !.access = FALSE] \in OAuthRow
  BY DEF OAuthRow
<1>4. \A r \in OAuthRow : [r EXCEPT !.access = TRUE, !.failures = 0] \in OAuthRow
  BY DEF OAuthRow
<1>5. QED BY <1>1, <1>2, <1>3, <1>4

\* Types are kept by every step of a refresh.
LEMMA RefreshTypes ==
  ASSUME OTypeOK, NEW p \in Process, RefreshStep(p)
  PROVE  OTypeOK'
<1> USE Points DEF OTypeOK, rowVars, ghostVars, counts, Goto
<1>1. CASE Seed(p)
  <2>1. [client EXCEPT ![p].pc = "post", ![p].inserted = p # Worker]
            \in [Process -> Client]
    BY DEF Client
  <2>2. QED BY <1>1, <2>1, IdleTypes, OAuthTypes DEF Seed
<1>2. CASE Post(p)
  <2>1. client' \in [Process -> Client]
    BY <1>2, GotoTypes, IdleTypes DEF Post
  <2>2. rejections' \in Nat
    BY <1>2 DEF Post
  <2>3. QED BY <1>2, <2>1, <2>2 DEF Post
<1>3. CASE Bump(p)
  <2>1. \A n \in Nat : [client EXCEPT ![p].pc = "failing", ![p].count = n]
            \in [Process -> Client]
    BY DEF Client
  <2>2. oauth.failures + 1 \in Nat
    BY DEF OAuthRow
  <2>3. QED BY <1>3, <2>1, <2>2, OAuthTypes DEF Bump
<1>4. CASE ReportFailure(p) BY <1>4, GotoTypes, LeaveTypes DEF ReportFailure
<1>5. CASE PauseRouter(p)   BY <1>5, GotoTypes, PauseTypes DEF PauseRouter
<1>6. CASE MirrorPause(p)   BY <1>6, LeaveTypes, PauseTypes DEF MirrorPause
<1>7. CASE Rollback(p)      BY <1>7, IdleTypes, OAuthTypes DEF Rollback
<1>8. CASE Persist(p)       BY <1>8, GotoTypes, OAuthTypes DEF Persist
<1>9. CASE ResumeRouter(p)
  <2>1. client' \in [Process -> Client]
    BY <1>9, GotoTypes DEF ResumeRouter
  <2>2. pause' \in PauseRow /\ lifted' \in BOOLEAN
    BY <1>9, PauseTypes DEF ResumeRouter
  <2>3. QED BY <1>9, <2>1, <2>2 DEF ResumeRouter
<1>10. CASE MirrorResume(p) BY <1>10, GotoTypes, PauseTypes DEF MirrorResume
<1>11. CASE ReportSuccess(p) BY <1>11, StartTypes DEF ReportSuccess
<1>12. QED BY <1>1, <1>2, <1>3, <1>4, <1>5, <1>6, <1>7, <1>8, <1>9, <1>10, <1>11
        DEF RefreshStep

\* The rows, mirrors, counters and locals of a refresh keep their types, and
\* the health outcome is always one the status board knows.
THEOREM OTypeCorrect == Spec => []OTypeOK
<1>1. Init => OTypeOK
  <2> SUFFICES ASSUME Init PROVE OTypeOK
    OBVIOUS
  <2>1. IdleClient \in Client
    BY Points DEF Client, IdleClient
  <2>2. client \in [Process -> Client]
    BY <2>1 DEF Init
  <2>3. mirror \in [Process -> PauseRow] /\ pause \in PauseRow
    BY PauseTypes DEF Init
  <2>4. oauth \in OAuthRow
    BY OAuthTypes DEF Init
  <2>5. held \in BOOLEAN /\ lifted \in BOOLEAN
    BY DEF Init
  <2>6. rejections \in Nat /\ reauths \in Nat /\ faults \in Nat
    BY DEF Init
  <2>7. health \in {NULL, "ok", "failed"} /\ {writer, reporter} \subseteq Process \cup {NULL}
    BY DEF Init
  <2>8. QED BY <2>2, <2>3, <2>4, <2>5, <2>6, <2>7 DEF OTypeOK
<1>2. OTypeOK /\ [Next]_vars => OTypeOK'
  <2> SUFFICES ASSUME OTypeOK, [Next]_vars PROVE OTypeOK'
    OBVIOUS
  <2> USE WorkerProcess, Points DEF OTypeOK, rowVars, ghostVars, counts, Goto
  <2>1. CASE Load            BY <2>1, GotoTypes DEF Load
  <2>2. CASE OperatorPause   BY <2>2, PauseTypes DEF OperatorPause
  <2>3. CASE OperatorResume  BY <2>3, PauseTypes DEF OperatorResume
  <2>4. CASE Expire          BY <2>4, OAuthTypes DEF Expire
  <2>5. CASE Restart
    <3>1. client' \in [Process -> Client]
      BY <2>5, IdleTypes DEF Restart
    <3>2. faults' \in Nat
      BY <2>5 DEF Restart
    <3>3. QED BY <2>5, <3>1, <3>2 DEF Restart
  <2>6. ASSUME NEW s \in Script, Reauth(s) PROVE OTypeOK'
    <3>1. client' \in [Process -> Client]
      BY <2>6, StartTypes DEF Reauth
    <3>2. reauths' \in Nat
      BY <2>6 DEF Reauth
    <3>3. QED BY <2>6, <3>1, <3>2, PauseTypes DEF Reauth
  <2>7. ASSUME NEW s \in Script, Kill(s) PROVE OTypeOK'
    <3>1. client' \in [Process -> Client]
      BY <2>7, IdleTypes DEF Kill
    <3>2. faults' \in Nat
      BY <2>7 DEF Kill
    <3>3. QED BY <2>7, <3>1, <3>2 DEF Kill
  <2>8. ASSUME NEW p \in Process, RefreshStep(p) PROVE OTypeOK'
    BY <2>8, RefreshTypes
  <2>9. ASSUME NEW p \in Process, DbError(p) PROVE OTypeOK'
    <3>1. client' \in [Process -> Client]
      BY <2>9, GotoTypes, IdleTypes, LeaveTypes DEF DbError
    <3>2. faults' \in Nat
      BY <2>9 DEF DbError
    <3>3. QED BY <2>9, <3>1, <3>2 DEF DbError
  <2>10. CASE UNCHANGED vars BY <2>10 DEF vars
  <2>11. QED
    BY <2>1, <2>2, <2>3, <2>4, <2>5, <2>6, <2>7, <2>8, <2>9, <2>10, NextCases
<1>3. QED BY <1>1, <1>2, PTL DEF Spec
-----------------------------------------------------------------------------
\* A step of a script's refresh leaves the worker's mirror and locals alone and
\* signs what it writes, so it can only help.
LEMMA ScriptKeepsHealth ==
  ASSUME OTypeOK, HealthInv, NEW s \in Script, RefreshStep(s)
  PROVE  HealthInv'
<1> USE WorkerProcess DEF OTypeOK, rowVars, ghostVars, counts, Goto, Leave, PausedByOAuth,
        HealthInv, PauseMirrored, FailureReported, HealthyMeansResumed
<1>1. s \in Process /\ s # Worker
  BY WorkerProcess
<1>2. client'[Worker] = client[Worker] /\ mirror'[Worker] = mirror[Worker] /\ faults' = faults
  BY <1>1 DEF RefreshStep, Seed, Post, Bump, ReportFailure, PauseRouter, MirrorPause,
        Rollback, Persist, ResumeRouter, MirrorResume, ReportSuccess, IdleClient
<1>3. \/ UNCHANGED <<pause, writer>>
      \/ writer' = s
      \/ pause' = [pause EXCEPT !.paused = FALSE] /\ writer' = writer
  BY DEF RefreshStep, Seed, Post, Bump, ReportFailure, PauseRouter, MirrorPause,
        Rollback, Persist, ResumeRouter, MirrorResume, ReportSuccess
<1>4. UNCHANGED <<health, reporter>> \/ reporter' = s
  BY DEF RefreshStep, Seed, Post, Bump, ReportFailure, PauseRouter, MirrorPause,
        Rollback, Persist, ResumeRouter, MirrorResume, ReportSuccess
<1>5. PausedByOAuth(pause') /\ writer' = Worker => PausedByOAuth(pause) /\ writer = Worker
  BY <1>1, <1>3 DEF PauseRow
<1>6. health' = "ok" /\ reporter' = Worker => health = "ok" /\ reporter = Worker
  BY <1>1, <1>4
<1>7. QED BY <1>2, <1>5, <1>6

\* The worker's own refresh: it pauses after it has reported the failure and
\* reports the success after it has resumed.
LEMMA WorkerKeepsHealth ==
  ASSUME OTypeOK, HealthInv, RefreshStep(Worker)
  PROVE  HealthInv'
<1> USE WorkerProcess DEF OTypeOK, rowVars, ghostVars, counts, Goto, Leave, PausedByOAuth,
        HealthInv, PauseMirrored, FailureReported, HealthyMeansResumed,
        Client, IdleClient, PauseRow
<1>1. CASE Seed(Worker)          BY <1>1 DEF Seed
<1>2. CASE Post(Worker)          BY <1>2 DEF Post
<1>3. CASE Bump(Worker)          BY <1>3 DEF Bump
<1>4. CASE ReportFailure(Worker) BY <1>4 DEF ReportFailure
<1>5. CASE PauseRouter(Worker)   BY <1>5 DEF PauseRouter
<1>6. CASE MirrorPause(Worker)   BY <1>6 DEF MirrorPause
<1>7. CASE Rollback(Worker)      BY <1>7 DEF Rollback
<1>8. CASE Persist(Worker)       BY <1>8 DEF Persist
<1>9. CASE ResumeRouter(Worker)  BY <1>9 DEF ResumeRouter
<1>10. CASE MirrorResume(Worker) BY <1>10 DEF MirrorResume
<1>11. CASE ReportSuccess(Worker) BY <1>11 DEF ReportSuccess
<1>12. QED BY <1>1, <1>2, <1>3, <1>4, <1>5, <1>6, <1>7, <1>8, <1>9, <1>10, <1>11
        DEF RefreshStep

\* The worker resumes the router before it reports a healthy refresh, for any
\* threshold, any number of scripts and any bounds.
THEOREM HealthyIsResumed == Spec => []HealthyMeansResumed
<1>1. Init => HealthInv
  BY WorkerProcess DEF Init, HealthInv, PauseMirrored, FailureReported,
        HealthyMeansResumed, PausedByOAuth, NotPaused, IdleClient
<1>2. OTypeOK /\ HealthInv /\ [Next]_vars => HealthInv'
  <2> SUFFICES ASSUME OTypeOK, HealthInv, [Next]_vars PROVE HealthInv'
    OBVIOUS
  <2> USE WorkerProcess DEF OTypeOK, rowVars, ghostVars, counts, Goto, PausedByOAuth,
        HealthInv, PauseMirrored, FailureReported, HealthyMeansResumed, Client, PauseRow
  <2>1. CASE Load            BY <2>1 DEF Load
  <2>2. CASE OperatorPause   BY <2>2, ProcessAssumption DEF OperatorPause, OAuthReason
  <2>3. CASE OperatorResume  BY <2>3 DEF OperatorResume
  <2>4. CASE Expire          BY <2>4 DEF Expire
  <2>5. CASE Restart         BY <2>5 DEF Restart
  <2>6. ASSUME NEW s \in Script, Reauth(s) PROVE HealthInv'
    BY <2>6 DEF Reauth
  <2>7. ASSUME NEW s \in Script, Kill(s) PROVE HealthInv'
    BY <2>7 DEF Kill
  <2>8. ASSUME NEW p \in Process, RefreshStep(p) PROVE HealthInv'
    BY <2>8, ScriptKeepsHealth, WorkerKeepsHealth DEF Process
  <2>9. ASSUME NEW p \in Process, DbError(p) PROVE HealthInv'
    BY <2>9 DEF DbError
  <2>10. CASE UNCHANGED vars BY <2>10 DEF vars
  <2>11. QED
    BY <2>1, <2>2, <2>3, <2>4, <2>5, <2>6, <2>7, <2>8, <2>9, <2>10, NextCases
<1>3. OTypeOK /\ HealthInv => HealthyMeansResumed
  BY DEF HealthInv, HealthyMeansResumed
<1>4. QED BY <1>1, <1>2, <1>3, OTypeCorrect, PTL DEF Spec
-----------------------------------------------------------------------------
(* The threshold. *)

\* A script that has not yet paused runs with the mirror it started from.
ScriptsUnpaused ==
    \A s \in Script : client[s].pc \notin {"idle", "done", "rollback"} => ~mirror[s].paused

OnItsWay ==
    \E p \in Process : client[p].pc \in {"failing", "pause"} /\ client[p].count >= Threshold

\* The worker's mirror counts only until its own resume is under way: past that
\* write it is about to be cleared.
ThresholdSeen ==
    oauth.failures >= Threshold /\ faults = 0 =>
        \/ pause.paused
        \/ lifted
        \/ mirror[Worker].paused /\ client[Worker].pc # "resumed"
        \/ OnItsWay

ThresholdInv == ScriptsUnpaused /\ ThresholdSeen

\* A script pauses in the mirror only as the last thing its run does.
LEMMA ScriptsStayUnpaused ==
  ASSUME OTypeOK, ScriptsUnpaused, [Next]_vars
  PROVE  ScriptsUnpaused'
<1> USE WorkerProcess DEF OTypeOK, rowVars, ghostVars, counts, Goto, Leave, ScriptsUnpaused,
        Client, IdleClient
<1>1. ASSUME NEW p \in Process, RefreshStep(p), ~MirrorPause(p) PROVE ScriptsUnpaused'
  <2>1. /\ \A q \in Process : mirror'[q] = mirror[q] \/ mirror'[q] = NotPaused
        /\ \A q \in Process \ {p} : client'[q] = client[q]
        /\ client'[p].pc \in {"idle", "done", "rollback"}
              \/ client[p].pc \notin {"idle", "done", "rollback"}
    BY <1>1 DEF RefreshStep, Seed, Post, Bump, ReportFailure, PauseRouter, Rollback, Persist,
          ResumeRouter, MirrorResume, ReportSuccess
  <2>2. QED BY <2>1 DEF NotPaused
<1>2. ASSUME NEW p \in Process, MirrorPause(p) PROVE ScriptsUnpaused'
  <2>1. /\ \A q \in Process \ {p} : client'[q] = client[q] /\ mirror'[q] = mirror[q]
        /\ client'[p].pc \in {"idle", "rollback"}
    BY <1>2 DEF MirrorPause
  <2>2. QED BY <2>1
<1>3. CASE Load             BY <1>3 DEF Load
<1>4. CASE Restart          BY <1>4 DEF Restart
<1>5. ASSUME NEW s \in Script, Reauth(s) PROVE ScriptsUnpaused'
  BY <1>5 DEF Reauth, NotPaused
<1>6. ASSUME NEW s \in Script, Kill(s) PROVE ScriptsUnpaused'
  BY <1>6 DEF Kill
<1>7. ASSUME NEW p \in Process, DbError(p) PROVE ScriptsUnpaused'
  BY <1>7 DEF DbError
<1>8. CASE UNCHANGED <<client, mirror>> BY <1>8
<1>9. QED
  BY <1>1, <1>2, <1>3, <1>4, <1>5, <1>6, <1>7, <1>8, NextCases
     DEF OperatorPause, OperatorResume, Expire, vars

\* A step that leaves the counter, the pause and the worker's mirror alone, and
\* moves nobody who is on its way, keeps the invariant.
LEMMA AsideKeepsThreshold ==
  ASSUME OTypeOK, ThresholdSeen, NEW p \in Process,
         client[p].pc \notin {"failing", "pause"},
         \A q \in Process \ {p} : client'[q] = client[q],
         client'[Worker].pc = "resumed" => client[Worker].pc = "resumed",
         mirror'[Worker] = mirror[Worker], UNCHANGED <<lifted, faults>>,
         oauth'.failures \in {0, oauth.failures},
         pause.paused => pause'.paused
  PROVE  ThresholdSeen'
<1>1. oauth'.failures >= Threshold /\ faults' = 0 => oauth.failures >= Threshold /\ faults = 0
  BY ThresholdAssumption
<1>2. OnItsWay => OnItsWay'
  BY DEF OnItsWay
<1>3. mirror[Worker].paused /\ client[Worker].pc # "resumed" =>
        mirror'[Worker].paused /\ client'[Worker].pc # "resumed"
  OBVIOUS
<1>4. lifted => lifted'
  OBVIOUS
<1>5. QED BY <1>1, <1>2, <1>3, <1>4 DEF ThresholdSeen

\* The steps that the invariant is about.
LEMMA RefreshKeepsThreshold ==
  ASSUME OTypeOK, ScriptsUnpaused, ThresholdSeen, NEW p \in Process, RefreshStep(p)
  PROVE  ThresholdSeen'
<1> USE WorkerProcess DEF OTypeOK, rowVars, ghostVars, counts, Goto, Leave, Client, IdleClient
<1>1. CASE Seed(p) \/ Post(p) \/ Rollback(p) \/ Persist(p) \/ ReportSuccess(p)
  <2>1. /\ client[p].pc \notin {"failing", "pause"}
        /\ \A q \in Process \ {p} : client'[q] = client[q]
        /\ client'[p].pc # "resumed"
        /\ UNCHANGED <<mirror, lifted, faults, pause>>
    BY <1>1 DEF Seed, Post, Rollback, Persist, ReportSuccess
  <2>2. oauth'.failures \in {0, oauth.failures}
    <3>1. CASE Seed(p) \/ Rollback(p)
      BY <3>1 DEF Seed, Rollback, NoOAuthRow
    <3>2. CASE Persist(p)
      BY <3>2 DEF Persist, OAuthRow
    <3>3. QED BY <1>1, <3>1, <3>2 DEF Post, ReportSuccess
  <2>3. QED BY <2>1, <2>2, AsideKeepsThreshold
<1>2. CASE Bump(p)
  <2>1. CASE oauth.seeded
    <3>1. client'[p].pc = "failing" /\ client'[p].count = oauth'.failures
      BY <1>2, <2>1 DEF Bump, OAuthRow
    <3>2. QED BY <3>1 DEF ThresholdSeen, OnItsWay
  <2>2. CASE ~oauth.seeded
    <3>1. /\ client[p].pc = "bump" /\ client'[p].pc = "failing"
          /\ \A q \in Process \ {p} : client'[q] = client[q]
          /\ UNCHANGED <<mirror, lifted, faults, pause, oauth>>
      BY <1>2, <2>2 DEF Bump
    <3>2. QED BY <3>1, AsideKeepsThreshold
  <2>3. QED BY <2>1, <2>2
<1>3. CASE ReportFailure(p)
  <2>1. UNCHANGED <<pause, oauth, mirror, lifted, faults>>
    BY <1>3 DEF ReportFailure
  <2>2. /\ \A q \in Process \ {p} : client'[q] = client[q]
        /\ client[p].pc = "failing"
        /\ client'[p].pc \in {"pause", "idle", "rollback"}
    BY <1>3 DEF ReportFailure
  <2>3. ASSUME client[p].count >= Threshold, ~mirror[p].paused
        PROVE  client'[p].pc = "pause" /\ client'[p].count = client[p].count
    <3>1. client' = [client EXCEPT ![p].pc = "pause"]
      BY <1>3, <2>3 DEF ReportFailure
    <3>2. QED BY <3>1
  <2>4. mirror[p].paused => p = Worker
    BY <2>2 DEF ScriptsUnpaused, Process
  <2>5. OnItsWay => OnItsWay' \/ (p = Worker /\ mirror[Worker].paused)
    BY <2>2, <2>3, <2>4 DEF OnItsWay
  <2>6. client'[Worker].pc = "resumed" => client[Worker].pc = "resumed"
    BY <2>2
  <2>7. QED BY <2>1, <2>2, <2>5, <2>6 DEF ThresholdSeen
<1>4. CASE PauseRouter(p)
  BY <1>4 DEF PauseRouter, ThresholdSeen
<1>5. CASE MirrorPause(p)
  <2>1. /\ client[p].pc = "paused"
        /\ \A q \in Process \ {p} : client'[q] = client[q] /\ mirror'[q] = mirror[q]
        /\ client'[p].pc \in {"idle", "rollback"}
        /\ mirror'[p].paused
        /\ UNCHANGED <<pause, oauth, lifted, faults>>
    BY <1>5 DEF MirrorPause
  <2>2. OnItsWay => OnItsWay'
    BY <2>1 DEF OnItsWay
  <2>3. QED BY <2>1, <2>2 DEF ThresholdSeen
<1>6. CASE ResumeRouter(p)
  <2>1. CASE PausedByOAuth(mirror[p])
    BY <1>6, <2>1 DEF ResumeRouter, ThresholdSeen
  <2>2. CASE ~PausedByOAuth(mirror[p])
    <3>1. /\ client[p].pc = "resume" /\ client'[p].pc = "healthy"
          /\ \A q \in Process \ {p} : client'[q] = client[q]
          /\ UNCHANGED <<mirror, lifted, faults, pause, oauth>>
      BY <1>6, <2>2 DEF ResumeRouter
    <3>2. QED BY <3>1, AsideKeepsThreshold
  <2>3. QED BY <2>1, <2>2
<1>7. CASE MirrorResume(p)
  <2>1. /\ client[p].pc = "resumed" /\ client'[p].pc = "healthy"
        /\ \A q \in Process \ {p} : client'[q] = client[q] /\ mirror'[q] = mirror[q]
        /\ UNCHANGED <<lifted, faults, pause, oauth>>
    BY <1>7 DEF MirrorResume
  <2>2. OnItsWay => OnItsWay'
    BY <2>1 DEF OnItsWay
  <2>3. QED BY <2>1, <2>2 DEF ThresholdSeen
<1>8. QED BY <1>1, <1>2, <1>3, <1>4, <1>5, <1>6, <1>7 DEF RefreshStep

\* Whoever counts the failure that reaches the threshold, the router is paused,
\* for any number of scripts beside the worker: the count comes back from the
\* UPDATE, and no mirror that says "paused" is a script's.
THEOREM FailuresPause == Spec => []ThresholdPauses
<1>1. Init => ThresholdInv
  BY WorkerProcess, ThresholdAssumption
     DEF Init, ThresholdInv, ScriptsUnpaused, ThresholdSeen, NotPaused, IdleClient, NoOAuthRow
<1>2. OTypeOK /\ ThresholdInv /\ [Next]_vars => ThresholdInv'
  <2> SUFFICES ASSUME OTypeOK, ThresholdInv, [Next]_vars PROVE ThresholdSeen'
    BY ScriptsStayUnpaused DEF ThresholdInv
  <2> USE WorkerProcess DEF OTypeOK, rowVars, ghostVars, counts, Goto, ThresholdInv, Client,
        IdleClient
  <2>1. ASSUME faults' > 0 PROVE ThresholdSeen'
    BY <2>1 DEF ThresholdSeen
  <2>2. CASE FaultStep
    <3>1. faults' = faults + 1
      BY <2>2 DEF FaultStep, Restart, Kill, DbError
    <3>2. QED BY <2>1, <3>1
  <2>3. ASSUME NEW p \in Process, RefreshStep(p) PROVE ThresholdSeen'
    BY <2>3, RefreshKeepsThreshold
  <2>4. CASE Load
    <3>1. /\ client[Worker].pc = "idle" /\ client'[Worker].pc \in {"post", "seed"}
          /\ \A q \in Process \ {Worker} : client'[q] = client[q]
          /\ UNCHANGED <<mirror, lifted, faults, pause, oauth>>
      BY <2>4 DEF Load
    <3>2. QED BY <3>1, AsideKeepsThreshold
  <2>5. ASSUME NEW s \in Script, Reauth(s) PROVE ThresholdSeen'
    <3>1. /\ client[s].pc \in {"idle", "done"} /\ s \in Process /\ s # Worker
          /\ \A q \in Process \ {s} : client'[q] = client[q]
          /\ mirror'[Worker] = mirror[Worker]
          /\ UNCHANGED <<lifted, faults, pause, oauth>>
      BY <2>5 DEF Reauth
    <3>2. QED BY <3>1, AsideKeepsThreshold
  <2>6. CASE OperatorPause \/ OperatorResume
    BY <2>6 DEF OperatorPause, OperatorResume, ThresholdSeen
  <2>7. CASE Expire
    <3>1. oauth'.failures = oauth.failures /\ UNCHANGED <<mirror, lifted, faults, pause, client>>
      BY <2>7 DEF Expire, OAuthRow
    <3>2. QED BY <3>1 DEF ThresholdSeen, OnItsWay
  <2>8. CASE UNCHANGED vars
    BY <2>8 DEF vars, ThresholdSeen, OnItsWay
  <2>9. QED BY <2>2, <2>3, <2>4, <2>5, <2>6, <2>7, <2>8 DEF Next
<1>3. ThresholdInv => ThresholdPauses
  BY DEF ThresholdInv, ThresholdSeen, ThresholdPauses, OnItsWay
<1>4. QED BY <1>1, <1>2, <1>3, OTypeCorrect, PTL DEF Spec
=============================================================================
