----------------------------- MODULE ActionQueue -----------------------------
(***************************************************************************)
(* The write path of mailbot: every change the agent makes to the mailbox  *)
(* is a row of pending_actions that one of several handlers moves through  *)
(* its lifecycle.  The handlers run in three processes (the API serving    *)
(* the verbs, the worker running the drainer and the cooling-off ticker,   *)
(* the operator's CLI) over one SQLite file; each statement is its own     *)
(* transaction, so every step below is at most one write.                  *)
(*                                                                         *)
(*   verbs     Propose, Cancel, Revoke, the three steps of mint_grant      *)
(*   worker    the drainer (one step per database or Graph call) and       *)
(*             CoolingOffTick                                              *)
(*   CLI       ReplayCheck / ReplayReset, Pause, Unpause                   *)
(*   sync      Upsert, SoftDelete and Resurrect of local emails            *)
(*   faults    Crash, ApiCrash, DbError, PauseUnreadable                   *)
(*                                                                         *)
(* Several drainers may run: the claim statement is written for that,      *)
(* although the deployed worker starts one.                                *)
(***************************************************************************)
EXTENDS ActionTypes, FiniteSets, Sequences

CONSTANTS
    Action,          \* ids of pending_actions rows
    Email,           \* graph ids of messages
    Folder,          \* Graph folder ids
    Drainer,         \* drainer tasks
    Minter,          \* API requests that may run mint_grant at one time
    Types,           \* the action types proposed in this instance
    NULL,            \* SQL NULL
    BatchSize,       \* DEFAULT_BATCH_SIZE
    DailySendCap,    \* DAILY_SEND_CAP
    CoolingOff,      \* the cooling-off window
    GrantWait,       \* TIER_3_GRANT_WAIT_WINDOW
    ReplayWindow,    \* REPLAY_WINDOW
    ConfirmTTL,      \* CONFIRMATION_TTL
    GrantWindows,    \* lifetimes a caller of mint_grant asks for
    MaxGrantWindow,  \* MAX_GRANT_WINDOW
    MaxGrantEmails,  \* MAX_BATCH_SIZE
    DayLength,       \* ticks in a UTC day
    MaxNow, MaxMarker, MaxGrants, MaxConfirmations,   \* model bounds
    MaxReplays, MaxFaults,                            \* model bounds
    MayPause         \* whether the operator pauses in this instance

ASSUME TypesAssumption == Types \subseteq ActionType

ASSUME NullAssumption ==
    /\ NULL \notin Action \cup Email \cup Folder \cup Nat
    /\ NULL \notin ActionType

ASSUME WindowAssumption ==
    /\ {CoolingOff, GrantWait, ReplayWindow, ConfirmTTL, DailySendCap} \subseteq Nat
    /\ {MaxGrantWindow, MaxGrantEmails} \subseteq Nat
    /\ BatchSize \in Nat \ {0}
    /\ DayLength \in Nat \ {0}
    /\ GrantWindows \subseteq Nat

ASSUME BoundAssumption ==
    {MaxNow, MaxMarker, MaxGrants, MaxConfirmations, MaxReplays, MaxFaults}
        \subseteq Nat

ASSUME PauseAssumption == MayPause \in BOOLEAN

ASSUME CountAssumption ==
    IsFiniteSet(Action) /\ IsFiniteSet(Drainer) /\ DailySendCap # 0

VARIABLES
    row,            \* pending_actions
    history,        \* action_history
    grants,         \* action_grants, in id order
    confirmations,  \* user_confirmations with scope 'grant', in id order
    email,          \* the emails columns the queue reads
    place,          \* external: the folder Graph holds each message in
    paused,         \* pause_state.paused, the authoritative row
    now,            \* UTC clock
    drainer,        \* locals of run_tick and _process_claimed_row
    minter,         \* locals of mint_grant
    replaying,      \* rows a CLI replay has checked and not yet reset
    notified,       \* rows a failure notification was enqueued for
    attempts,       \* history variable: when adapter.apply ran, per row
    pausedSends,    \* history variable: applies by a drainer in this pause
    replays,        \* history variable: replays done
    faults          \* history variable: crashes and database errors

dbVars    == <<row, history, grants, confirmations, notified, paused>>
mailVars  == <<email, place>>
ghostVars == <<attempts, pausedSends, replays, faults>>
vars == <<dbVars, mailVars, now, drainer, minter, replaying, ghostVars>>
-----------------------------------------------------------------------------
(* Shapes of the rows. *)

Waiting  == {"pending", "cooling_off", "pending_grant"}
Terminal == {"applied", "failed", "cancelled"}
Status   == {"absent", "draining"} \cup Waiting \cup Terminal

Failure == {"target_deleted", "grant_expired_unauthorized", "state_drift_etag",
            "daily_send_cap_exceeded", "pre_state_capture_failed",
            "dispatch_failed", "drainer_internal_error"}

Row == [status     : Status,
        type       : ActionType \cup {NULL},
        email      : Email \cup {NULL},
        target     : Folder \cup {NULL},      \* payload: where a move goes
        revertOf   : Action \cup {NULL},      \* payload: revert_of_action_id
        marker     : Nat \cup {NULL},         \* change_marker_at_propose
        proposedAt : Nat,
        grant      : Nat \cup {NULL},         \* proposed_by_grant_id
        failure    : Failure \cup {NULL},
        terminalAt : Nat \cup {NULL},
        budget     : BOOLEAN]                 \* budget_consumed

NoRow == [status |-> "absent", type |-> NULL, email |-> NULL, target |-> NULL,
          revertOf |-> NULL, marker |-> NULL, proposedAt |-> 0, grant |-> NULL,
          failure |-> NULL, terminalAt |-> NULL, budget |-> FALSE]

HistoryRow == [logged : BOOLEAN, folder : Folder \cup {NULL}, reverted : BOOLEAN]

NoHistory == [logged |-> FALSE, folder |-> NULL, reverted |-> FALSE]

\* confirmation is a history field: the user_confirmations row consumed for it.
Grant == [type : ActionType, emails : SUBSET Email, expiresAt : Nat,
          revoked : BOOLEAN, confirmation : Nat]

Confirmation == [type : ActionType, emails : SUBSET Email, at : Nat,
                 consumed : BOOLEAN]

EmailRow == [state : {"absent", "live", "deleted"}, marker : Nat \cup {NULL}]

\* Where a drainer stands.  "next" is the head of the loop over the batch;
\* the names up to "park" are the calls of _process_claimed_row in order.
Processing == {"check", "target", "cap", "capture", "record", "dispatch",
               "applied", "repair", "fail", "notify", "park"}
\* "late_error": the same except clause, reached after the terminal write.
Owning     == {"claimed", "error"} \cup (Processing \ {"repair", "notify"})
HoldsRow   == {"claimed", "error", "late_error"} \cup Processing

DrainerState == [pc     : {"idle", "select", "next"} \cup HoldsRow,
                 batch  : SUBSET Action,
                 id     : Action \cup {NULL},
                 grant  : Nat \cup {NULL},
                 folder : Folder \cup {NULL},
                 why    : Failure \cup {NULL}]

IdleDrainer == [pc |-> "idle", batch |-> {}, id |-> NULL, grant |-> NULL,
                folder |-> NULL, why |-> NULL]

MinterState == [pc : {"idle", "found", "consumed"},
                type : ActionType \cup {NULL}, emails : SUBSET Email,
                expiresAt : Nat, confirmation : Nat]

IdleMinter == [pc |-> "idle", type |-> NULL, emails |-> {}, expiresAt |-> 0,
               confirmation |-> 0]
-----------------------------------------------------------------------------
(* Queries. *)

Day(t) == t \div DayLength

\* Mutant: the email list is not looked at.
MutCovering(t, e) ==
    {g \in DOMAIN grants :
        grants[g].type = t /\ grants[g].expiresAt > now /\ ~grants[g].revoked}

\* is_grant_valid: ids of the unexpired, unrevoked grants of the type whose
\* email list is empty (it then matches anything) or holds the target.
Covering(t, e) ==
    {g \in DOMAIN grants :
        /\ grants[g].type = t
        /\ grants[g].expiresAt > now
        /\ ~grants[g].revoked
        /\ grants[g].emails = {} \/ e \in grants[g].emails}

IsFirst(g, S) == g \in S /\ \A h \in S : g <= h

\* SELECT_DRAINABLE orders by tier, then by proposed_at; ties come in any order.
NotBehind(a, b) ==
    \/ TierOf(row[a].type) < TierOf(row[b].type)
    \/ /\ TierOf(row[a].type) = TierOf(row[b].type)
       /\ row[a].proposedAt <= row[b].proposedAt

\* Mutant: the cooling-off window is checked again, and its end left out.
MutDrainable ==
    {a \in Action : row[a].status = "pending" /\ row[a].proposedAt + CoolingOff < now}

Drainable == {a \in Action : row[a].status = "pending"}

\* Mutant: failed sends are not counted.
MutSendsCountedToday ==
    Cardinality({a \in Action : /\ row[a].status = "applied"
                                /\ row[a].type \in SendFamily
                                /\ Day(row[a].terminalAt) = Day(now)})

\* SEND_FAMILY_BUDGET_CONSUMED_TODAY_COUNT
SendsCountedToday ==
    Cardinality({a \in Action : /\ row[a].budget
                                /\ row[a].type \in SendFamily
                                /\ row[a].terminalAt # NULL
                                /\ Day(row[a].terminalAt) = Day(now)})

IsRevert(a) == row[a].type \in MoveFamily /\ row[a].revertOf # NULL

\* Newest unconsumed confirmation of exactly this scope.
Confirmed(c, t, S) ==
    LET fits == {i \in DOMAIN confirmations :
                    /\ confirmations[i].type = t
                    /\ confirmations[i].emails = S
                    /\ ~confirmations[i].consumed}
    IN  c \in fits /\ \A i \in fits : i <= c
-----------------------------------------------------------------------------
Init ==
    /\ row = [a \in Action |-> NoRow]
    /\ history = [a \in Action |-> NoHistory]
    /\ grants = <<>>
    /\ confirmations = <<>>
    /\ email \in [Email -> {[state |-> "absent", marker |-> NULL],
                            [state |-> "live", marker |-> 0]}]
    /\ place \in [Email -> Folder]
    /\ paused = FALSE
    /\ now = 0
    /\ drainer = [d \in Drainer |-> IdleDrainer]
    /\ minter = [m \in Minter |-> IdleMinter]
    /\ replaying = {}
    /\ notified = {}
    /\ attempts = [a \in Action |-> <<>>]
    /\ pausedSends = [d \in Drainer |-> 0]
    /\ replays = 0
    /\ faults = 0
-----------------------------------------------------------------------------
(* The verbs of the API process. *)

\* propose_action refuses a Tier-3 proposal about an email that is absent,
\* soft-deleted or without a marker.  The read of the marker and the INSERT
\* are one step: everything the row is later judged by is fixed by the read.
MarkerAtPropose(t, e) ==
    IF TierOf(t) = 3 /\ e # NULL THEN email[e].marker ELSE NULL

InitialStatus(t) ==
    CASE t \in SendFamily     -> "cooling_off"
      [] TierOf(t) = 2        -> "pending_grant"
      [] OTHER                -> "pending"

Propose(a, t, e, f) ==
    /\ row[a].status = "absent"
    /\ e = NULL => t \in EmailLess
    /\ TierOf(t) = 3 /\ e # NULL =>
            email[e].state = "live" /\ email[e].marker # NULL
    /\ f # NULL <=> t \in MoveFamily
    /\ row' = [row EXCEPT ![a] =
                [NoRow EXCEPT !.status = InitialStatus(t), !.type = t,
                              !.email = e, !.target = f,
                              !.marker = MarkerAtPropose(t, e),
                              !.proposedAt = now]]
    /\ UNCHANGED <<history, grants, confirmations, notified, paused, mailVars,
                   now, drainer, minter, replaying, ghostVars>>

\* Mutant: a status the column's CHECK does not know.
MutCancel(a) ==
    /\ row[a].status = "cooling_off"
    /\ row' = [row EXCEPT ![a].status = "canceled", ![a].terminalAt = now]
    /\ UNCHANGED <<history, grants, confirmations, notified, paused, mailVars,
                   now, drainer, minter, replaying, ghostVars>>

Cancel(a) ==
    /\ row[a].status = "cooling_off"
    /\ row' = [row EXCEPT ![a].status = "cancelled", ![a].terminalAt = now]
    /\ UNCHANGED <<history, grants, confirmations, notified, paused, mailVars,
                   now, drainer, minter, replaying, ghostVars>>

\* The chat boundary records one user "yes" for one type and one email set.
Confirm(t, S) ==
    /\ Len(confirmations) < MaxConfirmations
    /\ confirmations' = Append(confirmations,
            [type |-> t, emails |-> S, at |-> now, consumed |-> FALSE])
    /\ UNCHANGED <<row, history, grants, notified, paused, mailVars, now,
                   drainer, minter, replaying, ghostVars>>

\* mint_grant, first step: the structural refusals, then the SELECT of the
\* newest matching confirmation and its time-to-live.
MintFind(m, t, S, w, c) ==
    /\ minter[m].pc = "idle"
    /\ Len(grants) < MaxGrants
    /\ RequiresGrant(t)
    /\ 0 < w /\ w <= MaxGrantWindow
    /\ Cardinality(S) <= MaxGrantEmails
    /\ Confirmed(c, t, S)
    /\ confirmations[c].at + ConfirmTTL > now
    /\ minter' = [minter EXCEPT ![m] =
            [pc |-> "found", type |-> t, emails |-> S, expiresAt |-> now + w,
             confirmation |-> c]]
    /\ UNCHANGED <<dbVars, mailVars, now, drainer, replaying, ghostVars>>

\* Mutant: the UPDATE is not conditional on consumed_at IS NULL.
MutMintConsume(m) ==
    /\ minter[m].pc = "found"
    /\ minter' = [minter EXCEPT ![m].pc = "consumed"]
    /\ confirmations' =
            [confirmations EXCEPT ![minter[m].confirmation].consumed = TRUE]
    /\ UNCHANGED <<row, history, grants, notified, paused, mailVars, now,
                   drainer, replaying, ghostVars>>

\* Second step: the conditional UPDATE ... RETURNING; the loser is refused.
MintConsume(m) ==
    LET c == minter[m].confirmation IN
    /\ minter[m].pc = "found"
    /\ IF confirmations[c].consumed
       THEN /\ minter' = [minter EXCEPT ![m] = IdleMinter]
            /\ UNCHANGED confirmations
       ELSE /\ minter' = [minter EXCEPT ![m].pc = "consumed"]
            /\ confirmations' = [confirmations EXCEPT ![c].consumed = TRUE]
    /\ UNCHANGED <<row, history, grants, notified, paused, mailVars, now,
                   drainer, replaying, ghostVars>>

\* Third step, one transaction: the grant row, and every parked row of the
\* type back to pending, whatever its email.
MintInsert(m) ==
    /\ minter[m].pc = "consumed"
    /\ grants' = Append(grants,
            [type |-> minter[m].type, emails |-> minter[m].emails,
             expiresAt |-> minter[m].expiresAt, revoked |-> FALSE,
             confirmation |-> minter[m].confirmation])
    /\ row' = [a \in Action |->
            IF row[a].status = "pending_grant" /\ row[a].type = minter[m].type
            THEN [row[a] EXCEPT !.status = "pending"]
            ELSE row[a]]
    /\ minter' = [minter EXCEPT ![m] = IdleMinter]
    /\ UNCHANGED <<history, confirmations, notified, paused, mailVars, now,
                   drainer, replaying, ghostVars>>

Revoke(g) ==
    /\ ~grants[g].revoked
    /\ grants' = [grants EXCEPT ![g].revoked = TRUE]
    /\ UNCHANGED <<row, history, confirmations, notified, paused, mailVars,
                   now, drainer, minter, replaying, ghostVars>>
-----------------------------------------------------------------------------
(* The worker's cooling-off ticker: one UPDATE over every due row. *)

\* Mutants: no window; no status guard.
MutDueAtOnce(a) == row[a].status = "cooling_off" /\ row[a].proposedAt <= now

MutDueCancelled(a) ==
    /\ row[a].status \in {"cooling_off", "cancelled"}
    /\ row[a].proposedAt + CoolingOff <= now

Due(a) == row[a].status = "cooling_off" /\ row[a].proposedAt + CoolingOff <= now

CoolingOffTick ==
    /\ \E a \in Action : Due(a)
    /\ row' = [a \in Action |-> IF Due(a) THEN [row[a] EXCEPT !.status = "pending"]
                                          ELSE row[a]]
    /\ UNCHANGED <<history, grants, confirmations, notified, paused, mailVars,
                   now, drainer, minter, replaying, ghostVars>>
-----------------------------------------------------------------------------
(***************************************************************************)
(* The drainer: run_tick over one batch, _process_claimed_row over one     *)
(* row.  Goto keeps the locals, Resume drops the row and goes on.          *)
(***************************************************************************)

Goto(d, pc) == drainer' = [drainer EXCEPT ![d].pc = pc]

Fail(d, why) == drainer' = [drainer EXCEPT ![d].pc = "fail", ![d].why = why]

Rest(batch) == [IdleDrainer EXCEPT !.pc = IF batch = {} THEN "idle" ELSE "next",
                                   !.batch = batch]

Resume(d) == drainer' = [drainer EXCEPT ![d] = Rest(@.batch)]

\* The pause snapshot at the head of the tick; a paused tick does nothing.
TickStart(d) ==
    /\ drainer[d].pc = "idle"
    /\ ~paused
    /\ Goto(d, "select")
    /\ UNCHANGED <<dbVars, mailVars, now, minter, replaying, ghostVars>>

\* The batch is a snapshot: up to BatchSize rows, none behind a row left out.
Select(d) ==
    /\ drainer[d].pc = "select"
    /\ \E b \in SUBSET Drainable :
        /\ Cardinality(b) <= BatchSize
        /\ b = Drainable \/ Cardinality(b) = BatchSize
        /\ \A x \in b, y \in Drainable \ b : NotBehind(x, y)
        /\ drainer' = [drainer EXCEPT ![d] = Rest(b)]
    /\ UNCHANGED <<dbVars, mailVars, now, minter, replaying, ghostVars>>

\* Mutant: the claim is not conditional on the row still being pending.
MutClaim(d) ==
    /\ drainer[d].pc = "next"
    /\ \E a \in drainer[d].batch :
        /\ row' = [row EXCEPT ![a].status = "draining"]
        /\ drainer' = [drainer EXCEPT ![d].pc = "claimed", ![d].id = a,
                                      ![d].batch = @ \ {a}]
    /\ UNCHANGED <<history, grants, confirmations, notified, paused, mailVars,
                   now, minter, replaying, ghostVars>>

\* The next row of the batch; a row that is no longer pending is skipped.
Claim(d) ==
    /\ drainer[d].pc = "next"
    /\ \E a \in drainer[d].batch :
        /\ \A b \in drainer[d].batch : NotBehind(a, b)
        /\ IF row[a].status = "pending"
           THEN /\ row' = [row EXCEPT ![a].status = "draining"]
                /\ drainer' = [drainer EXCEPT ![d].pc = "claimed", ![d].id = a,
                                              ![d].batch = @ \ {a}]
           ELSE /\ drainer' = [drainer EXCEPT ![d] = Rest(@.batch \ {a})]
                /\ UNCHANGED row
    /\ UNCHANGED <<history, grants, confirmations, notified, paused, mailVars,
                   now, minter, replaying, ghostVars>>

\* Mutants: no second snapshot; the claim is not released.
MutPauseCheck(d) ==
    /\ drainer[d].pc = "claimed"
    /\ Goto(d, "check")
    /\ UNCHANGED <<dbVars, mailVars, now, minter, replaying, ghostVars>>

MutPauseKeepsClaim(d) ==
    /\ drainer[d].pc = "claimed"
    /\ IF paused THEN drainer' = [drainer EXCEPT ![d] = IdleDrainer]
                 ELSE Goto(d, "check")
    /\ UNCHANGED <<dbVars, mailVars, now, minter, replaying, ghostVars>>

\* The second pause snapshot: release the row and end the tick, or go on.
PauseCheck(d) ==
    /\ drainer[d].pc = "claimed"
    /\ IF paused
       THEN /\ row' = [row EXCEPT ![drainer[d].id].status = "pending"]
            /\ drainer' = [drainer EXCEPT ![d] = IdleDrainer]
       ELSE /\ Goto(d, "check")
            /\ UNCHANGED row
    /\ UNCHANGED <<history, grants, confirmations, notified, paused, mailVars,
                   now, minter, replaying, ghostVars>>

GrantWaitOver(a) == now > row[a].proposedAt + GrantWait

\* _check_tier_1/2/3 up to the read of action_grants.
CheckGrant(d) ==
    LET a == drainer[d].id
        valid == Covering(row[a].type, row[a].email)
    IN
    /\ drainer[d].pc = "check"
    /\ \/ ~RequiresGrant(row[a].type) /\ Goto(d, "target")
       \/ /\ RequiresGrant(row[a].type)
          /\ \E g \in valid :
                /\ IsFirst(g, valid)
                /\ drainer' = [drainer EXCEPT ![d].pc = "target", ![d].grant = g]
       \/ /\ RequiresGrant(row[a].type) /\ valid = {}
          /\ IF TierOf(row[a].type) = 3 /\ GrantWaitOver(a)
             THEN Fail(d, "grant_expired_unauthorized")
             ELSE Goto(d, "park")
    /\ UNCHANGED <<dbVars, mailVars, now, minter, replaying, ghostVars>>

\* The row loses the grant column it had: the drainer always passes None here.
Park(d) ==
    /\ drainer[d].pc = "park"
    /\ row' = [row EXCEPT ![drainer[d].id].status = "pending_grant",
                          ![drainer[d].id].grant = NULL]
    /\ Resume(d)
    /\ UNCHANGED <<history, grants, confirmations, notified, paused, mailVars,
                   now, minter, replaying, ghostVars>>

TargetFailure(a) ==
    LET e == row[a].email IN
    IF e = NULL \/ IsRevert(a) THEN NULL
    ELSE IF email[e].state # "live" THEN "target_deleted"
    ELSE IF TierOf(row[a].type) = 3 /\ email[e].marker # row[a].marker
         THEN "state_drift_etag" ELSE NULL

AfterTarget(t) == IF t \in SendFamily THEN "cap"
                  ELSE IF t \in MoveFamily THEN "capture" ELSE "record"

\* The read of the local email row.
CheckTarget(d) ==
    LET a == drainer[d].id IN
    /\ drainer[d].pc = "target"
    /\ IF TargetFailure(a) # NULL THEN Fail(d, TargetFailure(a))
                                  ELSE Goto(d, AfterTarget(row[a].type))
    /\ UNCHANGED <<dbVars, mailVars, now, minter, replaying, ghostVars>>

CheckSendCap(d) ==
    /\ drainer[d].pc = "cap"
    /\ IF SendsCountedToday >= DailySendCap THEN Fail(d, "daily_send_cap_exceeded")
                                            ELSE Goto(d, "record")
    /\ UNCHANGED <<dbVars, mailVars, now, minter, replaying, ghostVars>>

\* The Graph read of the folder a move starts from; it may fail.
CapturePreState(d) ==
    LET a == drainer[d].id IN
    /\ drainer[d].pc = "capture"
    /\ \/ /\ row[a].email # NULL
          /\ drainer' = [drainer EXCEPT ![d].pc = "record",
                                        ![d].folder = place[row[a].email]]
       \/ Fail(d, "pre_state_capture_failed")
    /\ UNCHANGED <<dbVars, mailVars, now, minter, replaying, ghostVars>>

\* Mutant: INSERT OR IGNORE.
MutInsertHistory(d) ==
    /\ drainer[d].pc = "record"
    /\ Goto(d, "dispatch")
    /\ history' = [history EXCEPT ![drainer[d].id].logged = TRUE]
    /\ UNCHANGED <<row, grants, confirmations, notified, paused, mailVars, now,
                   minter, replaying, ghostVars>>

\* A plain INSERT under PRIMARY KEY (action_id): a row that was recorded by
\* an earlier drain raises and lands in run_tick's catch-all.
InsertHistory(d) ==
    LET a == drainer[d].id IN
    /\ drainer[d].pc = "record"
    /\ IF history[a].logged
       THEN Goto(d, "error") /\ UNCHANGED history
       ELSE /\ Goto(d, "dispatch")
            /\ history' = [history EXCEPT ![a] =
                    [logged |-> TRUE, folder |-> drainer[d].folder,
                     reverted |-> FALSE]]
    /\ UNCHANGED <<row, grants, confirmations, notified, paused, mailVars, now,
                   minter, replaying, ghostVars>>

\* adapter.apply.  A failed call may still have taken effect: the reply to a
\* request that Graph carried out can be lost.
Dispatch(d) ==
    LET a == drainer[d].id
        moved == [place EXCEPT ![row[a].email] = row[a].target]
    IN
    /\ drainer[d].pc = "dispatch"
    /\ attempts' = [attempts EXCEPT ![a] = Append(@, now)]
    /\ pausedSends' = [pausedSends EXCEPT ![d] = IF paused THEN @ + 1 ELSE @]
    /\ \/ /\ Goto(d, "applied")
          /\ place' = IF row[a].type \in MoveFamily THEN moved ELSE place
       \/ /\ Fail(d, "dispatch_failed")
          /\ place' \in IF row[a].type \in MoveFamily THEN {place, moved} ELSE {place}
    /\ UNCHANGED <<dbVars, email, now, minter, replaying, replays, faults>>

\* The send family pays for a dispatch whether it succeeded or not.
MarkApplied(d) ==
    LET a == drainer[d].id IN
    /\ drainer[d].pc = "applied"
    /\ row' = [row EXCEPT ![a].status = "applied", ![a].terminalAt = now,
                          ![a].budget = row[a].type \in SendFamily,
                          ![a].grant = IF drainer[d].grant = NULL THEN @
                                       ELSE drainer[d].grant]
    /\ IF IsRevert(a) /\ row[a].email # NULL THEN Goto(d, "repair") ELSE Resume(d)
    /\ UNCHANGED <<history, grants, confirmations, notified, paused, mailVars,
                   now, minter, replaying, ghostVars>>

\* A revert that went through also brings the local email back.
Repair(d) ==
    LET e == row[drainer[d].id].email IN
    /\ drainer[d].pc = "repair"
    /\ email' = IF email[e].state = "deleted"
                THEN [email EXCEPT ![e].state = "live"] ELSE email
    /\ Resume(d)
    /\ UNCHANGED <<dbVars, place, now, minter, replaying, ghostVars>>

MarkedFailed(a, why) ==
    [row EXCEPT ![a].status = "failed", ![a].failure = why, ![a].terminalAt = now,
                ![a].budget = row[a].type \in SendFamily]

\* Mutant: only Tier-3 failures are announced.
MutMarkFailed(d) ==
    LET a == drainer[d].id IN
    /\ drainer[d].pc = "fail"
    /\ row' = MarkedFailed(a, drainer[d].why)
    /\ IF TierOf(row[a].type) < 3 THEN Resume(d) ELSE Goto(d, "notify")
    /\ UNCHANGED <<history, grants, confirmations, notified, paused, mailVars,
                   now, minter, replaying, ghostVars>>

MarkFailed(d) ==
    LET a == drainer[d].id IN
    /\ drainer[d].pc = "fail"
    /\ row' = MarkedFailed(a, drainer[d].why)
    /\ IF TierOf(row[a].type) = 1 THEN Resume(d) ELSE Goto(d, "notify")
    /\ UNCHANGED <<history, grants, confirmations, notified, paused, mailVars,
                   now, minter, replaying, ghostVars>>

\* send_important for Tier 2, send_urgent for Tier 3.
NotifyFailure(d) ==
    /\ drainer[d].pc = "notify"
    /\ notified' = notified \cup {drainer[d].id}
    /\ Resume(d)
    /\ UNCHANGED <<row, history, grants, confirmations, paused, mailVars, now,
                   minter, replaying, ghostVars>>

\* run_tick's except clause: the row is failed and nobody is told.
Recover(d) ==
    /\ drainer[d].pc \in {"error", "late_error"}
    /\ row' = MarkedFailed(drainer[d].id, "drainer_internal_error")
    /\ Resume(d)
    /\ UNCHANGED <<history, grants, confirmations, notified, paused, mailVars,
                   now, minter, replaying, ghostVars>>

DrainStep(d) ==
    \/ TickStart(d) \/ Select(d) \/ Claim(d) \/ PauseCheck(d)
    \/ CheckGrant(d) \/ Park(d) \/ CheckTarget(d) \/ CheckSendCap(d)
    \/ CapturePreState(d) \/ InsertHistory(d) \/ Dispatch(d)
    \/ MarkApplied(d) \/ Repair(d) \/ MarkFailed(d) \/ NotifyFailure(d)
    \/ Recover(d)
-----------------------------------------------------------------------------
(* The operator's CLI. *)

\* replay_action reads the row, the grant and the email, then resets.
ReplayCheck(a) ==
    /\ a \notin replaying
    /\ row[a].status = "failed"
    /\ row[a].terminalAt # NULL
    /\ now <= row[a].terminalAt + ReplayWindow
    /\ RequiresGrant(row[a].type) => Covering(row[a].type, row[a].email) # {}
    /\ row[a].type \in MoveFamily /\ row[a].email # NULL =>
            email[row[a].email].state # "deleted"
    /\ replays + Cardinality(replaying) < MaxReplays
    /\ replaying' = replaying \cup {a}
    /\ UNCHANGED <<dbVars, mailVars, now, drainer, minter, ghostVars>>

\* The reset is conditional on the row still being failed.  It leaves
\* budget_consumed alone but clears terminal_at, which the cap counts by.
ReplayReset(a) ==
    /\ a \in replaying
    /\ replaying' = replaying \ {a}
    /\ IF row[a].status = "failed"
       THEN /\ row' = [row EXCEPT ![a].status = "pending",
                                  ![a].terminalAt = NULL, ![a].failure = NULL]
            /\ replays' = replays + 1
       ELSE UNCHANGED <<row, replays>>
    /\ UNCHANGED <<history, grants, confirmations, notified, paused, mailVars,
                   now, drainer, minter, attempts, pausedSends, faults>>

Pause ==
    /\ MayPause /\ ~paused
    /\ paused' = TRUE
    /\ UNCHANGED <<row, history, grants, confirmations, notified, mailVars, now,
                   drainer, minter, replaying, ghostVars>>

Unpause ==
    /\ paused
    /\ paused' = FALSE
    /\ pausedSends' = [d \in Drainer |-> 0]
    /\ UNCHANGED <<row, history, grants, confirmations, notified, mailVars, now,
                   drainer, minter, replaying, attempts, replays, faults>>
-----------------------------------------------------------------------------
(* The sync worker and the clock. *)

\* EMAIL_UPSERT: a new row, or a new changeKey; never clears deleted_at.
Upsert(e) ==
    LET m == IF email[e].marker = NULL THEN 0 ELSE email[e].marker + 1 IN
    /\ m <= MaxMarker
    /\ email' = [email EXCEPT
            ![e].state = IF @ = "absent" THEN "live" ELSE @, ![e].marker = m]
    /\ UNCHANGED <<dbVars, place, now, drainer, minter, replaying, ghostVars>>

SoftDelete(e) ==
    /\ email[e].state = "live"
    /\ email' = [email EXCEPT ![e].state = "deleted"]
    /\ UNCHANGED <<dbVars, place, now, drainer, minter, replaying, ghostVars>>

\* mailbot resurrect.
Resurrect(e) ==
    /\ email[e].state = "deleted"
    /\ email' = [email EXCEPT ![e].state = "live"]
    /\ UNCHANGED <<dbVars, place, now, drainer, minter, replaying, ghostVars>>

Tick ==
    /\ now < MaxNow
    /\ now' = now + 1
    /\ UNCHANGED <<dbVars, mailVars, drainer, minter, replaying, ghostVars>>
-----------------------------------------------------------------------------
(* Faults. *)

\* The worker dies or is cancelled; the next tick starts afresh.  Nothing
\* ever looks for rows the dead drainer had claimed.
Crash(d) ==
    /\ drainer[d].pc # "idle"
    /\ faults < MaxFaults
    /\ faults' = faults + 1
    /\ drainer' = [drainer EXCEPT ![d] = IdleDrainer]
    /\ UNCHANGED <<dbVars, mailVars, now, minter, replaying, attempts,
                   pausedSends, replays>>

ApiCrash(m) ==
    /\ minter[m].pc # "idle"
    /\ faults < MaxFaults
    /\ faults' = faults + 1
    /\ minter' = [minter EXCEPT ![m] = IdleMinter]
    /\ UNCHANGED <<dbVars, mailVars, now, drainer, replaying, attempts,
                   pausedSends, replays>>

\* A statement raises (a write lock held past busy_timeout).  While a row is
\* processed the catch-all takes over; the catch-all's own write may fail too,
\* and then the row stays in draining and the batch goes on.
DbError(d) ==
    /\ faults < MaxFaults
    /\ faults' = faults + 1
    /\ \/ drainer[d].pc \in Owning \ {"claimed", "capture", "dispatch", "error"}
          /\ Goto(d, "error")
       \/ drainer[d].pc \in {"repair", "notify"} /\ Goto(d, "late_error")
       \/ drainer[d].pc \in {"error", "late_error"} /\ Resume(d)
    /\ UNCHANGED <<dbVars, mailVars, now, minter, replaying, attempts,
                   pausedSends, replays>>
\* The second pause snapshot cannot be read: it counts as paused.
PauseUnreadable(d) ==
    /\ drainer[d].pc = "claimed"
    /\ faults < MaxFaults
    /\ faults' = faults + 1
    /\ row' = [row EXCEPT ![drainer[d].id].status = "pending"]
    /\ drainer' = [drainer EXCEPT ![d] = IdleDrainer]
    /\ UNCHANGED <<history, grants, confirmations, notified, paused, mailVars,
                   now, minter, replaying, attempts, pausedSends, replays>>
-----------------------------------------------------------------------------
MintStep(m) == MintConsume(m) \/ MintInsert(m)

VerbStep ==
    \/ \E a \in Action, t \in Types, e \in Email \cup {NULL},
          f \in Folder \cup {NULL} : Propose(a, t, e, f)
    \/ \E a \in Action : Cancel(a)
    \/ \E t \in Types, S \in SUBSET Email : RequiresGrant(t) /\ Confirm(t, S)
    \/ \E m \in Minter, t \in Types, S \in SUBSET Email, w \in GrantWindows,
          c \in DOMAIN confirmations : MintFind(m, t, S, w, c)
    \/ \E m \in Minter : MintStep(m)
    \/ \E g \in DOMAIN grants : Revoke(g)

OperatorStep ==
    \/ \E a \in Action : ReplayCheck(a) \/ ReplayReset(a)
    \/ Pause \/ Unpause

SyncStep == \E e \in Email : Upsert(e) \/ SoftDelete(e) \/ Resurrect(e)

FaultStep ==
    \/ \E d \in Drainer : Crash(d) \/ DbError(d) \/ PauseUnreadable(d)
    \/ \E m \in Minter : ApiCrash(m)

Next ==
    \/ VerbStep \/ OperatorStep \/ SyncStep \/ FaultStep
    \/ \E d \in Drainer : DrainStep(d)
    \/ CoolingOffTick
    \/ Tick

Spec == Init /\ [][Next]_vars

\* What the code keeps running: the drainer loop, the cooling-off task, and a
\* mint request once it has started.  People, sync and faults owe nothing.
Fairness ==
    /\ \A d \in Drainer : WF_vars(DrainStep(d))
    /\ WF_vars(CoolingOffTick)
    /\ \A m \in Minter : WF_vars(MintStep(m))
    /\ WF_vars(Tick)

FairSpec == Spec /\ Fairness
-----------------------------------------------------------------------------
(* Properties. *)

TypeOK ==
    /\ row \in [Action -> Row]
    /\ history \in [Action -> HistoryRow]
    /\ grants \in Seq(Grant)
    /\ confirmations \in Seq(Confirmation)
    /\ email \in [Email -> EmailRow]
    /\ place \in [Email -> Folder]
    /\ paused \in BOOLEAN
    /\ now \in Nat
    /\ drainer \in [Drainer -> DrainerState]
    /\ minter \in [Minter -> MinterState]
    /\ replaying \subseteq Action
    /\ notified \subseteq Action
    /\ attempts \in [Action -> Seq(Nat)]
    /\ pausedSends \in [Drainer -> Nat]
    /\ replays \in Nat
    /\ faults \in Nat

Owns(d) == drainer[d].pc \in Owning

OneDrainer == \A c, d \in Drainer : c = d

\* A drainer writes the rows it processes without a status condition
\* (MARK_APPLIED, MARK_FAILED, REVERT_TO_PENDING_GRANT).  That is sound only
\* because, from claim to terminal write, no second drainer owns the row and
\* no verb, ticker, mint, cancel or replay moves it.  The one way round it: a
\* replay slips in between a drainer's failure write and its notification,
\* another drainer claims the row, and the first one's notification raises,
\* so that its catch-all fails the row again.  It takes all three.
ClaimOwnership ==
    faults = 0 \/ replays = 0 \/ OneDrainer =>
        \A d \in Drainer : Owns(d) =>
            /\ row[drainer[d].id].status = "draining"
            /\ \A c \in Drainer \ {d} : Owns(c) => drainer[c].id # drainer[d].id

\* A row reaches Graph at most once in its life: no crash, database error,
\* replay or second drainer makes mailbot send the same message twice.
AtMostOneDispatch == \A a \in Action : Len(attempts[a]) <= 1

\* An applied Tier-2/3 row names a grant of its own type whose list covers
\* its email.  mint_grant promotes by type alone, so the drainer's own check
\* is all that keeps a grant for one message from moving another.
AppliedUnderGrant ==
    \A a \in Action :
        row[a].status = "applied" /\ RequiresGrant(row[a].type) =>
            LET g == row[a].grant IN
            /\ g \in DOMAIN grants
            /\ grants[g].type = row[a].type
            /\ grants[g].emails = {} \/ row[a].email \in grants[g].emails

\* Every grant was paid for by a user confirmation of exactly its scope, and
\* no confirmation paid for two, however mint requests interleave or die.
GrantsBackedByConfirmations ==
    \A g \in DOMAIN grants :
        LET c == grants[g].confirmation IN
        /\ c \in DOMAIN confirmations
        /\ confirmations[c].consumed
        /\ confirmations[c].type = grants[g].type
        /\ confirmations[c].emails = grants[g].emails
        /\ \A h \in DOMAIN grants : h # g => grants[h].confirmation # c

\* No send leaves before its cooling-off window is over, whichever of
\* ticker, cancel, pause release and replay touched the row in between.
SendsCoolOff ==
    \A a \in Action : row[a].type \in SendFamily =>
        \A i \in DOMAIN attempts[a] :
            attempts[a][i] >= row[a].proposedAt + CoolingOff

\* Once paused, a drainer lets at most the call it is committed to go out,
\* and never another one of its batch.
PauseStopsBatch == \A d \in Drainer : pausedSends[d] <= 1

SendsToday ==
    Cardinality({a \in Action : /\ row[a].type \in SendFamily
                                /\ \E i \in DOMAIN attempts[a] :
                                        Day(attempts[a][i]) = Day(now)})

\* The daily cap, with its exact slack: each further drainer can race the
\* count by one, a row lost in draining is never counted, and a replay takes
\* a dispatched row out of the count until it is drained again.
SendCapWithSlack ==
    SendsToday <= DailySendCap + (Cardinality(Drainer) - 1) + faults + replays

\* A Tier-2/3 row that failed has been announced, or is about to be, or was
\* failed by the catch-all, or a fault took the announcement with it.
FailureAnnounced ==
    \A a \in Action :
        row[a].status = "failed" /\ RequiresGrant(row[a].type) =>
            \/ a \in notified
            \/ row[a].failure = "drainer_internal_error"
            \/ \E d \in Drainer : drainer[d].pc = "notify" /\ drainer[d].id = a
            \/ faults > 0

\* A cancelled row stays cancelled and an applied row stays applied: no replay,
\* ticker or mint reopens it.  The terminal writes have no status condition, so
\* that one thing gets past them: a revert is applied, the repair of its local
\* email raises, and the catch-all fails the row.  (With several drainers the
\* race that ClaimOwnership leaves open would do it too.)
Closed(a) == row[a].status \in {"applied", "cancelled"}

RepairFailedLate(a) ==
    /\ faults > 0
    /\ IsRevert(a)
    /\ row[a].status = "applied" /\ row'[a].status = "failed"

ClosedIsFinal ==
    [][faults = 0 \/ replays = 0 \/ OneDrainer =>
        \A a \in Action : Closed(a) => row'[a] = row[a] \/ RepairFailedLate(a)]_vars

\* A claimed row is decided: only a fault leaves one in draining.
ClaimResolves ==
    \A a \in Action : row[a].status = "draining" ~> faults > 0 \/ row[a].status # "draining"

\* A pending row is drained, whatever happened to the drainer, unless the
\* queue is paused first.
PendingDrains ==
    \A a \in Action : row[a].status = "pending" ~>
                            (paused \/ row[a].status # "pending")
-----------------------------------------------------------------------------
(* What the repository says of the queue and the code does not do. *)

\* "Re-queues a terminal-failed pending_actions row for re-drain": without a
\* fault, no drain of a replayed row ends in the catch-all.
ReplayedRowDrains ==
    faults = 0 => \A a \in Action : row[a].failure # "drainer_internal_error"
=============================================================================
