------------------------------- MODULE Reverter -------------------------------
(***************************************************************************)
(* `mailbot revert`: undoing an applied Tier-1 action by queueing its      *)
(* inverse.  The module extends ActionQueue: the inverse is an ordinary    *)
(* row that the same drainer drains, with two exceptions it makes for a    *)
(* row that undoes a move (IsRevert), and both exist because of the sync   *)
(* worker: a message moved out of the synced folder leaves by the delta    *)
(* feed and is soft-deleted locally.  So the sync worker is here too, with *)
(* the fetch of a delta page and its application as separate steps.        *)
(*                                                                         *)
(* Several reverters (CLI invocations) may run at once; every statement of *)
(* revert_action is its own transaction.                                   *)
(***************************************************************************)
EXTENDS ActionQueue

CONSTANTS
    Undoer,         \* CLI processes running revert_action
    RevertWindow,   \* REVERT_WINDOW
    Synced          \* the folder the delta feed covers

ASSUME RevertAssumption == RevertWindow \in Nat /\ Synced \in Folder

VARIABLES
    undoer,     \* locals of revert_action
    removed,    \* messages an unapplied delta page reports @removed
    inverseOf   \* history variable: the action a row was queued to undo

revertVars == <<undoer, removed, inverseOf>>
rvars      == <<vars, revertVars>>

IdleUndoer == [pc |-> "idle", id |-> NULL, folder |-> NULL]

InverseType(t) == CASE t = "mark_read"             -> "mark_unread"
                [] t = "mark_unread"           -> "mark_read"
                [] t = "add_local_category"    -> "remove_local_category"
                [] t = "remove_local_category" -> "add_local_category"
                [] OTHER                       -> t   \* the Tier-1 move

\* A row applied before history was written during the drain.
Legacy(t, e) == [NoRow EXCEPT !.status = "applied", !.type = t, !.email = e,
                              !.terminalAt = 0]

RInit ==
    /\ Init
    /\ \A e \in Email : place[e] = Synced /\ email[e].state = "live"
    /\ undoer = [u \in Undoer |-> IdleUndoer]
    /\ removed = {}
    /\ inverseOf = [a \in Action |-> NULL]

\* The same database with one action already applied by the older drainer.
RInitLegacy ==
    \E a \in Action, t \in Types \ MoveFamily, e \in Email :
        /\ TierOf(t) = 1
        /\ row = [b \in Action |-> IF b = a THEN Legacy(t, e) ELSE NoRow]
        /\ history = [b \in Action |-> NoHistory]
        /\ grants = <<>> /\ confirmations = <<>>
        /\ email = [m \in Email |-> [state |-> "live", marker |-> 0]]
        /\ place = [m \in Email |-> Synced]
        /\ paused = FALSE /\ now = 0
        /\ drainer = [d \in Drainer |-> IdleDrainer]
        /\ minter = [m \in Minter |-> IdleMinter]
        /\ replaying = {} /\ notified = {}
        /\ attempts = [b \in Action |-> <<>>]
        /\ pausedSends = [d \in Drainer |-> 0]
        /\ replays = 0 /\ faults = 0
        /\ undoer = [u \in Undoer |-> IdleUndoer]
        /\ removed = {}
        /\ inverseOf = [b \in Action |-> NULL]
-----------------------------------------------------------------------------
\* Mutant: a failed action may be reverted too.
MutRevertible(a) ==
    /\ TierOf(row[a].type) = 1
    /\ row[a].status \in {"applied", "failed"}
    /\ now <= row[a].terminalAt + RevertWindow
    /\ ~history[a].reverted

\* The gates of revert_action, up to the read of action_history.
Revertible(a) ==
    /\ TierOf(row[a].type) = 1
    /\ row[a].status = "applied"
    /\ row[a].terminalAt # NULL
    /\ now <= row[a].terminalAt + RevertWindow
    /\ ~history[a].reverted
    /\ row[a].type \in MoveFamily => history[a].folder # NULL

RevertCheck(u, a) ==
    /\ undoer[u].pc = "idle"
    /\ row[a].status # "absent"
    /\ Revertible(a)
    /\ undoer' = [undoer EXCEPT ![u] =
            [pc |-> IF history[a].logged THEN "claim" ELSE "history",
             id |-> a,
             folder |-> IF row[a].type \in MoveFamily THEN history[a].folder
                                                      ELSE NULL]]
    /\ UNCHANGED <<vars, removed, inverseOf>>

\* INSERT OR IGNORE of a placeholder for a row without history.
RevertPlaceholder(u) ==
    /\ undoer[u].pc = "history"
    /\ history' = [history EXCEPT ![undoer[u].id].logged = TRUE]
    /\ undoer' = [undoer EXCEPT ![u].pc = "claim"]
    /\ UNCHANGED <<row, grants, confirmations, notified, paused, mailVars, now,
                   drainer, minter, replaying, ghostVars, removed, inverseOf>>

\* Mutant: the claim is not conditional.
MutRevertClaim(u) ==
    LET a == undoer[u].id IN
    /\ undoer[u].pc = "claim"
    /\ history' = [history EXCEPT ![a].reverted = TRUE]
    /\ undoer' = [undoer EXCEPT ![u].pc = "insert"]
    /\ UNCHANGED <<row, grants, confirmations, notified, paused, mailVars, now,
                   drainer, minter, replaying, ghostVars, removed, inverseOf>>

\* MARK_REVERTED, conditional on reverted_at IS NULL: one caller wins.
RevertClaim(u) ==
    LET a == undoer[u].id IN
    /\ undoer[u].pc = "claim"
    /\ IF history[a].reverted
       THEN /\ undoer' = [undoer EXCEPT ![u] = IdleUndoer]
            /\ UNCHANGED history
       ELSE /\ history' = [history EXCEPT ![a].reverted = TRUE]
            /\ undoer' = [undoer EXCEPT ![u].pc = "insert"]
    /\ UNCHANGED <<row, grants, confirmations, notified, paused, mailVars, now,
                   drainer, minter, replaying, ghostVars, removed, inverseOf>>

\* Mutant: a soft-deleted target is refused after the claim.
MutRevertInsertLive(u, b) ==
    LET a == undoer[u].id IN
    /\ undoer[u].pc = "insert"
    /\ row[b].status = "absent"
    /\ IF email[row[a].email].state = "live"
       THEN /\ row' = [row EXCEPT ![b] =
                    [NoRow EXCEPT !.status = "pending", !.type = InverseType(row[a].type),
                                  !.email = row[a].email, !.target = undoer[u].folder,
                                  !.revertOf = a, !.proposedAt = now]]
            /\ inverseOf' = [inverseOf EXCEPT ![b] = a]
       ELSE UNCHANGED <<row, inverseOf>>
    /\ undoer' = [undoer EXCEPT ![u] = IdleUndoer]
    /\ UNCHANGED <<history, grants, confirmations, notified, paused, mailVars,
                   now, drainer, minter, replaying, ghostVars, removed>>

\* The inverse goes straight to pending; only a move carries the marker.
RevertInsert(u, b) ==
    LET a == undoer[u].id
        isMove == row[a].type \in MoveFamily
    IN
    /\ undoer[u].pc = "insert"
    /\ row[b].status = "absent"
    /\ row' = [row EXCEPT ![b] =
            [NoRow EXCEPT !.status = "pending", !.type = InverseType(row[a].type),
                          !.email = row[a].email, !.target = undoer[u].folder,
                          !.revertOf = IF isMove THEN a ELSE NULL,
                          !.proposedAt = now]]
    /\ inverseOf' = [inverseOf EXCEPT ![b] = a]
    /\ undoer' = [undoer EXCEPT ![u] = IdleUndoer]
    /\ UNCHANGED <<history, grants, confirmations, notified, paused, mailVars,
                   now, drainer, minter, replaying, ghostVars, removed>>

\* The CLI process is killed between two statements.
RevertCrash(u) ==
    /\ undoer[u].pc # "idle"
    /\ faults < MaxFaults
    /\ faults' = faults + 1
    /\ undoer' = [undoer EXCEPT ![u] = IdleUndoer]
    /\ UNCHANGED <<dbVars, mailVars, now, drainer, minter, replaying, attempts,
                   pausedSends, replays, removed, inverseOf>>
-----------------------------------------------------------------------------
(* The sync worker over the one synced folder. *)

\* A delta page is fetched: a live message that has left the folder is on it.
FetchDelta(e) ==
    /\ email[e].state = "live"
    /\ place[e] # Synced
    /\ removed' = removed \cup {e}
    /\ UNCHANGED <<vars, undoer, inverseOf>>

\* The page is applied; whatever happened since the fetch is not looked at.
ApplyDelta(e) ==
    /\ e \in removed
    /\ removed' = removed \ {e}
    /\ email' = IF email[e].state = "live"
                THEN [email EXCEPT ![e].state = "deleted"] ELSE email
    /\ UNCHANGED <<dbVars, place, now, drainer, minter, replaying, ghostVars,
                   undoer, inverseOf>>
-----------------------------------------------------------------------------
QueueStep ==
    \/ \E a \in Action, t \in Types, e \in Email, f \in Folder \cup {NULL} :
            Propose(a, t, e, f)
    \/ \E a \in Action : ReplayCheck(a) \/ ReplayReset(a)
    \/ \E d \in Drainer : DrainStep(d)
    \/ FaultStep
    \/ Tick

RevertStep(u) ==
    \/ RevertPlaceholder(u) \/ RevertClaim(u)
    \/ \E b \in Action : RevertInsert(u, b)

RNext ==
    \/ QueueStep /\ UNCHANGED revertVars
    \/ \E u \in Undoer, a \in Action : RevertCheck(u, a)
    \/ \E u \in Undoer : RevertStep(u) \/ RevertCrash(u)
    \/ \E e \in Email : FetchDelta(e) \/ ApplyDelta(e)

RSpec == (RInit \/ RInitLegacy) /\ [][RNext]_rvars
-----------------------------------------------------------------------------
\* However many reverts of one action race, and whether or not the action has
\* a history row, at most one inverse is ever queued.
OneInversePerAction ==
    \A b, c \in Action : inverseOf[b] # NULL /\ inverseOf[b] = inverseOf[c] => b = c

\* An action marked reverted has its inverse queued, or about to be, unless a
\* crash fell between the claim and the insert.
RevertedHasInverse ==
    \A a \in Action : history[a].reverted =>
        \/ \E b \in Action : inverseOf[b] = a
        \/ \E u \in Undoer : undoer[u].pc = "insert" /\ undoer[u].id = a
        \/ faults > 0

\* An inverse is only ever queued for an action that did take effect, and the
\* action keeps saying so afterwards.
InverseOfApplied ==
    faults = 0 => \A b \in Action :
        inverseOf[b] # NULL => row[inverseOf[b]].status = "applied"
=============================================================================
