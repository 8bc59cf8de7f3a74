---------------------------- MODULE ReverterProofs ----------------------------
(***************************************************************************)
(* Proofs about Reverter, for any number of reverters, drainers and rows:  *)
(* one inverse per reverted action, none lost without a crash, and none    *)
(* for an action that did not take effect.  The queue's invariants hold    *)
(* with reverters and the sync worker beside it, and from a database that  *)
(* an older drainer left as well.                                          *)
(***************************************************************************)
EXTENDS Reverter, ActionQueueOutcomeProofs

UndoerState == [pc : {"idle", "history", "claim", "insert"},
                id : Action \cup {NULL}, folder : Folder \cup {NULL}]

\* A reverter past its checks names a row that exists; for a move it has read
\* the folder the message came from.
UndoerShape ==
    \A u \in Undoer : undoer[u].pc # "idle" =>
        /\ undoer[u].id \in Action
        /\ row[undoer[u].id].status # "absent"
        /\ row[undoer[u].id].type \in MoveFamily => undoer[u].folder \in Folder

RTypeInv ==
    /\ undoer \in [Undoer -> UndoerState]
    /\ removed \subseteq Email
    /\ inverseOf \in [Action -> Action \cup {NULL}]
    /\ UndoerShape

QueueInv == TypeInv /\ OnceInv /\ LifeInv /\ OwnInv /\ LateOpen

\* The claim in action_history is what makes the inverse unique: a reverter
\* that inserts has claimed, nobody else has, and no inverse is there yet.
ClaimsLogged ==
    /\ \A a \in Action : history[a].reverted => history[a].logged
    /\ \A u \in Undoer : undoer[u].pc \in {"claim", "insert"} =>
            history[undoer[u].id].logged

OneClaimer ==
    \A u \in Undoer : undoer[u].pc = "insert" =>
        /\ history[undoer[u].id].reverted
        /\ \A b \in Action : inverseOf[b] # undoer[u].id
        /\ \A v \in Undoer : undoer[v].pc = "insert" /\ undoer[v].id = undoer[u].id
                                => u = v

InversesClaimed ==
    \A b \in Action : inverseOf[b] # NULL =>
        /\ history[inverseOf[b]].reverted
        /\ row[b].status # "absent"

ClaimInv ==
    /\ ClaimsLogged /\ OneClaimer /\ InversesClaimed
    /\ OneInversePerAction /\ RevertedHasInverse

\* What a reverter undoes stays applied while it works, and afterwards.
UndoesApplied ==
    faults = 0 => \A u \in Undoer : undoer[u].pc # "idle" =>
                        row[undoer[u].id].status = "applied"

RInv == QueueInv /\ RTypeInv /\ ClaimInv /\ UndoesApplied /\ InverseOfApplied
-----------------------------------------------------------------------------
(* The queue's own steps. *)

\* The handlers that run beside a revert are the queue's.
LEMMA QueueStepsAreNext == QueueStep => Next
  BY DEF QueueStep, Next, VerbStep, OperatorStep

\* They keep the queue's invariants.
LEMMA QueueKeepsQueue ==
    ASSUME QueueInv, QueueStep
    PROVE  QueueInv'
  <1>1. [Next]_vars
    BY QueueStepsAreNext
  <1> QED BY <1>1, TypeStep, OnceStep, LifeStep, OwnStep, LateStep DEF QueueInv

\* They rewrite no proposal.
LEMMA QueueKeepsProposals ==
    ASSUME QueueInv, QueueStep
    PROVE  ProposalsKept
  <1>1. CASE \E d \in Drainer : DrainStep(d)
    <2>1. PICK d \in Drainer : DrainStep(d)
      BY <1>1
    <2>2. CASE MarkApplied(d)
      BY <2>2, AppliedRows DEF QueueInv
    <2>3. CASE ~MarkApplied(d)
      BY <2>1, <2>3, DrainRows DEF QueueInv
    <2> QED BY <2>2, <2>3
  <1>2. CASE ~\E d \in Drainer : DrainStep(d)
    <2>1. VerbStep \/ OperatorStep \/ FaultStep \/ Tick
      BY <1>2 DEF QueueStep, VerbStep, OperatorStep
    <2> QED BY <2>1, VerbRows, OtherRows, FaultRows DEF QueueInv
  <1> QED BY <1>1, <1>2

\* A history row, once written, stays; reverted_at is the reverter's column.
HistoryKept ==
    \A a \in Action :
        /\ history'[a].reverted = history[a].reverted
        /\ history[a].logged => history'[a].logged

\* The queue writes the history of a row it dispatches for the first time only.
LEMMA QueueKeepsHistory ==
    ASSUME TypeInv, ClaimsLogged, QueueStep
    PROVE  HistoryKept
  <1>1. ASSUME NEW d \in Drainer, InsertHistory(d) PROVE HistoryKept
    <2> DEFINE a == drainer[d].id
    <2>1. a \in Action
      BY <1>1 DEF InsertHistory, TypeInv, DrainerShape, HoldsRow, Processing
    <2>2. CASE history[a].logged
      BY <1>1, <2>2 DEF InsertHistory, HistoryKept
    <2>3. CASE ~history[a].logged
      <3>1. /\ history'[a].reverted = FALSE
            /\ \A b \in Action \ {a} : history'[b] = history[b]
        BY <1>1, <2>1, <2>3 DEF InsertHistory, TypeInv, TypeOK
      <3>2. history[a].reverted = FALSE
        BY <2>1, <2>3 DEF ClaimsLogged, TypeInv, TypeOK, HistoryRow
      <3> QED BY <2>1, <2>3, <3>1, <3>2 DEF HistoryKept
    <2> QED BY <2>2, <2>3
  <1>2. CASE UNCHANGED history
    BY <1>2 DEF HistoryKept
  <1>3. CASE \E d \in Drainer : DrainStep(d)
    BY <1>1, <1>2, <1>3
       DEF DrainStep, TickStart, Select, Claim, PauseCheck, CheckGrant, Park,
           CheckTarget, CheckSendCap, CapturePreState, Dispatch, MarkApplied,
           Repair, MarkFailed, NotifyFailure, Recover, dbVars
  <1>4. CASE ~\E d \in Drainer : DrainStep(d)
    BY <1>2, <1>4
       DEF QueueStep, Propose, ReplayCheck, ReplayReset, FaultStep, Crash,
           DbError, PauseUnreadable, ApiCrash, Tick, dbVars
  <1> QED BY <1>3, <1>4
-----------------------------------------------------------------------------
(* The steps of reverters and of the sync worker, seen from the queue: they  *)
(* write no row that exists, and insert pending ones.                        *)

Beside ==
    /\ UNCHANGED <<drainer, attempts, replays>>
    /\ faults' \in Nat /\ faults' >= faults
    /\ \A a \in Action : row[a].status # "absent" => row'[a] = row[a]
    /\ \A a \in Action : row[a].status = "absent" =>
            row'[a] = row[a] \/ row'[a].status = "pending"
    /\ \A a \in Action : history[a].logged => history'[a].logged

\* Such a step rewrites no proposal.
LEMMA BesideKeepsProposals ==
    ASSUME Beside
    PROVE  ProposalsKept
  BY DEF Beside, ProposalsKept, SameProposal

\* It keeps the queue's invariants.
LEMMA BesideKeepsQueue ==
    ASSUME QueueInv, Beside, TypeInv'
    PROVE  QueueInv'
  <1>1. OnceInv'
    <2>1. \A d \in Drainer : Dispatching(d) => drainer[d].id \in Action
      BY DEF QueueInv, TypeInv, DrainerShape, Dispatching, HoldsRow, Processing
    <2>2. UnloggedUntried'
      BY DEF QueueInv, OnceInv, UnloggedUntried, Beside
    <2>3. DispatchingUntried'
      BY <2>1 DEF QueueInv, OnceInv, DispatchingUntried, Dispatching, Beside
    <2> QED BY <2>2, <2>3
            DEF QueueInv, OnceInv, OneDispatcher, AtMostOneDispatch, Dispatching, Beside
  <1>2. LifeInv'
    <2>1. RowsMoveOn
      BY DEF RowsMoveOn, Moving, Beside
    <2>2. DrainersHold
      BY DEF DrainersHold, Beside
    <2> QED BY <2>1, <2>2, HoldingKeepsLife DEF QueueInv, Beside
  <1>3. OwnInv'
    <2>1. replays' \in Nat /\ replays' >= replays
      BY DEF QueueInv, TypeInv, TypeOK, Beside
    <2>2. Outside
      BY <2>1 DEF Outside, Beside
    <2> QED BY <2>2, OutsideKeepsOwn DEF QueueInv
  <1>4. LateOpen'
    <2>1. NoneApplied
      BY DEF NoneApplied, Beside
    <2>2. LateKept
      BY DEF LateKept, Beside
    <2> QED BY <2>1, <2>2, BesideKeepsProposals, LateKeepsOpen DEF QueueInv, Beside
  <1> QED BY <1>1, <1>2, <1>3, <1>4 DEF QueueInv

\* Of the reverter's statements, only the last one writes a row.
BesideStep ==
    \/ \E u \in Undoer, a \in Action : RevertCheck(u, a)
    \/ \E u \in Undoer : RevertStep(u) \/ RevertCrash(u)
    \/ \E e \in Email : FetchDelta(e) \/ ApplyDelta(e)

\* The row a reverter inserts is typed.
LEMMA InverseRow ==
    ASSUME TypeInv, RTypeInv, NEW u \in Undoer, NEW b \in Action, RevertInsert(u, b)
    PROVE  /\ row' \in [Action -> Row] /\ RowShape'
           /\ row'[b].status = "pending"
           /\ \A c \in Action \ {b} : row'[c] = row[c]
  <1> DEFINE a == undoer[u].id
             t == row[a].type
  <1>1. /\ a \in Action /\ row[a] \in Row /\ now \in Nat
        /\ undoer[u].folder \in Folder \cup {NULL}
        /\ t \in MoveFamily => undoer[u].folder \in Folder
    BY DEF RevertInsert, RTypeInv, UndoerShape, UndoerState, TypeInv, TypeOK
  <1>2. /\ InverseType(t) \in ActionType \cup {NULL}
        /\ InverseType(t) \in MoveFamily => t \in MoveFamily
    BY <1>1 DEF InverseType, Row, ActionType, Tier1Types, MoveFamily
  <1>3. PICK v \in Action \cup {NULL} : v = IF t \in MoveFamily THEN a ELSE NULL
    BY <1>1
  <1>4. PICK e \in Email \cup {NULL} : e = row[a].email
    BY <1>1 DEF Row
  <1>5. PICK i \in ActionType \cup {NULL} : i = InverseType(t)
    BY <1>2
  <1>6. PICK f \in Folder \cup {NULL} : f = undoer[u].folder
    BY <1>1
  <1>11. PICK r : r = [NoRow EXCEPT !.status = "pending", !.type = i, !.email = e,
                                    !.target = f, !.revertOf = v, !.proposedAt = now]
    OBVIOUS
  <1>7. r \in Row /\ r.status = "pending" /\ r.type = i /\ r.target = f
    <2>1. v \in Action \cup {NULL} /\ e \in Email \cup {NULL}
      BY <1>3, <1>4
    <2>2. i \in ActionType \cup {NULL} /\ f \in Folder \cup {NULL} /\ now \in Nat
      BY <1>1, <1>5, <1>6
    <2> QED BY <2>1, <2>2, <1>11 DEF NoRow, Row, Status, Waiting, Terminal
  <1>8. row' = [row EXCEPT ![b] = r]
    BY <1>3, <1>4, <1>5, <1>6, <1>11 DEF RevertInsert
  <1>9. /\ row'[b] = r /\ \A c \in Action \ {b} : row'[c] = row[c]
        /\ row' \in [Action -> Row]
    BY <1>7, <1>8 DEF TypeInv, TypeOK
  <1>10. RowShape'
    BY <1>1, <1>2, <1>5, <1>6, <1>7, <1>9 DEF RowShape, TypeInv
  <1> QED BY <1>7, <1>9, <1>10

\* So the queue's types are kept.
LEMMA BesideTypes ==
    ASSUME TypeInv, RTypeInv, BesideStep
    PROVE  TypeInv' /\ Beside
  <1>1. faults \in Nat
    BY DEF TypeInv, TypeOK
  <1>2. ASSUME UNCHANGED vars PROVE TypeInv' /\ Beside
    BY <1>1, <1>2, TypeStutter DEF vars, dbVars, ghostVars, Beside
  <1>3. ASSUME NEW u \in Undoer, RevertPlaceholder(u) \/ RevertClaim(u)
        PROVE  TypeInv' /\ Beside
    <2> DEFINE a == undoer[u].id
    <2>1. a \in Action
      BY <1>3 DEF RevertPlaceholder, RevertClaim, RTypeInv, UndoerShape
    <2>2. /\ history' \in [Action -> HistoryRow]
          /\ \A c \in Action : history[c].logged => history'[c].logged
      <3>1. history \in [Action -> HistoryRow]
        BY DEF TypeInv, TypeOK
      <3>2. CASE history' = [history EXCEPT ![a].logged = TRUE]
        BY <2>1, <3>1, <3>2 DEF HistoryRow
      <3>3. CASE history' = [history EXCEPT ![a].reverted = TRUE]
        BY <2>1, <3>1, <3>3 DEF HistoryRow
      <3>4. CASE UNCHANGED history
        BY <3>1, <3>4
      <3> QED BY <1>3, <3>2, <3>3, <3>4 DEF RevertPlaceholder, RevertClaim
    <2>3. UNCHANGED <<row, grants, confirmations, notified, paused, email, place, now,
                      drainer, minter, replaying, attempts, pausedSends, replays, faults>>
      BY <1>3 DEF RevertPlaceholder, RevertClaim, mailVars, ghostVars
    <2>4. TypeInv'
      BY <2>2, <2>3 DEF TypeInv, TypeOK, RowShape, DrainerShape, MinterShape
    <2> QED BY <1>1, <2>2, <2>3, <2>4 DEF Beside
  <1>4. ASSUME NEW u \in Undoer, NEW b \in Action, RevertInsert(u, b)
        PROVE  TypeInv' /\ Beside
    <2>1. UNCHANGED <<history, grants, confirmations, notified, paused, email, place, now,
                      drainer, minter, replaying, attempts, pausedSends, replays, faults>>
      BY <1>4 DEF RevertInsert, mailVars, ghostVars
    <2>2. TypeInv'
      BY <1>4, <2>1, InverseRow DEF TypeInv, TypeOK, DrainerShape, MinterShape
    <2>3. row[b].status = "absent"
      BY <1>4 DEF RevertInsert
    <2> QED BY <1>1, <1>4, <2>1, <2>2, <2>3, InverseRow DEF Beside
  <1>5. ASSUME NEW u \in Undoer, RevertCrash(u) PROVE TypeInv' /\ Beside
    <2>1. /\ faults' = faults + 1
          /\ UNCHANGED <<row, history, grants, confirmations, notified, paused, email,
                         place, now, drainer, minter, replaying, attempts, pausedSends,
                         replays>>
      BY <1>5 DEF RevertCrash, dbVars, mailVars
    <2>2. TypeInv'
      BY <1>1, <2>1 DEF TypeInv, TypeOK, RowShape, DrainerShape, MinterShape
    <2> QED BY <1>1, <2>1, <2>2 DEF Beside
  <1>6. ASSUME NEW e \in Email, ApplyDelta(e) PROVE TypeInv' /\ Beside
    <2>1. email' \in [Email -> EmailRow]
      <3>1. email' = [email EXCEPT ![e].state = "deleted"] \/ email' = email
        BY <1>6 DEF ApplyDelta
      <3> QED BY <3>1, EmailStateType DEF TypeInv, TypeOK
    <2>2. UNCHANGED <<row, history, grants, confirmations, notified, paused, place, now,
                      drainer, minter, replaying, attempts, pausedSends, replays, faults>>
      BY <1>6 DEF ApplyDelta, dbVars, ghostVars
    <2>3. TypeInv'
      BY <2>1, <2>2 DEF TypeInv, TypeOK, RowShape, DrainerShape, MinterShape
    <2> QED BY <1>1, <2>2, <2>3 DEF Beside
  <1> QED BY <1>2, <1>3, <1>4, <1>5, <1>6
          DEF BesideStep, RevertStep, RevertCheck, FetchDelta
-----------------------------------------------------------------------------
(* The claim. *)

\* Faults are only ever added.
LEMMA FaultsGrow ==
    ASSUME TypeInv, QueueStep
    PROVE  faults' \in Nat /\ faults' >= faults
  <1>1. faults \in Nat
    BY DEF TypeInv, TypeOK
  <1>2. UNCHANGED faults \/ faults' = faults + 1
    <2>1. CASE FaultStep
      BY <2>1 DEF FaultStep, Crash, DbError, PauseUnreadable, ApiCrash
    <2>2. CASE \E d \in Drainer : DrainStep(d)
      BY <2>2 DEF DrainStep, TickStart, Select, Claim, PauseCheck, CheckGrant, Park,
             CheckTarget, CheckSendCap, CapturePreState, InsertHistory, Dispatch,
             MarkApplied, Repair, MarkFailed, NotifyFailure, Recover, ghostVars
    <2> QED BY <2>1, <2>2
            DEF QueueStep, Propose, ReplayCheck, ReplayReset, Tick, ghostVars
  <1> QED BY <1>1, <1>2

\* The queue's steps keep what is known of reverters and claims.
LEMMA QueueKeepsClaims ==
    ASSUME QueueInv, RTypeInv, ClaimInv, QueueStep, UNCHANGED revertVars
    PROVE  RTypeInv' /\ ClaimInv'
  <1>1. ProposalsKept /\ HistoryKept /\ faults \in Nat /\ faults' \in Nat /\ faults' >= faults
    BY QueueKeepsProposals, QueueKeepsHistory, FaultsGrow
       DEF ClaimInv, QueueInv, TypeInv, TypeOK
  <1>2. UNCHANGED <<undoer, removed, inverseOf>>
    BY DEF revertVars
  <1>3. RTypeInv'
    BY <1>1, <1>2 DEF RTypeInv, UndoerShape, ProposalsKept, SameProposal
  <1>4. \A u \in Undoer : undoer[u].pc # "idle" => undoer[u].id \in Action
    BY DEF RTypeInv, UndoerShape
  <1>5. \A b \in Action : inverseOf[b] # NULL => inverseOf[b] \in Action
    BY DEF RTypeInv
  <1>6. ClaimsLogged'
    BY <1>1, <1>2, <1>4 DEF ClaimInv, ClaimsLogged, HistoryKept
  <1>7. OneClaimer'
    BY <1>1, <1>2, <1>4 DEF ClaimInv, OneClaimer, HistoryKept
  <1>8. InversesClaimed'
    BY <1>1, <1>2, <1>5
       DEF ClaimInv, InversesClaimed, HistoryKept, ProposalsKept, SameProposal
  <1>9. OneInversePerAction'
    BY <1>2 DEF ClaimInv, OneInversePerAction
  <1>10. RevertedHasInverse'
    BY <1>1, <1>2 DEF ClaimInv, RevertedHasInverse, HistoryKept
  <1> QED BY <1>3, <1>6, <1>7, <1>8, <1>9, <1>10 DEF ClaimInv

\* The checks of one reverter.
LEMMA CheckKeepsClaims ==
    ASSUME QueueInv, RTypeInv, ClaimInv, NEW u \in Undoer, NEW a \in Action,
           RevertCheck(u, a)
    PROVE  RTypeInv' /\ ClaimInv'
  <1> DEFINE s == [pc |-> IF history[a].logged THEN "claim" ELSE "history", id |-> a,
                   folder |-> IF row[a].type \in MoveFamily THEN history[a].folder
                                                            ELSE NULL]
  <1>1. /\ undoer' = [undoer EXCEPT ![u] = s]
        /\ row[a].status # "absent"
        /\ row[a].type \in MoveFamily => history[a].folder # NULL
        /\ UNCHANGED <<row, history, faults, removed, inverseOf>>
    BY DEF RevertCheck, Revertible, vars, dbVars, ghostVars
  <1>2. history[a].folder \in Folder \cup {NULL}
    BY DEF QueueInv, TypeInv, TypeOK, HistoryRow
  <1>3. /\ s \in UndoerState /\ s.id = a /\ s.pc \in {"claim", "history"}
        /\ s.pc = "claim" => history[a].logged
        /\ row[a].type \in MoveFamily => s.folder \in Folder
    BY <1>1, <1>2 DEF UndoerState
  <1> HIDE DEF s
  <1>4. undoer'[u] = s /\ \A v \in Undoer \ {u} : undoer'[v] = undoer[v]
    BY <1>1 DEF RTypeInv
  <1>5. RTypeInv'
    BY <1>1, <1>3, <1>4 DEF RTypeInv, UndoerShape
  <1>6. ClaimsLogged'
    BY <1>1, <1>3, <1>4 DEF ClaimInv, ClaimsLogged
  <1>7. OneClaimer'
    BY <1>1, <1>3, <1>4 DEF ClaimInv, OneClaimer
  <1>8. InversesClaimed' /\ OneInversePerAction'
    BY <1>1 DEF ClaimInv, InversesClaimed, OneInversePerAction
  <1>9. RevertedHasInverse'
    BY <1>1, <1>3, <1>4, undoer[u].pc = "idle"
       DEF ClaimInv, RevertedHasInverse, RevertCheck
  <1> QED BY <1>5, <1>6, <1>7, <1>8, <1>9 DEF ClaimInv

\* The placeholder.
LEMMA PlaceholderKeepsClaims ==
    ASSUME QueueInv, RTypeInv, ClaimInv, NEW u \in Undoer, RevertPlaceholder(u)
    PROVE  RTypeInv' /\ ClaimInv'
  <1> DEFINE a == undoer[u].id
  <1>1. /\ undoer[u].pc = "history" /\ a \in Action
        /\ UNCHANGED <<row, faults, removed, inverseOf>>
    BY DEF RevertPlaceholder, RTypeInv, UndoerShape, ghostVars
  <1>2. /\ undoer'[u].pc = "claim" /\ undoer'[u].id = a
        /\ undoer'[u].folder = undoer[u].folder
        /\ \A v \in Undoer \ {u} : undoer'[v] = undoer[v]
        /\ undoer' \in [Undoer -> UndoerState]
    BY DEF RevertPlaceholder, RTypeInv, UndoerState
  <1>3. /\ history'[a].logged
        /\ \A b \in Action : /\ history'[b].reverted = history[b].reverted
                             /\ history[b].logged => history'[b].logged
    BY <1>1 DEF RevertPlaceholder, QueueInv, TypeInv, TypeOK, HistoryRow
  <1>4. RTypeInv'
    BY <1>1, <1>2 DEF RTypeInv, UndoerShape
  <1>5. \A v \in Undoer : undoer[v].pc # "idle" => undoer[v].id \in Action
    BY DEF RTypeInv, UndoerShape
  <1>6. ClaimsLogged'
    BY <1>1, <1>2, <1>3, <1>5 DEF ClaimInv, ClaimsLogged
  <1>7. OneClaimer'
    BY <1>1, <1>2, <1>3, <1>5 DEF ClaimInv, OneClaimer
  <1>8. InversesClaimed' /\ OneInversePerAction'
    BY <1>1, <1>3 DEF ClaimInv, InversesClaimed, OneInversePerAction, RTypeInv
  <1>9. RevertedHasInverse'
    BY <1>1, <1>2, <1>3 DEF ClaimInv, RevertedHasInverse
  <1> QED BY <1>4, <1>6, <1>7, <1>8, <1>9 DEF ClaimInv

\* A reverter that gives up, or loses the claim, leaves every claim as it is,
\* unless it held one.
LEMMA DropKeepsClaims ==
    ASSUME QueueInv, RTypeInv, ClaimInv, NEW u \in Undoer,
           undoer' = [undoer EXCEPT ![u] = IdleUndoer],
           UNCHANGED <<row, history, removed, inverseOf>>,
           faults' \in Nat, faults' >= faults,
           undoer[u].pc = "insert" => faults' > 0
    PROVE  RTypeInv' /\ ClaimInv'
  <1>1. /\ undoer'[u].pc = "idle"
        /\ \A v \in Undoer \ {u} : undoer'[v] = undoer[v]
        /\ undoer' \in [Undoer -> UndoerState]
    BY DEF IdleUndoer, RTypeInv, UndoerState
  <1>2. faults \in Nat
    BY DEF QueueInv, TypeInv, TypeOK
  <1>3. RTypeInv'
    BY <1>1 DEF RTypeInv, UndoerShape
  <1>4. ClaimsLogged' /\ OneClaimer'
    BY <1>1 DEF ClaimInv, ClaimsLogged, OneClaimer
  <1>5. InversesClaimed' /\ OneInversePerAction'
    BY DEF ClaimInv, InversesClaimed, OneInversePerAction
  <1>6. RevertedHasInverse'
    BY <1>1, <1>2 DEF ClaimInv, RevertedHasInverse
  <1> QED BY <1>3, <1>4, <1>5, <1>6 DEF ClaimInv

\* The conditional UPDATE: the winner is the only one, and first.
LEMMA ClaimKeepsClaims ==
    ASSUME QueueInv, RTypeInv, ClaimInv, NEW u \in Undoer, RevertClaim(u)
    PROVE  RTypeInv' /\ ClaimInv'
  <1> DEFINE a == undoer[u].id
  <1>1. /\ undoer[u].pc = "claim" /\ a \in Action
        /\ UNCHANGED <<row, faults, removed, inverseOf>>
        /\ faults \in Nat /\ history[a].logged
    BY DEF RevertClaim, RTypeInv, UndoerShape, ghostVars, QueueInv, TypeInv, TypeOK,
           ClaimInv, ClaimsLogged
  <1>2. CASE history[a].reverted
    <2>1. undoer' = [undoer EXCEPT ![u] = IdleUndoer] /\ UNCHANGED history
      BY <1>2 DEF RevertClaim
    <2>2. faults' \in Nat /\ faults' >= faults /\ undoer[u].pc # "insert"
      BY <1>1
    <2> QED BY <1>1, <2>1, <2>2, DropKeepsClaims
  <1>3. CASE ~history[a].reverted
    <2>1. /\ undoer'[u].pc = "insert" /\ undoer'[u].id = a
          /\ undoer'[u].folder = undoer[u].folder
          /\ \A v \in Undoer \ {u} : undoer'[v] = undoer[v]
          /\ undoer' \in [Undoer -> UndoerState]
      BY <1>3 DEF RevertClaim, RTypeInv, UndoerState
    <2>2. /\ history'[a].reverted /\ history'[a].logged
          /\ \A b \in Action \ {a} : history'[b] = history[b]
      <3>1. history' = [history EXCEPT ![a].reverted = TRUE]
        BY <1>3 DEF RevertClaim
      <3>2. history \in [Action -> HistoryRow]
        BY DEF QueueInv, TypeInv, TypeOK
      <3> QED BY <1>1, <3>1, <3>2 DEF HistoryRow
    <2>3. RTypeInv'
      BY <1>1, <2>1 DEF RTypeInv, UndoerShape
    <2>4. \A v \in Undoer : undoer[v].pc = "insert" => undoer[v].id # a
      BY <1>3 DEF ClaimInv, OneClaimer
    <2>5. \A b \in Action : inverseOf[b] # a
      BY <1>1, <1>3, NullAssumption DEF ClaimInv, InversesClaimed
    <2>6. \A v \in Undoer : undoer[v].pc # "idle" => undoer[v].id \in Action
      BY DEF RTypeInv, UndoerShape
    <2>7. ClaimsLogged'
      BY <1>1, <2>1, <2>2, <2>6 DEF ClaimInv, ClaimsLogged
    <2>8. OneClaimer'
      BY <1>1, <2>1, <2>2, <2>4, <2>5, <2>6 DEF ClaimInv, OneClaimer
    <2>9. InversesClaimed' /\ OneInversePerAction'
      BY <1>1, <2>2 DEF ClaimInv, InversesClaimed, OneInversePerAction, RTypeInv
    <2>10. RevertedHasInverse'
      BY <1>1, <2>1, <2>2, <2>4 DEF ClaimInv, RevertedHasInverse
    <2> QED BY <2>3, <2>7, <2>8, <2>9, <2>10 DEF ClaimInv
  <1> QED BY <1>2, <1>3

\* The winner's inverse is the first.
LEMMA InsertKeepsClaims ==
    ASSUME QueueInv, RTypeInv, ClaimInv, NEW u \in Undoer, NEW b \in Action,
           RevertInsert(u, b)
    PROVE  RTypeInv' /\ ClaimInv'
  <1> DEFINE a == undoer[u].id
  <1>1. /\ undoer[u].pc = "insert" /\ a \in Action /\ row[b].status = "absent"
        /\ row[a].status # "absent"
        /\ UNCHANGED <<history, faults, removed>>
    BY DEF RevertInsert, RTypeInv, UndoerShape, ghostVars
  <1>2. /\ undoer'[u].pc = "idle"
        /\ \A v \in Undoer \ {u} : undoer'[v] = undoer[v]
        /\ undoer' \in [Undoer -> UndoerState]
    BY DEF RevertInsert, IdleUndoer, RTypeInv, UndoerState
  <1>3. /\ inverseOf'[b] = a
        /\ \A c \in Action \ {b} : inverseOf'[c] = inverseOf[c]
        /\ inverseOf' \in [Action -> Action \cup {NULL}]
    BY <1>1 DEF RevertInsert, RTypeInv
  <1>4. row'[b].status = "pending" /\ \A c \in Action \ {b} : row'[c] = row[c]
    BY InverseRow DEF QueueInv
  <1>5. /\ history[a].reverted
        /\ \A c \in Action : inverseOf[c] # a
        /\ \A v \in Undoer : undoer[v].pc = "insert" /\ undoer[v].id = a => v = u
    BY <1>1 DEF ClaimInv, OneClaimer
  <1>6. inverseOf[b] = NULL
    BY <1>1 DEF ClaimInv, InversesClaimed
  <1>7. RTypeInv'
    BY <1>1, <1>2, <1>3, <1>4 DEF RTypeInv, UndoerShape
  <1>8. ClaimsLogged'
    BY <1>1, <1>2 DEF ClaimInv, ClaimsLogged
  <1>9. OneClaimer'
    BY <1>1, <1>2, <1>3, <1>5 DEF ClaimInv, OneClaimer
  <1>10. InversesClaimed'
    BY <1>1, <1>3, <1>4, <1>5 DEF ClaimInv, InversesClaimed
  <1>11. OneInversePerAction'
    BY <1>3, <1>5 DEF ClaimInv, OneInversePerAction
  <1>12. RevertedHasInverse'
    <2> SUFFICES ASSUME NEW c \in Action, history[c].reverted, faults = 0
                 PROVE  \/ \E x \in Action : inverseOf'[x] = c
                        \/ \E v \in Undoer : undoer'[v].pc = "insert" /\ undoer'[v].id = c
      <3>1. faults \in Nat /\ faults' = faults /\ history' = history
        BY <1>1 DEF QueueInv, TypeInv, TypeOK
      <3>2. faults' = 0 \/ faults' > 0
        BY <3>1
      <3> QED BY <3>1, <3>2 DEF RevertedHasInverse
    <2>1. CASE c = a
      BY <1>3, <2>1
    <2>2. CASE c # a
      <3>1. \/ \E x \in Action : inverseOf[x] = c
            \/ \E v \in Undoer : undoer[v].pc = "insert" /\ undoer[v].id = c
        BY DEF ClaimInv, RevertedHasInverse
      <3>2. c # NULL
        BY NullAssumption
      <3> QED BY <1>2, <1>3, <1>6, <2>2, <3>1, <3>2
    <2> QED BY <2>1, <2>2
  <1> QED BY <1>7, <1>8, <1>9, <1>10, <1>11, <1>12 DEF ClaimInv

\* Every step keeps the claims.
LEMMA ClaimStep ==
    ASSUME QueueInv, RTypeInv, ClaimInv, [RNext]_rvars
    PROVE  RTypeInv' /\ ClaimInv'
  <1>1. faults \in Nat
    BY DEF QueueInv, TypeInv, TypeOK
  <1>2. CASE UNCHANGED rvars
    BY <1>2 DEF rvars, revertVars, vars, dbVars, ghostVars, RTypeInv, UndoerShape, ClaimInv,
           ClaimsLogged, OneClaimer, InversesClaimed, OneInversePerAction, RevertedHasInverse
  <1>3. ASSUME NEW u \in Undoer, RevertCrash(u) PROVE RTypeInv' /\ ClaimInv'
    <2>1. /\ faults' = faults + 1
          /\ undoer' = [undoer EXCEPT ![u] = IdleUndoer]
          /\ UNCHANGED <<row, history, removed, inverseOf>>
      BY <1>3 DEF RevertCrash, dbVars
    <2>2. faults' \in Nat /\ faults' >= faults /\ faults' > 0
      BY <1>1, <2>1
    <2> QED BY <2>1, <2>2, DropKeepsClaims
  <1>4. ASSUME NEW e \in Email, FetchDelta(e) \/ ApplyDelta(e)
        PROVE  RTypeInv' /\ ClaimInv'
    <2>1. /\ UNCHANGED <<row, history, faults, undoer, inverseOf>>
          /\ removed' \subseteq removed \cup {e}
      BY <1>4 DEF FetchDelta, ApplyDelta, vars, dbVars, ghostVars
    <2> QED BY <2>1 DEF RTypeInv, UndoerShape, ClaimInv, ClaimsLogged, OneClaimer,
               InversesClaimed, OneInversePerAction, RevertedHasInverse
  <1> QED BY <1>2, <1>3, <1>4, QueueKeepsClaims, CheckKeepsClaims, PlaceholderKeepsClaims,
             ClaimKeepsClaims, InsertKeepsClaims
          DEF RNext, RevertStep
-----------------------------------------------------------------------------
(* The action an inverse undoes. *)

\* Every step keeps the queue's invariants.
LEMMA QueueInvStep ==
    ASSUME QueueInv, RTypeInv, [RNext]_rvars
    PROVE  QueueInv'
  <1>1. CASE BesideStep
    BY <1>1, BesideTypes, BesideKeepsQueue DEF QueueInv
  <1>2. CASE UNCHANGED rvars
    <2>1. [Next]_vars
      BY <1>2 DEF rvars
    <2> QED BY <2>1, TypeStep, OnceStep, LifeStep, OwnStep, LateStep DEF QueueInv
  <1> QED BY <1>1, <1>2, QueueKeepsQueue DEF RNext, BesideStep

\* Without a fault an applied row stays applied, whatever the step.
LEMMA AppliedStays ==
    ASSUME QueueInv, RTypeInv, [RNext]_rvars, faults' = 0
    PROVE  /\ faults = 0
           /\ \A a \in Action : row[a].status = "applied" => row'[a].status = "applied"
  <1>1. faults \in Nat
    BY DEF QueueInv, TypeInv, TypeOK
  <1>2. CASE UNCHANGED rvars
    BY <1>2 DEF rvars, vars, dbVars, ghostVars
  <1>3. CASE BesideStep
    <2>1. Beside
      BY <1>3, BesideTypes DEF QueueInv
    <2> QED BY <1>1, <2>1 DEF Beside
  <1>4. CASE QueueStep
    <2>1. faults = 0
      BY <1>1, <1>4, FaultsGrow DEF QueueInv
    <2>2. ClosedKept
      BY <1>4, QueueStepsAreNext, ClosedStep DEF QueueInv
    <2> QED BY <2>1, <2>2 DEF ClosedKept, Undisturbed, Closed, RepairFailedLate
  <1> QED BY <1>2, <1>3, <1>4 DEF RNext, BesideStep

\* So what a reverter has checked stays true until its inverse is queued, and
\* afterwards.
LEMMA UndoesStep ==
    ASSUME QueueInv, RTypeInv, UndoesApplied, InverseOfApplied, [RNext]_rvars
    PROVE  UndoesApplied' /\ InverseOfApplied'
  <1> SUFFICES ASSUME faults' = 0
               PROVE  /\ \A u \in Undoer : undoer'[u].pc # "idle" =>
                            row'[undoer'[u].id].status = "applied"
                      /\ \A b \in Action : inverseOf'[b] # NULL =>
                            row'[inverseOf'[b]].status = "applied"
    BY DEF UndoesApplied, InverseOfApplied
  <1>1. /\ faults = 0
        /\ \A a \in Action : row[a].status = "applied" => row'[a].status = "applied"
    BY AppliedStays
  <1>2. /\ \A u \in Undoer : undoer[u].pc # "idle" =>
              undoer[u].id \in Action /\ row[undoer[u].id].status = "applied"
        /\ \A b \in Action : inverseOf[b] # NULL =>
              inverseOf[b] \in Action /\ row[inverseOf[b]].status = "applied"
    BY <1>1 DEF UndoesApplied, InverseOfApplied, RTypeInv, UndoerShape
  <1>3. CASE UNCHANGED <<undoer, inverseOf>>
    BY <1>1, <1>2, <1>3
  <1>4. ASSUME NEW u \in Undoer,
               \/ \E a \in Action : RevertCheck(u, a)
               \/ RevertPlaceholder(u) \/ RevertClaim(u) \/ RevertCrash(u)
        PROVE  /\ UNCHANGED inverseOf
               /\ \A v \in Undoer : undoer'[v].pc # "idle" =>
                    \/ undoer[v].pc # "idle" /\ undoer'[v].id = undoer[v].id
                    \/ undoer'[v].id \in Action /\ row[undoer'[v].id].status = "applied"
    BY <1>4 DEF RevertCheck, Revertible, RevertPlaceholder, RevertClaim, RevertCrash,
           IdleUndoer, RTypeInv, UndoerState
  <1>5. ASSUME NEW u \in Undoer, NEW b \in Action, RevertInsert(u, b)
        PROVE  /\ \A v \in Undoer : undoer'[v].pc # "idle" =>
                    undoer[v].pc # "idle" /\ undoer'[v].id = undoer[v].id
               /\ inverseOf'[b] = undoer[u].id /\ undoer[u].pc # "idle"
               /\ \A c \in Action \ {b} : inverseOf'[c] = inverseOf[c]
    BY <1>5 DEF RevertInsert, IdleUndoer, RTypeInv
  <1>6. ASSUME NEW e \in Email, FetchDelta(e) \/ ApplyDelta(e)
        PROVE  UNCHANGED <<undoer, inverseOf>>
    BY <1>6 DEF FetchDelta, ApplyDelta
  <1> QED BY <1>1, <1>2, <1>3, <1>4, <1>5, <1>6 DEF RNext, RevertStep, rvars, revertVars
-----------------------------------------------------------------------------
(* The initial states, with and without a row of the older drainer. *)

\* A database with one row the older drainer applied is typed.
LEMMA LegacyTypes == RInitLegacy => TypeInv
  <1> SUFFICES ASSUME RInitLegacy PROVE TypeInv
    OBVIOUS
  <1>1. PICK a \in Action, t \in Types \ MoveFamily, e \in Email :
            row = [b \in Action |-> IF b = a THEN Legacy(t, e) ELSE NoRow]
    BY DEF RInitLegacy
  <1>2. t \in ActionType /\ Legacy(t, e) \in Row /\ Legacy(t, e).type = t
    BY <1>1, TypesAssumption DEF Legacy, NoRow, Row, Status, Waiting, Terminal
  <1>3. NoRow \in Row /\ NoRow.type = NULL /\ NULL \notin MoveFamily
    BY NullAssumption DEF NoRow, Row, Status, ActionType, MoveFamily, Tier1Types, Tier2Types
  <1>4. row \in [Action -> Row] /\ RowShape
    BY <1>1, <1>2, <1>3 DEF RowShape
  <1>5. history \in [Action -> HistoryRow] /\ email \in [Email -> EmailRow]
    BY DEF RInitLegacy, NoHistory, HistoryRow, EmailRow
  <1>6. /\ drainer \in [Drainer -> DrainerState] /\ DrainerShape
        /\ minter \in [Minter -> MinterState] /\ MinterShape
    BY DEF RInitLegacy, IdleDrainer, DrainerState, DrainerShape, IdleMinter, MinterState,
           MinterShape, HoldsRow, Processing
  <1>7. place \in [Email -> Folder] /\ attempts \in [Action -> Seq(Nat)]
    BY RevertAssumption DEF RInitLegacy
  <1>8. grants \in Seq(Grant) /\ confirmations \in Seq(Confirmation)
    BY DEF RInitLegacy
  <1>9. /\ now \in Nat /\ replays \in Nat /\ faults \in Nat
        /\ pausedSends \in [Drainer -> Nat]
    <2>1. /\ now = 0 /\ replays = 0 /\ faults = 0
          /\ pausedSends = [d \in Drainer |-> 0]
      BY DEF RInitLegacy
    <2> QED BY <2>1
  <1>10. /\ paused \in BOOLEAN
         /\ replaying \subseteq Action /\ notified \subseteq Action
    BY DEF RInitLegacy
  <1> QED BY <1>4, <1>5, <1>6, <1>7, <1>8, <1>9, <1>10 DEF TypeInv, TypeOK

\* What both initial states have in common.
AtRest ==
    /\ \A a \in Action : /\ row[a].status \in {"absent", "applied"}
                         /\ history[a] = NoHistory /\ attempts[a] = <<>>
                         /\ inverseOf[a] = NULL
    /\ \A d \in Drainer : drainer[d] = IdleDrainer
    /\ undoer = [u \in Undoer |-> IdleUndoer]
    /\ removed = {}
    /\ inverseOf = [b \in Action |-> NULL]

\* The invariants hold initially.
LEMMA InitInv == RInit \/ RInitLegacy => RInv
  <1> SUFFICES ASSUME RInit \/ RInitLegacy PROVE RInv
    OBVIOUS
  <1>1. TypeInv
    BY TypeInit, LegacyTypes DEF RInit
  <1>2. AtRest
    <2>1. CASE RInit
      BY <2>1 DEF RInit, Init, AtRest, NoRow
    <2>2. CASE RInitLegacy
      <3>1. PICK a \in Action, t \in Types, e \in Email :
                row = [b \in Action |-> IF b = a THEN Legacy(t, e) ELSE NoRow]
        BY <2>2 DEF RInitLegacy
      <3>2. \A b \in Action : row[b].status \in {"absent", "applied"}
        BY <3>1 DEF Legacy, NoRow
      <3>3. /\ history = [b \in Action |-> NoHistory]
            /\ attempts = [b \in Action |-> <<>>]
            /\ drainer = [d \in Drainer |-> IdleDrainer]
            /\ undoer = [u \in Undoer |-> IdleUndoer]
            /\ removed = {}
            /\ inverseOf = [b \in Action |-> NULL]
        BY <2>2 DEF RInitLegacy
      <3> QED BY <3>2, <3>3 DEF AtRest
    <2> QED BY <2>1, <2>2
  <1>3. QueueInv
    BY <1>1, <1>2
       DEF AtRest, QueueInv, OnceInv, UnloggedUntried, DispatchingUntried, OneDispatcher,
           AtMostOneDispatch, Dispatching, IdleDrainer, LifeInv, HeldRowsMove, RestUntried,
           SuccessTried, HoldsRow, Processing, OwnInv, ClaimOwnership, LateRowsClosed,
           LateErrorIsFault, Owns, Owning, Late, LateOpen
  <1>4. RTypeInv
    BY <1>2 DEF AtRest, RTypeInv, UndoerShape, UndoerState, IdleUndoer
  <1>5. ClaimInv
    BY <1>2 DEF AtRest, ClaimInv, ClaimsLogged, OneClaimer, InversesClaimed,
           OneInversePerAction, RevertedHasInverse, NoHistory, IdleUndoer
  <1>6. UndoesApplied /\ InverseOfApplied
    BY <1>2 DEF AtRest, UndoesApplied, InverseOfApplied, IdleUndoer
  <1> QED BY <1>3, <1>4, <1>5, <1>6 DEF RInv

\* All of it holds of every reachable state.
LEMMA RInvariant == RSpec => []RInv
  <1>1. RInv /\ [RNext]_rvars => RInv'
    BY QueueInvStep, ClaimStep, UndoesStep DEF RInv
  <1> QED BY InitInv, <1>1, PTL DEF RSpec

\* However many CLI processes revert one action, and however the queue, the
\* sync worker and crashes interleave with their statements, at most one inverse
\* is ever queued: the conditional UPDATE of action_history decides.
THEOREM RevertedOnce == RSpec => []OneInversePerAction
  <1>1. RInv => OneInversePerAction
    BY DEF RInv, ClaimInv
  <1> QED BY RInvariant, <1>1, PTL

\* An action that is marked reverted has its inverse, or its reverter is about
\* to insert it: only a crash between the two statements loses one.
THEOREM RevertsAreQueued == RSpec => []RevertedHasInverse
  <1>1. RInv => RevertedHasInverse
    BY DEF RInv, ClaimInv
  <1> QED BY RInvariant, <1>1, PTL

\* What is undone did take effect and is never reopened: revert_action checks the
\* status once, several statements before its INSERT.
THEOREM InversesUndoApplied == RSpec => []InverseOfApplied
  <1>1. RInv => InverseOfApplied
    BY DEF RInv
  <1> QED BY RInvariant, <1>1, PTL

\* Reverting adds no second way to Graph: an action, an inverse or a legacy row
\* is dispatched at most once, with reverters beside any number of drainers.
THEOREM RevertsDispatchOnce == RSpec => []AtMostOneDispatch
  <1>1. RInv => AtMostOneDispatch
    BY DEF RInv, QueueInv, OnceInv
  <1> QED BY RInvariant, <1>1, PTL
===============================================================================
