--------------------- MODULE ActionQueueRefinementProofs ---------------------
(***************************************************************************)
(* With one drainer, which is what the deployed worker starts, the queue   *)
(* implements ActionLifecycle, whatever the faults and the replays.        *)
(***************************************************************************)
EXTENDS ActionQueueRefinement, ActionQueueProofs, SequenceTheorems
-----------------------------------------------------------------------------
(* A row that has been pending once never is absent, cooling off or         *)
(* cancelled again; drainers hold such rows only, and only they are tried.  *)

Moving == {"pending", "pending_grant", "draining", "applied", "failed"}

HeldRowsMove ==
    \A d \in Drainer : drainer[d].pc \in HoldsRow => row[drainer[d].id].status \in Moving

RestUntried == \A a \in Action : row[a].status \notin Moving => attempts[a] = <<>>

SuccessTried ==
    \A d \in Drainer : drainer[d].pc = "applied" => attempts[drainer[d].id] # <<>>

LifeInv == HeldRowsMove /\ RestUntried /\ SuccessTried
-----------------------------------------------------------------------------
(* A step that takes no row in hand and sends nothing. *)

RowsMoveOn == \A a \in Action : row[a].status \in Moving => row'[a].status \in Moving

DrainersHold ==
    \A d \in Drainer :
        /\ drainer'[d].pc \in HoldsRow =>
                drainer[d].pc \in HoldsRow /\ drainer'[d].id = drainer[d].id
        /\ drainer'[d].pc = "applied" => drainer[d].pc = "applied"

\* Such a step keeps the invariant.
LEMMA HoldingKeepsLife ==
    ASSUME TypeInv, LifeInv, UNCHANGED attempts, RowsMoveOn, DrainersHold
    PROVE  LifeInv'
  <1>1. \A d \in Drainer : drainer[d].pc \in HoldsRow => drainer[d].id \in Action
    BY DEF TypeInv, DrainerShape
  <1>2. "applied" \in HoldsRow
    BY DEF HoldsRow, Processing
  <1>3. HeldRowsMove'
    BY <1>1 DEF LifeInv, HeldRowsMove, DrainersHold, RowsMoveOn
  <1>4. RestUntried'
    BY DEF LifeInv, RestUntried, RowsMoveOn
  <1>5. SuccessTried'
    BY <1>2 DEF LifeInv, SuccessTried, DrainersHold
  <1> QED BY <1>3, <1>4, <1>5 DEF LifeInv

\* One drainer's Goto, other than to the success, holds what it held.
LEMMA GotoHolds ==
    ASSUME TypeInv, NEW d \in Drainer, drainer[d].pc \in HoldsRow,
           NEW pc, pc # "applied", Goto(d, pc)
    PROVE  DrainersHold
  BY GotoOwn DEF DrainersHold

\* So does its failure.
LEMMA FailHolds ==
    ASSUME TypeInv, NEW d \in Drainer, drainer[d].pc \in HoldsRow,
           NEW why, Fail(d, why)
    PROVE  DrainersHold
  BY FailOwn DEF DrainersHold

\* A drainer that holds no row afterwards is no trouble.
LEMMA LetsGo ==
    ASSUME TypeInv, NEW d \in Drainer, NEW s, s.pc \notin HoldsRow,
           drainer' = [drainer EXCEPT ![d] = s]
    PROVE  DrainersHold
  <1>1. "applied" \in HoldsRow
    BY DEF HoldsRow, Processing
  <1> QED BY <1>1 DEF DrainersHold, TypeInv, TypeOK

\* A drainer between two rows holds none.
LEMMA RestHoldsNone == \A b : Rest(b).pc \notin HoldsRow
  BY DEF Rest, IdleDrainer, HoldsRow, Processing

\* Going on with the batch lets go of the row.
LEMMA ResumeHolds ==
    ASSUME TypeInv, NEW d \in Drainer, Resume(d)
    PROVE  DrainersHold
  <1>1. drainer' = [drainer EXCEPT ![d] = Rest(drainer[d].batch)]
    BY DEF TypeInv, TypeOK, Resume
  <1> QED BY <1>1, RestHoldsNone, LetsGo
-----------------------------------------------------------------------------
(* The invariant is preserved. *)

\* A step that writes one row, and leaves it among the moving ones.
LEMMA WritesMoving ==
    ASSUME TypeInv, NEW a \in Action, row'[a].status \in Moving,
           \A b \in Action \ {a} : row'[b] = row[b]
    PROVE  RowsMoveOn
  BY DEF RowsMoveOn

\* Verbs, operator, sync, ticker and clock.
LEMMA OthersKeepLife ==
    ASSUME TypeInv, LifeInv,
           VerbStep \/ OperatorStep \/ SyncStep \/ CoolingOffTick \/ Tick
    PROVE  LifeInv'
  <1>1. UNCHANGED <<drainer, attempts>>
    BY DEF VerbStep, OperatorStep, SyncStep, Propose, Cancel, Confirm, MintFind,
           MintStep, MintConsume, MintInsert, Revoke, ReplayCheck, ReplayReset,
           Pause, Unpause, Upsert, SoftDelete, Resurrect, CoolingOffTick, Tick,
           ghostVars
  <1>2. DrainersHold
    BY <1>1 DEF DrainersHold
  <1>3. RowsMoveOn
    <2>1. ASSUME NEW a \in Action,
                 \/ Cancel(a)
                 \/ \E t \in Types, e \in Email \cup {NULL}, f \in Folder \cup {NULL} :
                          Propose(a, t, e, f)
          PROVE  RowsMoveOn
      <3>1. /\ row[a].status \notin Moving
            /\ \A b \in Action \ {a} : row'[b] = row[b]
        BY <2>1 DEF Cancel, Propose, Moving, TypeInv, TypeOK
      <3> QED BY <3>1 DEF RowsMoveOn
    <2>2. ASSUME NEW m \in Minter, MintInsert(m) PROVE RowsMoveOn
      BY <2>2 DEF MintInsert, RowsMoveOn, Moving, TypeInv, TypeOK, Row
    <2>3. CASE CoolingOffTick
      BY <2>3 DEF CoolingOffTick, Due, RowsMoveOn, Moving, TypeInv, TypeOK, Row
    <2>4. ASSUME NEW a \in Action, ReplayReset(a) PROVE RowsMoveOn
      <3>1. CASE row[a].status = "failed"
        <4>1. /\ row'[a].status = "pending"
              /\ \A b \in Action \ {a} : row'[b] = row[b]
          BY <2>4, <3>1 DEF ReplayReset, TypeInv, TypeOK, Row
        <4> QED BY <4>1, WritesMoving DEF Moving
      <3>2. CASE row[a].status # "failed"
        BY <2>4, <3>2 DEF ReplayReset, RowsMoveOn
      <3> QED BY <3>1, <3>2
    <2>5. ASSUME UNCHANGED row PROVE RowsMoveOn
      BY <2>5 DEF RowsMoveOn
    <2>6. CASE VerbStep
      BY <2>1, <2>2, <2>5, <2>6
         DEF VerbStep, MintStep, Confirm, MintFind, MintConsume, Revoke, dbVars
    <2>7. CASE OperatorStep \/ SyncStep \/ Tick
      BY <2>4, <2>5, <2>7
         DEF OperatorStep, ReplayCheck, Pause, Unpause, SyncStep, Upsert,
             SoftDelete, Resurrect, Tick, dbVars
    <2> QED BY <2>3, <2>6, <2>7
  <1> QED BY <1>1, <1>2, <1>3, HoldingKeepsLife

\* Faults.
LEMMA FaultKeepsLife ==
    ASSUME TypeInv, LifeInv, FaultStep
    PROVE  LifeInv'
  <1>1. IdleDrainer.pc \notin HoldsRow
    BY DEF IdleDrainer, HoldsRow, Processing
  <1>2. ASSUME UNCHANGED row PROVE RowsMoveOn
    BY <1>2 DEF RowsMoveOn
  <1>3. ASSUME NEW d \in Drainer, Crash(d) PROVE LifeInv'
    <2>1. UNCHANGED <<row, attempts>> /\ drainer' = [drainer EXCEPT ![d] = IdleDrainer]
      BY <1>3 DEF Crash, dbVars
    <2> QED BY <1>1, <1>2, <2>1, LetsGo, HoldingKeepsLife
  <1>4. ASSUME NEW d \in Drainer, DbError(d) PROVE LifeInv'
    <2>1. UNCHANGED <<row, attempts>>
      BY <1>4 DEF DbError, dbVars
    <2>2. drainer[d].pc \in HoldsRow
      BY <1>4 DEF DbError, Owning, HoldsRow, Processing
    <2>3. DrainersHold
      BY <1>4, <2>2, GotoHolds, ResumeHolds DEF DbError
    <2> QED BY <1>2, <2>1, <2>3, HoldingKeepsLife
  <1>5. ASSUME NEW m \in Minter, ApiCrash(m) PROVE LifeInv'
    <2>1. UNCHANGED <<row, attempts, drainer>>
      BY <1>5 DEF ApiCrash, dbVars
    <2> QED BY <1>2, <2>1, HoldingKeepsLife DEF DrainersHold
  <1>6. ASSUME NEW d \in Drainer, PauseUnreadable(d) PROVE LifeInv'
    <2>1. drainer[d].id \in Action
      BY <1>6 DEF PauseUnreadable, HoldsRow, TypeInv, DrainerShape
    <2>2. /\ row'[drainer[d].id].status = "pending"
          /\ \A b \in Action \ {drainer[d].id} : row'[b] = row[b]
      BY <1>6, <2>1 DEF PauseUnreadable, TypeInv, TypeOK, Row
    <2>3. UNCHANGED attempts /\ drainer' = [drainer EXCEPT ![d] = IdleDrainer]
      BY <1>6 DEF PauseUnreadable
    <2>4. RowsMoveOn
      BY <2>1, <2>2, WritesMoving DEF Moving
    <2> QED BY <1>1, <2>3, <2>4, LetsGo, HoldingKeepsLife
  <1> QED BY <1>3, <1>4, <1>5, <1>6 DEF FaultStep

\* The claim takes a row in hand, and the row is draining.
LEMMA ClaimKeepsLife ==
    ASSUME TypeInv, LifeInv, NEW d \in Drainer, Claim(d)
    PROVE  LifeInv'
  <1>1. UNCHANGED attempts
    BY DEF Claim, ghostVars
  <1>2. PICK x \in drainer[d].batch :
            IF row[x].status = "pending"
            THEN /\ row' = [row EXCEPT ![x].status = "draining"]
                 /\ drainer' = [drainer EXCEPT ![d].pc = "claimed", ![d].id = x,
                                               ![d].batch = @ \ {x}]
            ELSE /\ drainer' = [drainer EXCEPT ![d] = Rest(@.batch \ {x})]
                 /\ UNCHANGED row
    BY DEF Claim
  <1>3. x \in Action
    BY DEF TypeInv, TypeOK, DrainerState
  <1>4. CASE row[x].status = "pending"
    <2>1. /\ \A c \in Drainer \ {d} : drainer'[c] = drainer[c]
          /\ drainer'[d].pc = "claimed" /\ drainer'[d].id = x
      BY <1>2, <1>4 DEF TypeInv, TypeOK, DrainerState
    <2>2. /\ row'[x].status = "draining"
          /\ \A b \in Action \ {x} : row'[b] = row[b]
      BY <1>2, <1>3, <1>4 DEF TypeInv, TypeOK, Row
    <2>3. \A c \in Drainer : drainer[c].pc \in HoldsRow => drainer[c].id \in Action
      BY DEF TypeInv, DrainerShape
    <2>4. RowsMoveOn
      BY <1>3, <2>2, WritesMoving DEF Moving
    <2>5. HeldRowsMove'
      <3>1. \A c \in Drainer \ {d} : drainer'[c].pc \in HoldsRow =>
                row'[drainer'[c].id].status \in Moving
        BY <2>1, <2>3, <2>4 DEF LifeInv, HeldRowsMove, RowsMoveOn
      <3>2. row'[drainer'[d].id].status \in Moving
        BY <2>1, <2>2 DEF Moving
      <3> QED BY <3>1, <3>2 DEF HeldRowsMove
    <2>6. RestUntried'
      BY <1>1, <2>4 DEF LifeInv, RestUntried, RowsMoveOn
    <2>7. SuccessTried'
      BY <1>1, <2>1 DEF LifeInv, SuccessTried
    <2> QED BY <2>5, <2>6, <2>7 DEF LifeInv
  <1>5. CASE row[x].status # "pending"
    <2>1. /\ drainer' = [drainer EXCEPT ![d] = Rest(drainer[d].batch \ {x})]
          /\ UNCHANGED row
      BY <1>2, <1>5 DEF TypeInv, TypeOK
    <2>2. RowsMoveOn
      BY <2>1 DEF RowsMoveOn
    <2> QED BY <1>1, <2>1, <2>2, RestHoldsNone, LetsGo, HoldingKeepsLife
  <1> QED BY <1>4, <1>5

\* The dispatch tries a row in hand, and the success comes after it.
LEMMA DispatchKeepsLife ==
    ASSUME TypeInv, LifeInv, NEW d \in Drainer, Dispatch(d)
    PROVE  LifeInv'
  <1> DEFINE a == drainer[d].id
  <1>1. \A c \in Drainer : drainer[c].pc \in HoldsRow => drainer[c].id \in Action
    BY DEF TypeInv, DrainerShape
  <1>2. drainer[d].pc \in HoldsRow /\ "applied" \in HoldsRow
    BY DEF Dispatch, HoldsRow, Processing
  <1>3. a \in Action /\ row[a].status \in Moving
    BY <1>1, <1>2 DEF LifeInv, HeldRowsMove
  <1>4. UNCHANGED row
    BY DEF Dispatch, dbVars
  <1>5. /\ \A c \in Drainer \ {d} : drainer'[c] = drainer[c]
        /\ drainer'[d].id = a
    BY GotoOwn, FailOwn DEF Dispatch
  <1>6. /\ attempts'[a] # <<>>
        /\ \A b \in Action \ {a} : attempts'[b] = attempts[b]
    <2>1. /\ attempts'[a] = Append(attempts[a], now)
          /\ \A b \in Action \ {a} : attempts'[b] = attempts[b]
      BY <1>3 DEF Dispatch, TypeInv, TypeOK
    <2>2. attempts[a] \in Seq(Nat) /\ now \in Nat
      BY <1>3 DEF TypeInv, TypeOK
    <2>3. Append(attempts[a], now) # <<>>
      BY <2>2
    <2> QED BY <2>1, <2>3
  <1>7. HeldRowsMove'
    BY <1>2, <1>4, <1>5 DEF LifeInv, HeldRowsMove
  <1>8. RestUntried'
    BY <1>3, <1>4, <1>6 DEF LifeInv, RestUntried
  <1>9. SuccessTried'
    BY <1>1, <1>2, <1>5, <1>6 DEF LifeInv, SuccessTried
  <1> QED BY <1>7, <1>8, <1>9 DEF LifeInv

\* Every other step of a drainer works on the row it holds, or drops it.
LEMMA DrainKeepsLife ==
    ASSUME TypeInv, LifeInv, NEW d \in Drainer, DrainStep(d)
    PROVE  LifeInv'
  <1> DEFINE a == drainer[d].id
  <1>1. ASSUME UNCHANGED row PROVE RowsMoveOn
    BY <1>1 DEF RowsMoveOn
  <1>2. CASE TickStart(d)
    <2>1. UNCHANGED <<row, attempts>>
      BY <1>2 DEF TickStart, dbVars, ghostVars
    <2>2. DrainersHold
      BY <1>2, GotoOwn DEF TickStart, DrainersHold, HoldsRow, Processing
    <2> QED BY <1>1, <2>1, <2>2, HoldingKeepsLife
  <1>3. CASE Select(d)
    <2>1. UNCHANGED <<row, attempts>>
      BY <1>3 DEF Select, dbVars, ghostVars
    <2>2. PICK b : drainer' = [drainer EXCEPT ![d] = Rest(b)]
      BY <1>3 DEF Select
    <2> QED BY <1>1, <2>1, <2>2, RestHoldsNone, LetsGo, HoldingKeepsLife
  <1>4. CASE \/ CheckGrant(d) \/ CheckTarget(d) \/ CheckSendCap(d)
             \/ CapturePreState(d) \/ InsertHistory(d)
    <2>1. UNCHANGED <<row, attempts>> /\ drainer[d].pc \in HoldsRow
      BY <1>4 DEF CheckGrant, CheckTarget, CheckSendCap, CapturePreState,
                  InsertHistory, dbVars, ghostVars, HoldsRow, Processing
    <2>2. CASE CheckGrant(d) \/ CapturePreState(d)
      <3>1. /\ \A c \in Drainer \ {d} : drainer'[c] = drainer[c]
            /\ drainer'[d].pc # "applied" /\ drainer'[d].id = a
        BY <2>2 DEF CheckGrant, CapturePreState, Goto, Fail, TypeInv, TypeOK,
                    DrainerState
      <3> QED BY <1>1, <2>1, <3>1, HoldingKeepsLife DEF DrainersHold
    <2>3. CASE CheckTarget(d) \/ CheckSendCap(d) \/ InsertHistory(d)
      <3>1. DrainersHold
        BY <2>1, <2>3, GotoHolds, FailHolds
           DEF CheckTarget, AfterTarget, CheckSendCap, InsertHistory
      <3> QED BY <1>1, <2>1, <3>1, HoldingKeepsLife
    <2> QED BY <1>4, <2>2, <2>3
  <1>5. CASE Repair(d) \/ NotifyFailure(d)
    <2>1. UNCHANGED <<row, attempts>> /\ DrainersHold
      BY <1>5, ResumeHolds DEF Repair, NotifyFailure, dbVars, ghostVars
    <2> QED BY <1>1, <2>1, HoldingKeepsLife
  <1>6. CASE PauseCheck(d) \/ Park(d) \/ MarkApplied(d) \/ MarkFailed(d) \/ Recover(d)
    <2>1. UNCHANGED attempts /\ drainer[d].pc \in HoldsRow /\ a \in Action
      BY <1>6 DEF PauseCheck, Park, MarkApplied, MarkFailed, Recover, ghostVars,
                  HoldsRow, Processing, TypeInv, DrainerShape
    <2>2. CASE PauseCheck(d)
      <3>1. CASE paused
        <4>1. /\ row'[a].status = "pending"
              /\ \A b \in Action \ {a} : row'[b] = row[b]
          BY <2>1, <2>2, <3>1 DEF PauseCheck, TypeInv, TypeOK, Row
        <4>2. RowsMoveOn
          BY <2>1, <4>1, WritesMoving DEF Moving
        <4>3. DrainersHold
          BY <2>2, <3>1, LetsGo DEF PauseCheck, IdleDrainer, HoldsRow, Processing
        <4> QED BY <2>1, <4>2, <4>3, HoldingKeepsLife
      <3>2. CASE ~paused
        BY <1>1, <2>1, <2>2, <3>2, GotoHolds, HoldingKeepsLife DEF PauseCheck
      <3> QED BY <3>1, <3>2
    <2>3. CASE Park(d) \/ MarkApplied(d) \/ MarkFailed(d) \/ Recover(d)
      <3>1. DrainersHold
        BY <2>1, <2>3, GotoHolds, ResumeHolds
           DEF Park, MarkApplied, MarkFailed, Recover
      <3>2. \A b \in Action \ {a} : row'[b] = row[b]
        BY <2>3 DEF Park, MarkApplied, MarkFailed, Recover, MarkedFailed, TypeInv, TypeOK
      <3>3. row'[a].status \in {"pending_grant", "applied", "failed"}
        BY <2>1, <2>3 DEF Park, MarkApplied, MarkFailed, Recover, MarkedFailed,
                          TypeInv, TypeOK, Row
      <3>4. RowsMoveOn
        BY <2>1, <3>2, <3>3, WritesMoving DEF Moving
      <3> QED BY <2>1, <3>1, <3>4, HoldingKeepsLife
    <2> QED BY <1>6, <2>2, <2>3
  <1> QED BY <1>2, <1>3, <1>4, <1>5, <1>6, ClaimKeepsLife, DispatchKeepsLife
          DEF DrainStep

\* Every step keeps the shape of the lifecycle.
LEMMA LifeStep == TypeInv /\ LifeInv /\ [Next]_vars => LifeInv'
  <1> SUFFICES ASSUME TypeInv, LifeInv, [Next]_vars PROVE LifeInv'
    OBVIOUS
  <1>1. CASE UNCHANGED vars
    BY <1>1 DEF vars, dbVars, ghostVars, LifeInv, HeldRowsMove, RestUntried,
                SuccessTried
  <1> QED BY <1>1, OthersKeepLife, FaultKeepsLife, DrainKeepsLife DEF Next

\* Every reachable state of the queue satisfies the invariant.
LEMMA LifeInvariant == Spec => []LifeInv
  <1>1. Init => LifeInv
    BY DEF Init, LifeInv, HeldRowsMove, RestUntried, SuccessTried, IdleDrainer,
           HoldsRow, Processing
  <1> QED BY TypeInvariant, <1>1, LifeStep, PTL DEF Spec
-----------------------------------------------------------------------------
(* Steps of the queue as steps of the lifecycle. *)

\* A step that moves no row between phases, and sends nothing, is a stutter.
LEMMA Stutters ==
    ASSUME UNCHANGED attempts, \A a \in Action : PhaseOf(row'[a]) = PhaseOf(row[a])
    PROVE  UNCHANGED Lifecycle!lifeVars
  BY DEF Lifecycle!lifeVars

\* A step that writes one row moves one action.
LEMMA MovesOne ==
    ASSUME NEW a \in Action, UNCHANGED attempts,
           \A b \in Action \ {a} : row'[b] = row[b]
    PROVE  Lifecycle!Becomes(a, PhaseOf(row'[a]))
  <1>1. [b \in Action |-> PhaseOf(row'[b])] =
            [[b \in Action |-> PhaseOf(row[b])] EXCEPT ![a] = PhaseOf(row'[a])]
    OBVIOUS
  <1> QED BY <1>1 DEF Lifecycle!Becomes

\* A row written without a change of phase is a stutter.
LEMMA WritesSamePhase ==
    ASSUME NEW a \in Action, UNCHANGED attempts,
           \A b \in Action \ {a} : row'[b] = row[b],
           PhaseOf(row'[a]) = PhaseOf(row[a])
    PROVE  UNCHANGED Lifecycle!lifeVars
  <1>1. \A b \in Action : PhaseOf(row'[b]) = PhaseOf(row[b])
    OBVIOUS
  <1> QED BY <1>1, Stutters

\* The phases of the statuses.
LEMMA Phases ==
    ASSUME NEW r
    PROVE  /\ r.status = "absent" => PhaseOf(r) = "none"
           /\ r.status \in Waiting \cup {"draining"} => PhaseOf(r) = "open"
           /\ r.status \in Terminal => PhaseOf(r) = r.status
  BY DEF PhaseOf, Waiting, Terminal

Step == [Lifecycle!Next]_(Lifecycle!lifeVars)

\* Verbs open and cancel; a mint moves many rows, all of them open.
LEMMA VerbRefines ==
    ASSUME TypeInv, LifeInv, VerbStep
    PROVE  Step
  <1>1. UNCHANGED attempts
    BY DEF VerbStep, Propose, Cancel, Confirm, MintFind, MintStep, MintConsume,
           MintInsert, Revoke, ghostVars
  <1>2. ASSUME NEW a \in Action, NEW t \in Types, NEW e \in Email \cup {NULL},
               NEW f \in Folder \cup {NULL}, Propose(a, t, e, f)
        PROVE  Lifecycle!Open(a)
    <2>1. /\ row[a].status = "absent" /\ row'[a].status \in Waiting
          /\ \A b \in Action \ {a} : row'[b] = row[b]
      BY <1>2 DEF Propose, InitialStatus, NoRow, Waiting, TypeInv, TypeOK
    <2>2. PhaseOf(row[a]) = "none" /\ PhaseOf(row'[a]) = "open"
      BY <2>1, Phases
    <2> QED BY <1>1, <2>1, <2>2, MovesOne DEF Lifecycle!Open
  <1>3. ASSUME NEW a \in Action, Cancel(a) PROVE Lifecycle!Cancel(a)
    <2>1. /\ row[a].status = "cooling_off" /\ row'[a].status = "cancelled"
          /\ \A b \in Action \ {a} : row'[b] = row[b]
      BY <1>3 DEF Cancel, TypeInv, TypeOK, Row
    <2>2. PhaseOf(row[a]) = "open" /\ PhaseOf(row'[a]) = "cancelled"
      BY <2>1, Phases DEF Waiting, Terminal
    <2>3. Len(attempts[a]) = 0
      BY <2>1 DEF LifeInv, RestUntried, Moving
    <2> QED BY <1>1, <2>1, <2>2, <2>3, MovesOne DEF Lifecycle!Cancel
  <1>4. ASSUME NEW m \in Minter, MintInsert(m) PROVE UNCHANGED Lifecycle!lifeVars
    <2>1. \A a \in Action : PhaseOf(row'[a]) = PhaseOf(row[a])
      BY <1>4 DEF MintInsert, PhaseOf, Terminal, TypeInv, TypeOK, Row
    <2> QED BY <1>1, <2>1, Stutters
  <1>5. ASSUME UNCHANGED row PROVE UNCHANGED Lifecycle!lifeVars
    BY <1>1, <1>5, Stutters
  <1>6. CASE UNCHANGED row
    BY <1>5, <1>6 DEF Step
  <1> QED BY <1>2, <1>3, <1>4, <1>6
          DEF VerbStep, MintStep, Confirm, MintFind, MintConsume, Revoke, dbVars,
              Step, Lifecycle!Next

\* A replay retries a failure; sync, ticker, clock and pauses change nothing.
LEMMA OthersRefine ==
    ASSUME TypeInv, OperatorStep \/ SyncStep \/ CoolingOffTick \/ Tick
    PROVE  Step
  <1>1. UNCHANGED attempts
    BY DEF OperatorStep, SyncStep, ReplayCheck, ReplayReset, Pause, Unpause,
           Upsert, SoftDelete, Resurrect, CoolingOffTick, Tick, ghostVars
  <1>2. ASSUME NEW a \in Action, ReplayReset(a), row[a].status = "failed"
        PROVE  Lifecycle!Retry(a)
    <2>1. /\ row'[a].status = "pending"
          /\ \A b \in Action \ {a} : row'[b] = row[b]
      BY <1>2 DEF ReplayReset, TypeInv, TypeOK, Row
    <2>2. PhaseOf(row[a]) = "failed" /\ PhaseOf(row'[a]) = "open"
      BY <1>2, <2>1, Phases DEF Waiting, Terminal
    <2> QED BY <1>1, <2>1, <2>2, MovesOne DEF Lifecycle!Retry
  <1>3. ASSUME NEW a \in Action, ReplayReset(a), row[a].status # "failed"
        PROVE  UNCHANGED row
    BY <1>3 DEF ReplayReset
  <1>4. CASE CoolingOffTick
    <2>1. \A a \in Action : PhaseOf(row'[a]) = PhaseOf(row[a])
      BY <1>4 DEF CoolingOffTick, Due, PhaseOf, Terminal, TypeInv, TypeOK, Row
    <2> QED BY <1>1, <2>1, Stutters DEF Step
  <1>5. CASE UNCHANGED row
    BY <1>1, <1>5, Stutters DEF Step
  <1>6. CASE OperatorStep
    BY <1>2, <1>3, <1>5, <1>6
       DEF OperatorStep, ReplayCheck, Pause, Unpause, dbVars, Step, Lifecycle!Next
  <1> QED BY <1>4, <1>5, <1>6
          DEF SyncStep, Upsert, SoftDelete, Resurrect, Tick, dbVars

\* A fault moves nothing between phases: a released row stays open.
LEMMA FaultRefines ==
    ASSUME TypeInv, OwnInv, OneDrainer, FaultStep
    PROVE  Step
  <1>1. UNCHANGED attempts
    BY DEF FaultStep, Crash, DbError, ApiCrash, PauseUnreadable
  <1>2. CASE UNCHANGED row
    BY <1>1, <1>2, Stutters DEF Step
  <1>3. ASSUME NEW d \in Drainer, PauseUnreadable(d) PROVE UNCHANGED Lifecycle!lifeVars
    <2>1. drainer[d].id \in Action
      BY <1>3 DEF PauseUnreadable, HoldsRow, TypeInv, DrainerShape
    <2>2. row[drainer[d].id].status = "draining"
      BY <1>3 DEF PauseUnreadable, OwnInv, ClaimOwnership, Owns, Owning
    <2>3. /\ row'[drainer[d].id].status = "pending"
          /\ \A b \in Action \ {drainer[d].id} : row'[b] = row[b]
      BY <1>3, <2>1 DEF PauseUnreadable, TypeInv, TypeOK, Row
    <2>4. PhaseOf(row'[drainer[d].id]) = PhaseOf(row[drainer[d].id])
      BY <2>2, <2>3, Phases DEF Waiting
    <2> QED BY <1>1, <2>1, <2>3, <2>4, WritesSamePhase
  <1> QED BY <1>2, <1>3 DEF FaultStep, Crash, DbError, ApiCrash, dbVars, Step

\* The dispatch sends an open action that was never sent.
LEMMA DispatchRefines ==
    ASSUME TypeInv, OnceInv, OwnInv, OneDrainer, NEW d \in Drainer, Dispatch(d)
    PROVE  \E a \in Action : Lifecycle!Send(a)
  <1>1. PICK a \in Action : a = drainer[d].id
    BY DEF Dispatch, HoldsRow, Processing, TypeInv, DrainerShape
  <1>2. row[a].status = "draining"
    BY <1>1 DEF Dispatch, OwnInv, ClaimOwnership, Owns, Owning, Processing
  <1>3. attempts[a] = <<>>
    BY <1>1 DEF Dispatch, OnceInv, DispatchingUntried, Dispatching
  <1>4. /\ Len(attempts[a]) = 0 /\ Len(attempts'[a]) = 1
        /\ \A b \in Action \ {a} : attempts'[b] = attempts[b]
    BY <1>1, <1>3 DEF Dispatch, TypeInv, TypeOK
  <1>5. PhaseOf(row[a]) = "open"
    BY <1>2, Phases
  <1>6. [b \in Action |-> Len(attempts'[b])] =
            [[b \in Action |-> Len(attempts[b])] EXCEPT ![a] = 1]
    BY <1>4
  <1>7. UNCHANGED row
    BY DEF Dispatch, dbVars
  <1>8. Lifecycle!Send(a)
    BY <1>1, <1>4, <1>5, <1>6, <1>7 DEF Lifecycle!Send
  <1> QED BY <1>8

\* A row tried at least once and at most once was tried once.
LEMMA TriedOnce ==
    ASSUME NEW s \in Seq(Nat), s # <<>>, Len(s) <= 1
    PROVE  Len(s) = 1
  <1>1. Len(s) \in Nat \ {0}
    BY EmptySeq
  <1>2. \A n \in Nat \ {0} : n <= 1 => n = 1
    OBVIOUS
  <1> QED BY <1>1, <1>2, Zenon

\* A terminal write closes the action its drainer owns; the late one of the
\* catch-all may fail an action that was already closed.
LEMMA TerminalRefines ==
    ASSUME TypeInv, OnceInv, OwnInv, LifeInv, OneDrainer, NEW d \in Drainer,
           MarkApplied(d) \/ MarkFailed(d) \/ Recover(d)
    PROVE  Step
  <1> DEFINE a == drainer[d].id
  <1>1. drainer[d].pc \in HoldsRow /\ a \in Action
    BY DEF MarkApplied, MarkFailed, Recover, HoldsRow, Processing, TypeInv,
           DrainerShape
  <1>2. UNCHANGED attempts /\ \A b \in Action \ {a} : row'[b] = row[b]
    BY DEF MarkApplied, MarkFailed, Recover, MarkedFailed, ghostVars, TypeInv, TypeOK
  <1>3. CASE MarkApplied(d)
    <2>1. row[a].status = "draining"
      BY <1>3 DEF MarkApplied, OwnInv, ClaimOwnership, Owns, Owning, Processing
    <2>2. row'[a].status = "applied"
      BY <1>1, <1>3 DEF MarkApplied, TypeInv, TypeOK, Row
    <2>3. Len(attempts[a]) = 1
      <3>1. attempts[a] \in Seq(Nat) /\ attempts[a] # <<>>
        BY <1>1, <1>3 DEF MarkApplied, LifeInv, SuccessTried, TypeInv, TypeOK
      <3>2. Len(attempts[a]) <= 1
        BY <1>1 DEF OnceInv, AtMostOneDispatch
      <3> QED BY <3>1, <3>2, TriedOnce
    <2>4. PhaseOf(row[a]) = "open" /\ PhaseOf(row'[a]) = "applied"
      BY <2>1, <2>2, Phases DEF Terminal
    <2>5. Lifecycle!Succeed(a)
      BY <1>1, <1>2, <2>3, <2>4, MovesOne DEF Lifecycle!Succeed
    <2> QED BY <1>1, <2>5 DEF Step, Lifecycle!Next
  <1>4. CASE MarkFailed(d) \/ Recover(d)
    <2>1. row[a].status \in Moving
      BY <1>1 DEF LifeInv, HeldRowsMove
    <2>2. row'[a].status = "failed"
      BY <1>1, <1>4 DEF MarkFailed, Recover, MarkedFailed, TypeInv, TypeOK, Row
    <2>3. PhaseOf(row'[a]) = "failed"
      BY <2>2, Phases DEF Terminal
    <2>4. CASE row[a].status = "failed"
      <3>1. PhaseOf(row[a]) = "failed"
        BY <2>4, Phases DEF Terminal
      <3> QED BY <1>1, <1>2, <2>3, <3>1, WritesSamePhase DEF Step
    <2>5. CASE row[a].status = "applied"
      <3>1. PhaseOf(row[a]) = "applied"
        BY <2>5, Phases DEF Terminal
      <3>2. Lifecycle!Disown(a)
        BY <1>1, <1>2, <2>3, <3>1, MovesOne DEF Lifecycle!Disown
      <3> QED BY <1>1, <3>2 DEF Step, Lifecycle!Next
    <2>6. CASE row[a].status \notin {"applied", "failed"}
      <3>1. PhaseOf(row[a]) = "open"
        BY <2>1, <2>6, Phases DEF Moving, Waiting
      <3>2. Lifecycle!Fail(a)
        BY <1>1, <1>2, <2>3, <3>1, MovesOne DEF Lifecycle!Fail
      <3> QED BY <1>1, <3>2 DEF Step, Lifecycle!Next
    <2> QED BY <2>4, <2>5, <2>6
  <1> QED BY <1>3, <1>4

\* A claim, a release and a park leave the action open.
LEMMA HandlingRefines ==
    ASSUME TypeInv, OwnInv, OneDrainer, NEW d \in Drainer,
           Claim(d) \/ PauseCheck(d) \/ Park(d)
    PROVE  UNCHANGED Lifecycle!lifeVars
  <1>1. UNCHANGED attempts
    BY DEF Claim, PauseCheck, Park, ghostVars
  <1>2. CASE UNCHANGED row
    BY <1>1, <1>2, Stutters
  <1>3. CASE Claim(d)
    <2>1. PICK x \in drainer[d].batch :
            IF row[x].status = "pending"
            THEN row' = [row EXCEPT ![x].status = "draining"]
            ELSE UNCHANGED row
      BY <1>3 DEF Claim
    <2>2. x \in Action
      BY DEF TypeInv, TypeOK, DrainerState
    <2>3. CASE row[x].status = "pending"
      <3>1. /\ row'[x].status = "draining"
            /\ \A b \in Action \ {x} : row'[b] = row[b]
        BY <2>1, <2>2, <2>3 DEF TypeInv, TypeOK, Row
      <3>2. PhaseOf(row'[x]) = PhaseOf(row[x])
        BY <2>3, <3>1, Phases DEF Waiting
      <3> QED BY <1>1, <2>2, <3>1, <3>2, WritesSamePhase
    <2> QED BY <1>2, <2>1, <2>3
  <1>4. CASE (PauseCheck(d) /\ paused) \/ Park(d)
    <2>1. drainer[d].id \in Action
      BY <1>4 DEF PauseCheck, Park, HoldsRow, Processing, TypeInv, DrainerShape
    <2>2. row[drainer[d].id].status = "draining"
      BY <1>4 DEF PauseCheck, Park, OwnInv, ClaimOwnership, Owns, Owning, Processing
    <2>3. /\ row'[drainer[d].id].status \in {"pending", "pending_grant"}
          /\ \A b \in Action \ {drainer[d].id} : row'[b] = row[b]
      BY <1>4, <2>1 DEF PauseCheck, Park, TypeInv, TypeOK, Row
    <2>4. PhaseOf(row'[drainer[d].id]) = PhaseOf(row[drainer[d].id])
      BY <2>2, <2>3, Phases DEF Waiting
    <2> QED BY <1>1, <2>1, <2>3, <2>4, WritesSamePhase
  <1>5. CASE PauseCheck(d) /\ ~paused
    BY <1>2, <1>5 DEF PauseCheck
  <1> QED BY <1>3, <1>4, <1>5

\* Every step of the drainer is a step of the lifecycle.
LEMMA DrainRefines ==
    ASSUME TypeInv, OnceInv, OwnInv, LifeInv, OneDrainer, NEW d \in Drainer,
           DrainStep(d)
    PROVE  Step
  <1>1. CASE \/ TickStart(d) \/ Select(d) \/ CheckGrant(d) \/ CheckTarget(d)
             \/ CheckSendCap(d) \/ CapturePreState(d) \/ InsertHistory(d)
             \/ Repair(d) \/ NotifyFailure(d)
    <2>1. UNCHANGED <<row, attempts>>
      BY <1>1 DEF TickStart, Select, CheckGrant, CheckTarget, CheckSendCap,
                  CapturePreState, InsertHistory, Repair, NotifyFailure, dbVars,
                  ghostVars
    <2> QED BY <2>1, Stutters DEF Step
  <1>2. CASE Claim(d) \/ PauseCheck(d) \/ Park(d)
    BY <1>2, HandlingRefines DEF Step
  <1>3. CASE Dispatch(d)
    BY <1>3, DispatchRefines DEF Step, Lifecycle!Next
  <1>4. CASE MarkApplied(d) \/ MarkFailed(d) \/ Recover(d)
    BY <1>4, TerminalRefines
  <1> QED BY <1>1, <1>2, <1>3, <1>4 DEF DrainStep

\* The deployed worker runs one drainer; with one, the queue implements the
\* lifecycle for every number of rows, messages, mints, replays and faults.
THEOREM QueueImplementsLifecycle ==
    ASSUME OneDrainer
    PROVE  Spec => ImplementsLifecycle
  <1>1. Init => Lifecycle!Init
    <2> SUFFICES ASSUME Init PROVE Lifecycle!Init
      OBVIOUS
    <2>1. \A a \in Action : PhaseOf(row[a]) = "none" /\ Len(attempts[a]) = 0
      BY Phases DEF Init, NoRow
    <2> QED BY <2>1 DEF Lifecycle!Init
  <1>2. TypeInv /\ OnceInv /\ OwnInv /\ LifeInv /\ [Next]_vars =>
            [Lifecycle!Next]_(Lifecycle!lifeVars)
    <2> SUFFICES ASSUME TypeInv, OnceInv, OwnInv, LifeInv, [Next]_vars
                 PROVE  Step
      BY DEF Step
    <2>1. CASE UNCHANGED vars
      BY <2>1, Stutters DEF vars, dbVars, ghostVars, Step
    <2> QED BY <2>1, VerbRefines, OthersRefine, FaultRefines, DrainRefines DEF Next
  <1> QED BY TypeInvariant, OnceInvariant, OwnInvariant, LifeInvariant, <1>1, <1>2,
             PTL DEF Spec, ImplementsLifecycle, Lifecycle!Spec
=============================================================================
