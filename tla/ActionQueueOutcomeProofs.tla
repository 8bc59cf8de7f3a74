---------------------- MODULE ActionQueueOutcomeProofs -----------------------
(***************************************************************************)
(* What authorises a write, when it goes out and what becomes of it, for   *)
(* any number of drainers and mint requests: the user's confirmation behind *)
(* every grant, the grant behind every applied row, the pause, the end of a *)
(* row, the cooling-off window, the notice of a failure, and the daily cap *)
(* on sends.                                                               *)
(***************************************************************************)
EXTENDS ActionQueueRefinementProofs, FiniteSetTheorems
-----------------------------------------------------------------------------
(* Grants and confirmations.  The conditional UPDATE of mint_grant is the   *)
(* linearisation point: from there to the INSERT the request alone holds    *)
(* the confirmation.                                                        *)

MintersConfirmed ==
    \A m \in Minter : minter[m].pc # "idle" =>
        LET c == minter[m].confirmation IN
        /\ c \in DOMAIN confirmations
        /\ confirmations[c].type = minter[m].type
        /\ confirmations[c].emails = minter[m].emails

MintersPaid ==
    \A m \in Minter : minter[m].pc = "consumed" =>
        LET c == minter[m].confirmation IN
        /\ confirmations[c].consumed
        /\ \A g \in DOMAIN grants : grants[g].confirmation # c
        /\ \A n \in Minter \ {m} :
                minter[n].pc = "consumed" => minter[n].confirmation # c

BackedInv == GrantsBackedByConfirmations /\ MintersConfirmed /\ MintersPaid

\* A confirmation, once recorded, keeps its scope, and once consumed stays so.
ConfirmationsKept ==
    \A c \in DOMAIN confirmations :
        /\ c \in DOMAIN confirmations'
        /\ confirmations'[c].type = confirmations[c].type
        /\ confirmations'[c].emails = confirmations[c].emails
        /\ confirmations[c].consumed => confirmations'[c].consumed

\* Grants stay what they were, but for their revocation, and none is added.
NoNewGrant ==
    /\ DOMAIN grants' = DOMAIN grants
    /\ \A g \in DOMAIN grants :
        /\ grants'[g].confirmation = grants[g].confirmation
        /\ grants'[g].type = grants[g].type
        /\ grants'[g].emails = grants[g].emails

\* A request that goes on does what it did, and one that starts has found a
\* confirmation of its scope.
MintersKept ==
    \A m \in Minter :
        \/ minter'[m] = minter[m]
        \/ minter'[m].pc = "idle"
        \/ /\ minter'[m].pc = "found"
           /\ minter'[m].confirmation \in DOMAIN confirmations
           /\ confirmations[minter'[m].confirmation].type = minter'[m].type
           /\ confirmations[minter'[m].confirmation].emails = minter'[m].emails

\* Such a step keeps the invariant.
LEMMA KeptKeepsBacked ==
    ASSUME BackedInv, ConfirmationsKept, NoNewGrant, MintersKept
    PROVE  BackedInv'
  <1>1. GrantsBackedByConfirmations'
    BY DEF BackedInv, GrantsBackedByConfirmations, ConfirmationsKept, NoNewGrant
  <1>2. MintersConfirmed'
    BY DEF BackedInv, MintersConfirmed, ConfirmationsKept, MintersKept
  <1>3. \A m \in Minter : minter'[m].pc = "consumed" => minter'[m] = minter[m]
    BY DEF MintersKept
  <1>4. MintersPaid'
    BY <1>3 DEF BackedInv, MintersPaid, MintersConfirmed, ConfirmationsKept, NoNewGrant
  <1> QED BY <1>1, <1>2, <1>4 DEF BackedInv

\* Steps that touch neither grants, confirmations nor requests.
LEMMA UntouchedKeepsBacked ==
    ASSUME BackedInv, UNCHANGED <<grants, confirmations, minter>>
    PROVE  BackedInv'
  BY KeptKeepsBacked DEF ConfirmationsKept, NoNewGrant, MintersKept

\* The chat boundary only adds confirmations.
LEMMA ConfirmKeepsBacked ==
    ASSUME TypeInv, BackedInv, NEW t, NEW S, Confirm(t, S)
    PROVE  BackedInv'
  <1>1. UNCHANGED <<grants, minter>>
    BY DEF Confirm
  <1>2. confirmations \in Seq(Confirmation)
    BY DEF TypeInv, TypeOK
  <1>3. PICK x : confirmations' = Append(confirmations, x)
    BY DEF Confirm
  <1>4. \A c \in DOMAIN confirmations :
            c \in DOMAIN confirmations' /\ confirmations'[c] = confirmations[c]
    BY <1>2, <1>3
  <1> QED BY <1>1, <1>4, KeptKeepsBacked DEF ConfirmationsKept, NoNewGrant, MintersKept

\* The SELECT finds a confirmation of the scope that was asked for.
LEMMA MintFindKeepsBacked ==
    ASSUME TypeInv, BackedInv, NEW m \in Minter, NEW t, NEW S, NEW w,
           NEW c \in DOMAIN confirmations, MintFind(m, t, S, w, c)
    PROVE  BackedInv'
  <1>1. UNCHANGED <<grants, confirmations>>
    BY DEF MintFind, dbVars
  <1>2. confirmations[c].type = t /\ confirmations[c].emails = S
    BY DEF MintFind, Confirmed
  <1>3. /\ \A n \in Minter \ {m} : minter'[n] = minter[n]
        /\ minter'[m].pc = "found" /\ minter'[m].confirmation = c
        /\ minter'[m].type = t /\ minter'[m].emails = S
    BY DEF MintFind, TypeInv, TypeOK
  <1> QED BY <1>1, <1>2, <1>3, KeptKeepsBacked
          DEF ConfirmationsKept, NoNewGrant, MintersKept

\* The conditional UPDATE succeeds for the first request only.
LEMMA MintConsumeKeepsBacked ==
    ASSUME TypeInv, BackedInv, NEW m \in Minter, MintConsume(m)
    PROVE  BackedInv'
  <1> DEFINE c == minter[m].confirmation
  <1>1. UNCHANGED grants
    BY DEF MintConsume
  <1>2. CASE confirmations[c].consumed
    <2>1. UNCHANGED confirmations
      BY <1>2 DEF MintConsume
    <2>2. /\ \A n \in Minter \ {m} : minter'[n] = minter[n]
          /\ minter'[m].pc = "idle"
      BY <1>2 DEF MintConsume, IdleMinter, TypeInv, TypeOK
    <2> QED BY <1>1, <2>1, <2>2, KeptKeepsBacked
            DEF ConfirmationsKept, NoNewGrant, MintersKept
  <1>3. CASE ~confirmations[c].consumed
    <2>1. /\ c \in DOMAIN confirmations
          /\ confirmations[c].type = minter[m].type
          /\ confirmations[c].emails = minter[m].emails
      BY DEF MintConsume, BackedInv, MintersConfirmed
    <2>2. /\ DOMAIN confirmations' = DOMAIN confirmations
          /\ \A i \in DOMAIN confirmations :
                /\ confirmations'[i].type = confirmations[i].type
                /\ confirmations'[i].emails = confirmations[i].emails
                /\ confirmations[i].consumed => confirmations'[i].consumed
          /\ confirmations'[c].consumed
      <3>1. confirmations \in Seq(Confirmation)
        BY DEF TypeInv, TypeOK
      <3>2. confirmations' = [confirmations EXCEPT ![c].consumed = TRUE]
        BY <1>3 DEF MintConsume
      <3>3. \A i \in DOMAIN confirmations : confirmations[i] \in Confirmation
        BY <3>1
      <3> QED BY <2>1, <3>2, <3>3 DEF Confirmation
    <2>3. /\ \A n \in Minter \ {m} : minter'[n] = minter[n]
          /\ minter'[m].pc = "consumed" /\ minter'[m].confirmation = c
          /\ minter'[m].type = minter[m].type
          /\ minter'[m].emails = minter[m].emails
      BY <1>3 DEF MintConsume, TypeInv, TypeOK, MinterState
    <2>4. GrantsBackedByConfirmations'
      BY <1>1, <2>2 DEF BackedInv, GrantsBackedByConfirmations
    <2>5. MintersConfirmed'
      BY <2>1, <2>2, <2>3 DEF BackedInv, MintersConfirmed
    <2>6. \A g \in DOMAIN grants : grants[g].confirmation # c
      BY <1>3 DEF BackedInv, GrantsBackedByConfirmations
    <2>7. \A n \in Minter \ {m} : minter[n].pc = "consumed" => minter[n].confirmation # c
      BY <1>3 DEF BackedInv, MintersPaid
    <2>8. MintersPaid'
      BY <1>1, <2>2, <2>3, <2>6, <2>7 DEF BackedInv, MintersPaid, MintersConfirmed
    <2> QED BY <2>4, <2>5, <2>8 DEF BackedInv
  <1> QED BY <1>2, <1>3

\* The INSERT turns the confirmation the request holds into one grant.
LEMMA MintInsertKeepsBacked ==
    ASSUME TypeInv, BackedInv, NEW m \in Minter, MintInsert(m)
    PROVE  BackedInv'
  <1> DEFINE c == minter[m].confirmation
             k == Len(grants) + 1
  <1>1. UNCHANGED confirmations
    BY DEF MintInsert
  <1>2. /\ DOMAIN grants' = DOMAIN grants \cup {k}
        /\ \A g \in DOMAIN grants : g # k /\ grants'[g] = grants[g]
        /\ grants'[k].type = minter[m].type
        /\ grants'[k].emails = minter[m].emails
        /\ grants'[k].confirmation = c
    <2>1. grants \in Seq(Grant)
      BY DEF TypeInv, TypeOK
    <2> QED BY <2>1 DEF MintInsert
  <1>3. /\ \A n \in Minter \ {m} : minter'[n] = minter[n]
        /\ minter'[m].pc = "idle"
    BY DEF MintInsert, IdleMinter, TypeInv, TypeOK
  <1>4. /\ c \in DOMAIN confirmations
        /\ confirmations[c].type = minter[m].type
        /\ confirmations[c].emails = minter[m].emails
        /\ confirmations[c].consumed
        /\ \A g \in DOMAIN grants : grants[g].confirmation # c
        /\ \A n \in Minter \ {m} :
                minter[n].pc = "consumed" => minter[n].confirmation # c
    BY DEF MintInsert, BackedInv, MintersConfirmed, MintersPaid
  <1>5. GrantsBackedByConfirmations'
    BY <1>1, <1>2, <1>4 DEF BackedInv, GrantsBackedByConfirmations
  <1>6. MintersConfirmed'
    BY <1>1, <1>3 DEF BackedInv, MintersConfirmed
  <1>7. MintersPaid'
    BY <1>1, <1>2, <1>3, <1>4 DEF BackedInv, MintersPaid
  <1> QED BY <1>5, <1>6, <1>7 DEF BackedInv

\* Revocation does not change what was paid, nor does a request that dies.
LEMMA RevokeKeepsBacked ==
    ASSUME TypeInv, BackedInv, NEW g \in DOMAIN grants, Revoke(g)
    PROVE  BackedInv'
  <1>1. \A h \in DOMAIN grants : grants[h] \in Grant
    BY DEF TypeInv, TypeOK
  <1>2. NoNewGrant
    BY <1>1 DEF Revoke, NoNewGrant, Grant
  <1> QED BY <1>2, KeptKeepsBacked DEF Revoke, ConfirmationsKept, MintersKept

\* A request that dies after its UPDATE leaves a confirmation consumed for nothing.
LEMMA ApiCrashKeepsBacked ==
    ASSUME TypeInv, BackedInv, NEW m \in Minter, ApiCrash(m)
    PROVE  BackedInv'
  <1>1. UNCHANGED <<grants, confirmations>>
    BY DEF ApiCrash, dbVars
  <1>2. MintersKept
    BY DEF ApiCrash, MintersKept, IdleMinter, TypeInv, TypeOK
  <1> QED BY <1>1, <1>2, KeptKeepsBacked DEF ConfirmationsKept, NoNewGrant

\* Drainers, ticker, operator, sync and clock stay away from the grants.
LEMMA OthersKeepBacked ==
    ASSUME BackedInv,
           \/ \E d \in Drainer : DrainStep(d) \/ Crash(d) \/ DbError(d) \/ PauseUnreadable(d)
           \/ OperatorStep \/ SyncStep \/ CoolingOffTick \/ Tick
    PROVE  BackedInv'
  <1>1. ASSUME NEW d \in Drainer, DrainStep(d)
        PROVE  UNCHANGED <<grants, confirmations, minter>>
    BY <1>1 DEF DrainStep, TickStart, Select, Claim, PauseCheck, CheckGrant, Park,
                CheckTarget, CheckSendCap, CapturePreState, InsertHistory, Dispatch,
                MarkApplied, Repair, MarkFailed, NotifyFailure, Recover, dbVars
  <1>2. ASSUME NEW d \in Drainer, Crash(d) \/ DbError(d) \/ PauseUnreadable(d)
        PROVE  UNCHANGED <<grants, confirmations, minter>>
    BY <1>2 DEF Crash, DbError, PauseUnreadable, dbVars
  <1>3. CASE OperatorStep \/ SyncStep \/ CoolingOffTick \/ Tick
    BY <1>3, UntouchedKeepsBacked
       DEF OperatorStep, ReplayCheck, ReplayReset, Pause, Unpause, SyncStep, Upsert,
           SoftDelete, Resurrect, CoolingOffTick, Tick, dbVars
  <1> QED BY <1>1, <1>2, <1>3, UntouchedKeepsBacked

\* The invariant holds of every reachable state.
LEMMA BackedInvariant == Spec => []BackedInv
  <1>1. Init => BackedInv
    BY DEF Init, BackedInv, GrantsBackedByConfirmations, MintersConfirmed,
           MintersPaid, IdleMinter
  <1>2. TypeInv /\ BackedInv /\ [Next]_vars => BackedInv'
    <2> SUFFICES ASSUME TypeInv, BackedInv, [Next]_vars PROVE BackedInv'
      OBVIOUS
    <2>1. CASE UNCHANGED vars
      BY <2>1, UntouchedKeepsBacked DEF vars, dbVars
    <2>2. CASE VerbStep
      <3>1. ASSUME NEW a \in Action, NEW t \in Types, NEW e \in Email \cup {NULL},
                   NEW f \in Folder \cup {NULL}, Propose(a, t, e, f) \/ Cancel(a)
            PROVE  BackedInv'
        BY <3>1, UntouchedKeepsBacked DEF Propose, Cancel
      <3>2. ASSUME NEW a \in Action, Cancel(a) PROVE BackedInv'
        BY <3>2, UntouchedKeepsBacked DEF Cancel
      <3> QED BY <2>2, <3>1, <3>2, ConfirmKeepsBacked, MintFindKeepsBacked,
                 MintConsumeKeepsBacked, MintInsertKeepsBacked, RevokeKeepsBacked
              DEF VerbStep, MintStep
    <2>3. CASE FaultStep
      BY <2>3, OthersKeepBacked, ApiCrashKeepsBacked DEF FaultStep
    <2>4. CASE \/ \E d \in Drainer : DrainStep(d)
               \/ OperatorStep \/ SyncStep \/ CoolingOffTick \/ Tick
      BY <2>4, OthersKeepBacked
    <2> QED BY <2>1, <2>2, <2>3, <2>4 DEF Next
  <1> QED BY TypeInvariant, <1>1, <1>2, PTL DEF Spec

\* Every grant was paid for by its own confirmation of exactly its scope, for
\* any number of mint requests, whenever they interleave or die.
THEOREM GrantsArePaidFor == Spec => []GrantsBackedByConfirmations
  <1>1. BackedInv => GrantsBackedByConfirmations
    BY DEF BackedInv
  <1> QED BY BackedInvariant, <1>1, PTL
-----------------------------------------------------------------------------
(* The grant behind an applied row.  Between the drainer's check and its     *)
(* terminal write lie up to five calls; the grant may be revoked meanwhile,  *)
(* but neither its scope nor the row's can change.                           *)

\* Grant g is of the row's type, and its list covers the row's email.
Covers(g, a) ==
    /\ g \in DOMAIN grants
    /\ grants[g].type = row[a].type
    /\ grants[g].emails = {} \/ row[a].email \in grants[g].emails

Checked == {"target", "cap", "capture", "record", "dispatch", "applied"}

HoldersCovered ==
    \A d \in Drainer : drainer[d].pc \in Checked =>
        (RequiresGrant(row[drainer[d].id].type)
            => Covers(drainer[d].grant, drainer[d].id))

AppliedCovered ==
    \A a \in Action : row[a].status = "applied" =>
        (RequiresGrant(row[a].type) => Covers(row[a].grant, a))

GrantInv == HoldersCovered /\ AppliedCovered

\* Grants keep their scope.
GrantsKept ==
    \A g \in DOMAIN grants :
        /\ g \in DOMAIN grants'
        /\ grants'[g].type = grants[g].type
        /\ grants'[g].emails = grants[g].emails

\* The columns only the INSERT of a proposal writes; a row that exists keeps them.
SameProposal(a) ==
    /\ row'[a].type = row[a].type /\ row'[a].email = row[a].email
    /\ row'[a].revertOf = row[a].revertOf
    /\ row'[a].proposedAt = row[a].proposedAt
    /\ row'[a].status # "absent"

ProposalsKept == \A a \in Action : row[a].status # "absent" => SameProposal(a)

\* No row is applied that was not, and applied rows keep their grant.
NoneApplied ==
    \A a \in Action : row'[a].status = "applied" =>
        row[a].status = "applied" /\ row'[a].grant = row[a].grant

\* No drainer passes the check.
NonePasses ==
    \A d \in Drainer : drainer'[d].pc \in Checked =>
        /\ drainer[d].pc \in Checked
        /\ drainer'[d].id = drainer[d].id
        /\ drainer'[d].grant = drainer[d].grant

\* Rows in hand exist.
LEMMA HeldRowsExist ==
    ASSUME TypeInv, LifeInv, NEW d \in Drainer, drainer[d].pc \in HoldsRow
    PROVE  drainer[d].id \in Action /\ row[drainer[d].id].status # "absent"
  BY DEF TypeInv, DrainerShape, LifeInv, HeldRowsMove, Moving

\* A grant that covers a row goes on covering it.
LEMMA CoversStays ==
    ASSUME GrantsKept, ProposalsKept, NEW a \in Action, row[a].status # "absent",
           NEW g, Covers(g, a)
    PROVE  Covers(g, a)'
  BY DEF GrantsKept, ProposalsKept, SameProposal, Covers

\* Holders keep what covers them.
LEMMA HoldersStayCovered ==
    ASSUME TypeInv, LifeInv, GrantInv, GrantsKept, ProposalsKept,
           NEW d \in Drainer, drainer[d].pc \in Checked,
           drainer'[d].id = drainer[d].id, drainer'[d].grant = drainer[d].grant,
           RequiresGrant(row'[drainer[d].id].type)
    PROVE  Covers(drainer[d].grant, drainer[d].id)'
  <1>1. drainer[d].pc \in HoldsRow
    BY DEF Checked, HoldsRow, Processing
  <1>2. PICK a \in Action : a = drainer[d].id /\ row[a].status # "absent"
    BY <1>1, HeldRowsExist
  <1>3. PICK g : g = drainer[d].grant
    OBVIOUS
  <1>4. row'[a].type = row[a].type
    BY <1>2 DEF ProposalsKept, SameProposal
  <1>5. Covers(g, a)
    BY <1>2, <1>3, <1>4 DEF GrantInv, HoldersCovered
  <1>6. Covers(g, a)'
    BY <1>2, <1>5, CoversStays
  <1> QED BY <1>2, <1>3, <1>6 DEF Covers

\* A step in which no drainer passes the check and no row is applied.
LEMMA QuietKeepsGrant ==
    ASSUME TypeInv, LifeInv, GrantInv, GrantsKept, ProposalsKept, NoneApplied, NonePasses
    PROVE  GrantInv'
  <1>1. ASSUME NEW d \in Drainer, drainer'[d].pc \in Checked,
               RequiresGrant(row'[drainer'[d].id].type)
        PROVE  Covers(drainer[d].grant, drainer[d].id)'
    BY <1>1, HoldersStayCovered DEF NonePasses
  <1>2. HoldersCovered'
    BY <1>1 DEF HoldersCovered
  <1>3. ASSUME NEW a \in Action, row'[a].status = "applied", RequiresGrant(row'[a].type)
        PROVE  Covers(row[a].grant, a)'
    <2>1. /\ row[a].status = "applied" /\ row'[a].grant = row[a].grant
          /\ row'[a].type = row[a].type
      BY <1>3 DEF NoneApplied, ProposalsKept, SameProposal
    <2>2. PICK g : g = row[a].grant
      OBVIOUS
    <2>3. Covers(g, a)
      BY <1>3, <2>1, <2>2 DEF GrantInv, AppliedCovered
    <2>4. Covers(g, a)'
      BY <2>1, <2>3, CoversStays
    <2> QED BY <2>1, <2>2, <2>4 DEF Covers
  <1>4. AppliedCovered'
    BY <1>3 DEF AppliedCovered
  <1> QED BY <1>2, <1>4 DEF GrantInv

\* One row is written, outside its proposal, and not to applied.
LEMMA WritesKeep ==
    ASSUME NEW a \in Action, \A b \in Action \ {a} : row'[b] = row[b],
           row[a].status # "absent" => SameProposal(a),
           row'[a].status # "applied"
    PROVE  ProposalsKept /\ NoneApplied
  BY DEF ProposalsKept, SameProposal, NoneApplied

\* No row is written.
LEMMA RowsStay ==
    ASSUME UNCHANGED row
    PROVE  ProposalsKept /\ NoneApplied
  BY DEF ProposalsKept, SameProposal, NoneApplied

\* A verb applies no row and rewrites no proposal.
LEMMA VerbRows ==
    ASSUME TypeInv, VerbStep
    PROVE  ProposalsKept /\ NoneApplied
  <1>1. ASSUME NEW a \in Action, NEW t \in Types, NEW e \in Email \cup {NULL},
               NEW f \in Folder \cup {NULL}, Propose(a, t, e, f)
        PROVE  ProposalsKept /\ NoneApplied
    <2>1. /\ row[a].status = "absent"
          /\ \A b \in Action \ {a} : row'[b] = row[b]
          /\ row'[a].status = InitialStatus(t)
      BY <1>1 DEF Propose, NoRow, TypeInv, TypeOK
    <2>2. InitialStatus(t) # "applied"
      BY DEF InitialStatus
    <2> QED BY <2>1, <2>2, WritesKeep
  <1>2. ASSUME NEW a \in Action, Cancel(a) PROVE ProposalsKept /\ NoneApplied
    <2>1. /\ \A b \in Action \ {a} : row'[b] = row[b]
          /\ row'[a].status = "cancelled" /\ SameProposal(a)
      BY <1>2 DEF Cancel, SameProposal, TypeInv, TypeOK, Row
    <2> QED BY <2>1, WritesKeep
  <1>3. ASSUME NEW m \in Minter, MintInsert(m) PROVE ProposalsKept /\ NoneApplied
    BY <1>3 DEF MintInsert, ProposalsKept, SameProposal, NoneApplied, TypeInv, TypeOK, Row
  <1>4. ASSUME UNCHANGED row PROVE ProposalsKept /\ NoneApplied
    BY <1>4, RowsStay
  <1> QED BY <1>1, <1>2, <1>3, <1>4
          DEF VerbStep, MintStep, Confirm, MintFind, MintConsume, Revoke, dbVars

\* Nor do the ticker, the operator, sync and the clock.
LEMMA OtherRows ==
    ASSUME TypeInv, CoolingOffTick \/ OperatorStep \/ SyncStep \/ Tick
    PROVE  ProposalsKept /\ NoneApplied
  <1>1. CASE CoolingOffTick
    BY <1>1 DEF CoolingOffTick, ProposalsKept, SameProposal, NoneApplied, TypeInv, TypeOK, Row
  <1>2. ASSUME NEW a \in Action, ReplayReset(a) PROVE ProposalsKept /\ NoneApplied
    <2>1. CASE row[a].status = "failed"
      <3>1. /\ \A b \in Action \ {a} : row'[b] = row[b]
            /\ row'[a].status = "pending" /\ SameProposal(a)
        BY <1>2, <2>1 DEF ReplayReset, SameProposal, TypeInv, TypeOK, Row
      <3> QED BY <3>1, WritesKeep
    <2>2. CASE row[a].status # "failed"
      BY <1>2, <2>2, RowsStay DEF ReplayReset
    <2> QED BY <2>1, <2>2
  <1>3. ASSUME UNCHANGED row PROVE ProposalsKept /\ NoneApplied
    BY <1>3, RowsStay
  <1> QED BY <1>1, <1>2, <1>3
          DEF OperatorStep, ReplayCheck, Pause, Unpause, SyncStep, Upsert,
              SoftDelete, Resurrect, Tick, dbVars

\* Nor do faults.
LEMMA FaultRows ==
    ASSUME TypeInv, FaultStep
    PROVE  ProposalsKept /\ NoneApplied
  <1>1. ASSUME NEW d \in Drainer, PauseUnreadable(d) PROVE ProposalsKept /\ NoneApplied
    <2> DEFINE a == drainer[d].id
    <2>1. a \in Action
      BY <1>1 DEF PauseUnreadable, HoldsRow, TypeInv, DrainerShape
    <2>2. /\ \A b \in Action \ {a} : row'[b] = row[b]
          /\ row'[a].status = "pending" /\ SameProposal(a)
      BY <1>1, <2>1 DEF PauseUnreadable, SameProposal, TypeInv, TypeOK, Row
    <2> QED BY <2>1, <2>2, WritesKeep
  <1>2. CASE UNCHANGED row
    BY <1>2, RowsStay
  <1> QED BY <1>1, <1>2 DEF FaultStep, Crash, DbError, ApiCrash, dbVars

\* Nor does any step of a drainer, but for the terminal write of a success.
LEMMA DrainRows ==
    ASSUME TypeInv, NEW d \in Drainer, DrainStep(d), ~MarkApplied(d)
    PROVE  ProposalsKept /\ NoneApplied
  <1> DEFINE a == drainer[d].id
  <1>1. CASE Claim(d)
    <2>1. PICK x \in drainer[d].batch :
            IF row[x].status = "pending" THEN row' = [row EXCEPT ![x].status = "draining"]
                                         ELSE UNCHANGED row
      BY <1>1 DEF Claim
    <2>2. x \in Action
      BY DEF TypeInv, TypeOK, DrainerState
    <2>3. CASE row[x].status = "pending"
      <3>1. /\ \A b \in Action \ {x} : row'[b] = row[b]
            /\ row'[x].status = "draining" /\ SameProposal(x)
        BY <2>1, <2>2, <2>3 DEF SameProposal, TypeInv, TypeOK, Row
      <3> QED BY <2>2, <3>1, WritesKeep
    <2>4. CASE row[x].status # "pending"
      BY <2>1, <2>4, RowsStay
    <2> QED BY <2>3, <2>4
  <1>2. CASE PauseCheck(d) \/ Park(d) \/ MarkFailed(d) \/ Recover(d)
    <2>1. a \in Action
      BY <1>2 DEF PauseCheck, Park, MarkFailed, Recover, HoldsRow, Processing,
                  TypeInv, DrainerShape
    <2>2. CASE row' # row
      <3>1. \A b \in Action \ {a} : row'[b] = row[b]
        BY <1>2, <2>2 DEF PauseCheck, Park, MarkFailed, Recover, MarkedFailed,
                          TypeInv, TypeOK
      <3>2. row'[a].status # "applied" /\ SameProposal(a)
        <4> USE <2>1 DEF SameProposal, MarkedFailed, TypeInv, TypeOK, Row
        <4>1. CASE PauseCheck(d)
          <5>1. row' = [row EXCEPT ![a].status = "pending"]
            BY <2>2, <4>1 DEF PauseCheck
          <5> QED BY <5>1
        <4>2. CASE Park(d)
          BY <4>2 DEF Park
        <4>3. CASE MarkFailed(d)
          BY <4>3 DEF MarkFailed
        <4>4. CASE Recover(d)
          BY <4>4 DEF Recover
        <4> QED BY <1>2, <4>1, <4>2, <4>3, <4>4
      <3> QED BY <2>1, <3>1, <3>2, WritesKeep
    <2> QED BY <2>2, RowsStay
  <1>3. CASE UNCHANGED row
    BY <1>3, RowsStay
  <1> QED BY <1>1, <1>2, <1>3
          DEF DrainStep, TickStart, Select, CheckGrant, CheckTarget, CheckSendCap,
              CapturePreState, InsertHistory, Dispatch, Repair, NotifyFailure, dbVars

\* Grants are appended and revoked, and nothing else.
LEMMA GrantsStay ==
    ASSUME TypeInv, Next
    PROVE  GrantsKept
  <1>1. ASSUME NEW m \in Minter, MintInsert(m) PROVE GrantsKept
    <2>1. grants \in Seq(Grant)
      BY DEF TypeInv, TypeOK
    <2>2. PICK x : grants' = Append(grants, x)
      BY <1>1 DEF MintInsert
    <2> QED BY <2>1, <2>2 DEF GrantsKept
  <1>2. ASSUME NEW g \in DOMAIN grants, Revoke(g) PROVE GrantsKept
    <2>1. \A h \in DOMAIN grants : grants[h] \in Grant
      BY DEF TypeInv, TypeOK
    <2> QED BY <1>2, <2>1 DEF Revoke, GrantsKept, Grant
  <1>3. ASSUME UNCHANGED grants PROVE GrantsKept
    BY <1>3 DEF GrantsKept
  <1>4. CASE VerbStep
    BY <1>1, <1>2, <1>3, <1>4
       DEF VerbStep, MintStep, Propose, Cancel, Confirm, MintFind, MintConsume, dbVars
  <1>5. CASE OperatorStep \/ SyncStep \/ FaultStep \/ CoolingOffTick \/ Tick
    BY <1>3, <1>5
       DEF OperatorStep, ReplayCheck, ReplayReset, Pause, Unpause, SyncStep, Upsert,
           SoftDelete, Resurrect, FaultStep, Crash, DbError, PauseUnreadable,
           ApiCrash, CoolingOffTick, Tick, dbVars
  <1>6. ASSUME NEW d \in Drainer, DrainStep(d) PROVE GrantsKept
    BY <1>3, <1>6
       DEF DrainStep, TickStart, Select, Claim, PauseCheck, CheckGrant, Park,
           CheckTarget, CheckSendCap, CapturePreState, InsertHistory, Dispatch,
           MarkApplied, Repair, MarkFailed, NotifyFailure, Recover, dbVars
  <1> QED BY <1>4, <1>5, <1>6 DEF Next

\* Moving on after the check keeps the grant in hand.
LEMMA GotoPasses ==
    ASSUME TypeInv, NEW d \in Drainer, NEW pc, Goto(d, pc),
           pc \in Checked => drainer[d].pc \in Checked
    PROVE  NonePasses
  BY DEF NonePasses, Goto, TypeInv, TypeOK, DrainerState

\* So do a failure and the end of a row's processing.
LEMMA SetPasses ==
    ASSUME TypeInv, NEW d \in Drainer, NEW s, s.pc \notin Checked,
           drainer' = [drainer EXCEPT ![d] = s]
    PROVE  NonePasses
  BY DEF NonePasses, TypeInv, TypeOK

\* A failure.
LEMMA FailPasses ==
    ASSUME TypeInv, NEW d \in Drainer, NEW why, Fail(d, why)
    PROVE  NonePasses
  <1>1. /\ drainer'[d].pc = "fail"
        /\ \A c \in Drainer \ {d} : drainer'[c] = drainer[c]
    BY FailOwn
  <1> QED BY <1>1 DEF NonePasses, Checked

\* The next row of the batch.
LEMMA ResumePasses ==
    ASSUME TypeInv, NEW d \in Drainer, Resume(d)
    PROVE  NonePasses
  <1>1. drainer' = [drainer EXCEPT ![d] = Rest(drainer[d].batch)]
    BY DEF TypeInv, TypeOK, Resume
  <1>2. Rest(drainer[d].batch).pc \notin Checked
    BY DEF Rest, IdleDrainer, Checked
  <1> QED BY <1>1, <1>2, SetPasses

\* Faults take no drainer past the check.
LEMMA FaultPasses ==
    ASSUME TypeInv, FaultStep
    PROVE  NonePasses
  <1>1. IdleDrainer.pc \notin Checked
    BY DEF IdleDrainer, Checked
  <1>2. ASSUME NEW d \in Drainer, Crash(d) \/ PauseUnreadable(d) PROVE NonePasses
    BY <1>1, <1>2, SetPasses DEF Crash, PauseUnreadable
  <1>3. ASSUME NEW d \in Drainer, DbError(d) PROVE NonePasses
    BY <1>3, GotoPasses, ResumePasses DEF DbError, Checked
  <1>4. ASSUME NEW m \in Minter, ApiCrash(m) PROVE NonePasses
    BY <1>4 DEF ApiCrash, NonePasses
  <1> QED BY <1>2, <1>3, <1>4 DEF FaultStep

\* Nor do verbs, operator, sync, ticker and clock.
LEMMA OthersPass ==
    ASSUME VerbStep \/ OperatorStep \/ SyncStep \/ CoolingOffTick \/ Tick
    PROVE  NonePasses
  <1>1. UNCHANGED drainer
    BY DEF VerbStep, OperatorStep, SyncStep, Propose, Cancel, Confirm, MintFind,
           MintStep, MintConsume, MintInsert, Revoke, ReplayCheck, ReplayReset,
           Pause, Unpause, Upsert, SoftDelete, Resurrect, CoolingOffTick, Tick
  <1> QED BY <1>1 DEF NonePasses

\* Nor does any step of a drainer, but for the check.
LEMMA DrainPasses ==
    ASSUME TypeInv, NEW d \in Drainer, DrainStep(d), ~CheckGrant(d)
    PROVE  NonePasses
  <1>1. CASE TickStart(d)
    BY <1>1, GotoPasses DEF TickStart, Checked
  <1>2. CASE Select(d)
    <2>1. PICK b : drainer' = [drainer EXCEPT ![d] = Rest(b)]
      BY <1>2 DEF Select
    <2>2. Rest(b).pc \notin Checked
      BY DEF Rest, IdleDrainer, Checked
    <2> QED BY <2>1, <2>2, SetPasses
  <1>3. CASE Claim(d)
    <2>1. \A c \in Drainer \ {d} : drainer'[c] = drainer[c]
      BY <1>3 DEF Claim, TypeInv, TypeOK
    <2>2. \/ drainer'[d].pc = "claimed"
          \/ \E b : drainer'[d] = Rest(b)
      BY <1>3 DEF Claim, TypeInv, TypeOK, DrainerState
    <2>3. \A b : Rest(b).pc \notin Checked
      BY DEF Rest, IdleDrainer, Checked
    <2> QED BY <2>1, <2>2, <2>3 DEF NonePasses, Checked
  <1>4. CASE PauseCheck(d) \/ Park(d) \/ MarkFailed(d) \/ MarkApplied(d) \/ Recover(d)
    <2>1. IdleDrainer.pc \notin Checked
      BY DEF IdleDrainer, Checked
    <2> QED BY <1>4, <2>1, GotoPasses, ResumePasses, SetPasses
            DEF PauseCheck, Park, MarkFailed, MarkApplied, Recover, Checked
  <1>5. CASE CapturePreState(d)
    <2>1. drainer[d].pc \in Checked
      BY <1>5 DEF CapturePreState, Checked
    <2>2. /\ \A c \in Drainer \ {d} : drainer'[c] = drainer[c]
          /\ drainer'[d].id = drainer[d].id /\ drainer'[d].grant = drainer[d].grant
      BY <1>5 DEF CapturePreState, Fail, TypeInv, TypeOK, DrainerState
    <2> QED BY <2>1, <2>2 DEF NonePasses
  <1>6. CASE CheckTarget(d) \/ CheckSendCap(d) \/ InsertHistory(d) \/ Dispatch(d)
    <2>1. drainer[d].pc \in Checked
      BY <1>6 DEF CheckTarget, CheckSendCap, InsertHistory, Dispatch, Checked
    <2>2. (\E pc : Goto(d, pc)) \/ (\E why : Fail(d, why))
      BY <1>6 DEF CheckTarget, CheckSendCap, InsertHistory, Dispatch
    <2> QED BY <2>1, <2>2, GotoPasses, FailPasses
  <1>7. CASE Repair(d) \/ NotifyFailure(d)
    BY <1>7, ResumePasses DEF Repair, NotifyFailure
  <1> QED BY <1>1, <1>2, <1>3, <1>4, <1>5, <1>6, <1>7 DEF DrainStep

\* The check: a Tier-2/3 row passes with a grant that covers it.
LEMMA CheckKeepsGrant ==
    ASSUME TypeInv, LifeInv, GrantInv, NEW d \in Drainer, CheckGrant(d)
    PROVE  GrantInv'
  <1> DEFINE a == drainer[d].id
             valid == Covering(row[a].type, row[a].email)
  <1>1. UNCHANGED <<row, grants>>
    BY DEF CheckGrant, dbVars
  <1>2. /\ \A c \in Drainer \ {d} : drainer'[c] = drainer[c]
        /\ drainer'[d].id = a
    BY DEF CheckGrant, Goto, Fail, TypeInv, TypeOK, DrainerState
  <1>3. drainer'[d].pc \in Checked /\ RequiresGrant(row[a].type) => drainer'[d].grant \in valid
    <2>1. CASE ~RequiresGrant(row[a].type)
      BY <2>1
    <2>2. ASSUME NEW g \in valid, drainer' = [drainer EXCEPT ![d].pc = "target", ![d].grant = g]
          PROVE  drainer'[d].grant \in valid
      BY <2>2 DEF TypeInv, TypeOK, DrainerState
    <2>3. ASSUME NEW why, Fail(d, why) PROVE drainer'[d].pc \notin Checked
      BY <2>3, FailOwn DEF Checked
    <2>4. CASE Goto(d, "park")
      BY <2>4, GotoOwn DEF Checked
    <2> QED BY <2>1, <2>2, <2>3, <2>4 DEF CheckGrant
  <1>4. \A g \in valid : Covers(g, a)
    BY DEF Covering, Covers
  <1>5. ASSUME NEW c \in Drainer, drainer'[c].pc \in Checked,
               RequiresGrant(row'[drainer'[c].id].type)
        PROVE  Covers(drainer'[c].grant, drainer'[c].id)
    <2>1. CASE c = d
      BY <1>1, <1>2, <1>3, <1>4, <1>5, <2>1
    <2>2. CASE c # d
      BY <1>1, <1>2, <1>5, <2>2 DEF GrantInv, HoldersCovered
    <2> QED BY <2>1, <2>2
  <1>6. HoldersCovered'
    BY <1>1, <1>5 DEF HoldersCovered, Covers
  <1>7. AppliedCovered'
    BY <1>1 DEF GrantInv, AppliedCovered, Covers
  <1> QED BY <1>6, <1>7 DEF GrantInv

\* The terminal write of a success rewrites no proposal.
LEMMA AppliedRows ==
    ASSUME TypeInv, LifeInv, NEW d \in Drainer, MarkApplied(d)
    PROVE  LET a == drainer[d].id IN
           /\ a \in Action /\ row[a].status # "absent" /\ SameProposal(a)
           /\ \A b \in Action \ {a} : row'[b] = row[b]
           /\ drainer[d].grant # NULL => row'[a].grant = drainer[d].grant
           /\ ProposalsKept
  <1> DEFINE a == drainer[d].id
  <1>1. a \in Action /\ row[a].status # "absent"
    BY HeldRowsExist DEF MarkApplied, HoldsRow, Processing
  <1>2. /\ \A b \in Action \ {a} : row'[b] = row[b]
        /\ SameProposal(a)
        /\ drainer[d].grant # NULL => row'[a].grant = drainer[d].grant
    BY <1>1 DEF MarkApplied, SameProposal, TypeInv, TypeOK, Row
  <1>3. ProposalsKept
    BY <1>2 DEF ProposalsKept, SameProposal
  <1> QED BY <1>1, <1>2, <1>3

\* The terminal write puts the grant in hand on the row.
LEMMA AppliedKeepsGrant ==
    ASSUME TypeInv, LifeInv, GrantInv, NEW d \in Drainer, MarkApplied(d)
    PROVE  GrantInv'
  <1> DEFINE a == drainer[d].id
  <1>1. UNCHANGED grants
    BY DEF MarkApplied
  <1>2. GrantsKept
    BY <1>1 DEF GrantsKept
  <1>3. drainer[d].pc \in Checked /\ drainer[d].pc \in HoldsRow
    BY DEF MarkApplied, Checked, HoldsRow, Processing
  <1>4. /\ a \in Action /\ row[a].status # "absent"
        /\ \A b \in Action \ {a} : row'[b] = row[b]
        /\ drainer[d].grant # NULL => row'[a].grant = drainer[d].grant
        /\ ProposalsKept
    BY AppliedRows
  <1>5. row'[a].type = row[a].type /\ row'[a].email = row[a].email
    BY AppliedRows DEF SameProposal
  <1>6. ProposalsKept
    BY <1>4
  <1>7. NonePasses
    <2>1. Goto(d, "repair") \/ Resume(d)
      BY DEF MarkApplied
    <2> QED BY <2>1, GotoPasses, ResumePasses DEF Checked
  <1>8. ASSUME NEW c \in Drainer, drainer'[c].pc \in Checked,
               RequiresGrant(row'[drainer'[c].id].type)
        PROVE  Covers(drainer[c].grant, drainer[c].id)'
    BY <1>2, <1>6, <1>7, <1>8, HoldersStayCovered DEF NonePasses
  <1>9. HoldersCovered'
    BY <1>7, <1>8 DEF HoldersCovered, NonePasses, Covers
  <1>10. ASSUME NEW b \in Action, row'[b].status = "applied", RequiresGrant(row'[b].type)
         PROVE  Covers(row'[b].grant, b)
    <2>1. CASE b = a
      <3>1. Covers(drainer[d].grant, a)
        BY <1>3, <1>5, <1>10, <2>1 DEF GrantInv, HoldersCovered
      <3>2. drainer[d].grant \in Nat
        BY <3>1 DEF Covers, TypeInv, TypeOK
      <3>3. drainer[d].grant # NULL
        BY <3>2, NullAssumption
      <3> QED BY <1>4, <2>1, <3>1, <3>3
    <2>2. CASE b # a
      BY <1>4, <1>10, <2>2 DEF GrantInv, AppliedCovered
    <2> QED BY <2>1, <2>2
  <1>11. AppliedCovered'
    BY <1>1, <1>4, <1>5, <1>10 DEF AppliedCovered, Covers
  <1> QED BY <1>9, <1>11 DEF GrantInv

\* The invariant holds of every reachable state.
LEMMA GrantInvariant == Spec => []GrantInv
  <1>1. Init => GrantInv
    BY DEF Init, GrantInv, HoldersCovered, AppliedCovered, IdleDrainer, NoRow, Checked
  <1>2. TypeInv /\ LifeInv /\ GrantInv /\ [Next]_vars => GrantInv'
    <2> SUFFICES ASSUME TypeInv, LifeInv, GrantInv, [Next]_vars PROVE GrantInv'
      OBVIOUS
    <2>1. CASE UNCHANGED vars
      BY <2>1 DEF vars, dbVars, GrantInv, HoldersCovered, AppliedCovered, Covers
    <2>2. CASE VerbStep \/ OperatorStep \/ SyncStep \/ CoolingOffTick \/ Tick
      <3>1. GrantsKept
        BY <2>2, GrantsStay DEF Next
      <3> QED BY <2>2, <3>1, VerbRows, OtherRows, OthersPass, QuietKeepsGrant
    <2>3. CASE FaultStep
      <3>1. GrantsKept
        BY <2>3, GrantsStay DEF Next
      <3> QED BY <2>3, <3>1, FaultRows, FaultPasses, QuietKeepsGrant
    <2>4. ASSUME NEW d \in Drainer, DrainStep(d) PROVE GrantInv'
      <3>1. GrantsKept
        BY <2>4, GrantsStay DEF Next
      <3>2. CASE ~CheckGrant(d) /\ ~MarkApplied(d)
        BY <2>4, <3>1, <3>2, DrainRows, DrainPasses, QuietKeepsGrant
      <3> QED BY <2>4, <3>2, CheckKeepsGrant, AppliedKeepsGrant
    <2> QED BY <2>1, <2>2, <2>3, <2>4 DEF Next
  <1> QED BY TypeInvariant, LifeInvariant, <1>1, <1>2, PTL DEF Spec

\* Whatever is applied to the mailbox above Tier 1 was allowed by a grant of
\* its own type that covers its email, although mint_grant promotes parked rows
\* by type alone and a grant may be revoked between the check and the write.
THEOREM AppliedWithGrant == Spec => []AppliedUnderGrant
  <1>1. GrantInv => AppliedUnderGrant
    BY DEF GrantInv, AppliedCovered, Covers, AppliedUnderGrant
  <1> QED BY GrantInvariant, <1>1, PTL
-----------------------------------------------------------------------------
(* The pause.  A drainer looks at it once more after each claim; what it is *)
(* committed to by then is one call.                                        *)

Committed == {"check", "target", "cap", "capture", "record", "dispatch"}

PausedOnce ==
    \A d \in Drainer :
        /\ pausedSends[d] <= 1
        /\ ~paused => pausedSends[d] = 0
        /\ pausedSends[d] > 0 => drainer[d].pc \notin Committed

\* The pause stays as it is, nothing is sent, nobody commits to a call.
Uncommitted ==
    /\ UNCHANGED <<paused, pausedSends>>
    /\ \A d \in Drainer : drainer'[d].pc \in Committed => drainer[d].pc \in Committed

\* Such a step keeps the invariant.
LEMMA UncommittedKeepsPause ==
    ASSUME PausedOnce, Uncommitted
    PROVE  PausedOnce'
  BY DEF PausedOnce, Uncommitted

\* Whoever sets one drainer's locals commits no other.
LEMMA SetUncommitted ==
    ASSUME TypeInv, NEW d \in Drainer, UNCHANGED <<paused, pausedSends>>,
           \A c \in Drainer \ {d} : drainer'[c] = drainer[c],
           drainer'[d].pc \in Committed => drainer[d].pc \in Committed
    PROVE  Uncommitted
  BY DEF Uncommitted

\* A drainer that is committed to nothing afterwards is no trouble.
LEMMA DropUncommitted ==
    ASSUME TypeInv, NEW d \in Drainer, UNCHANGED <<paused, pausedSends>>,
           NEW s, s.pc \notin Committed, drainer' = [drainer EXCEPT ![d] = s]
    PROVE  Uncommitted
  BY DEF Uncommitted, TypeInv, TypeOK

\* Between two ticks or two rows it is.
LEMMA RestUncommitted ==
    IdleDrainer.pc \notin Committed /\ \A b : Rest(b).pc \notin Committed
  BY DEF Rest, IdleDrainer, Committed

\* A drainer between two rows is committed to nothing.
LEMMA ResumeUncommitted ==
    ASSUME TypeInv, NEW d \in Drainer, Resume(d)
    PROVE  /\ \A c \in Drainer \ {d} : drainer'[c] = drainer[c]
           /\ drainer'[d].pc \notin Committed
  <1>1. drainer' = [drainer EXCEPT ![d] = Rest(drainer[d].batch)]
    BY DEF TypeInv, TypeOK, Resume
  <1> QED BY <1>1, RestUncommitted DEF TypeInv, TypeOK

\* Setting and lifting the pause.
LEMMA SwitchKeepsPause ==
    ASSUME TypeInv, PausedOnce, Pause \/ Unpause
    PROVE  PausedOnce'
  <1>1. UNCHANGED drainer
    BY DEF Pause, Unpause
  <1>2. CASE Pause
    <2>1. ~paused /\ UNCHANGED pausedSends
      BY <1>2 DEF Pause, ghostVars
    <2> QED BY <1>1, <2>1 DEF PausedOnce
  <1>3. CASE Unpause
    <2>1. \A d \in Drainer : pausedSends'[d] = 0
      BY <1>3 DEF Unpause
    <2> QED BY <1>1, <2>1 DEF PausedOnce
  <1> QED BY <1>2, <1>3

\* The dispatch is the one call, and the drainer is past it.
LEMMA DispatchKeepsPause ==
    ASSUME TypeInv, PausedOnce, NEW d \in Drainer, Dispatch(d)
    PROVE  PausedOnce'
  <1>1. UNCHANGED paused
    BY DEF Dispatch, dbVars
  <1>2. /\ \A c \in Drainer \ {d} : drainer'[c] = drainer[c]
        /\ drainer'[d].pc \in {"applied", "fail"}
    BY GotoOwn, FailOwn DEF Dispatch
  <1>3. pausedSends[d] = 0
    <2>1. pausedSends[d] \in Nat
      BY DEF TypeInv, TypeOK
    <2>2. ~(pausedSends[d] > 0)
      BY DEF PausedOnce, Dispatch, Committed
    <2> QED BY <2>1, <2>2
  <1>4. /\ \A c \in Drainer \ {d} : pausedSends'[c] = pausedSends[c]
        /\ pausedSends'[d] = IF paused THEN 1 ELSE 0
    BY <1>3 DEF Dispatch, TypeInv, TypeOK
  <1>5. ASSUME NEW c \in Drainer
        PROVE  /\ pausedSends'[c] <= 1
               /\ ~paused' => pausedSends'[c] = 0
               /\ pausedSends'[c] > 0 => drainer'[c].pc \notin Committed
    <2>1. CASE c = d
      BY <1>1, <1>2, <1>4, <2>1 DEF Committed
    <2>2. CASE c # d
      BY <1>1, <1>2, <1>4, <2>2 DEF PausedOnce
    <2> QED BY <2>1, <2>2
  <1> QED BY <1>5 DEF PausedOnce

\* The snapshot after the claim: a drainer commits itself only if unpaused.
LEMMA PauseCheckKeepsPause ==
    ASSUME TypeInv, PausedOnce, NEW d \in Drainer, PauseCheck(d)
    PROVE  PausedOnce'
  <1>1. UNCHANGED <<paused, pausedSends>>
    BY DEF PauseCheck, ghostVars
  <1>2. CASE paused
    <2>1. Uncommitted
      BY <1>1, <1>2, RestUncommitted, DropUncommitted DEF PauseCheck
    <2> QED BY <2>1, UncommittedKeepsPause
  <1>3. CASE ~paused
    BY <1>1, <1>3 DEF PausedOnce
  <1> QED BY <1>2, <1>3

\* Every other step of a drainer.
LEMMA DrainKeepsPause ==
    ASSUME TypeInv, PausedOnce, NEW d \in Drainer, DrainStep(d)
    PROVE  PausedOnce'
  <1> USE UncommittedKeepsPause, SetUncommitted
  <1>1. CASE TickStart(d)
    <2>1. UNCHANGED <<paused, pausedSends>>
      BY <1>1 DEF TickStart, dbVars, ghostVars
    <2> QED BY <1>1, <2>1, GotoOwn DEF TickStart, Committed
  <1>2. CASE Select(d)
    <2>1. UNCHANGED <<paused, pausedSends>>
      BY <1>2 DEF Select, dbVars, ghostVars
    <2>2. PICK b : drainer' = [drainer EXCEPT ![d] = Rest(b)]
      BY <1>2 DEF Select
    <2> QED BY <2>1, <2>2, RestUncommitted, DropUncommitted
  <1>3. CASE Claim(d)
    <2>1. UNCHANGED <<paused, pausedSends>>
      BY <1>3 DEF Claim, ghostVars
    <2>2. \A c \in Drainer \ {d} : drainer'[c] = drainer[c]
      BY <1>3 DEF Claim, TypeInv, TypeOK
    <2>3. \/ drainer'[d].pc = "claimed"
          \/ \E b : drainer'[d] = Rest(b)
      BY <1>3 DEF Claim, TypeInv, TypeOK, DrainerState
    <2> QED BY <2>1, <2>2, <2>3, RestUncommitted DEF Committed
  <1>4. CASE CheckGrant(d) \/ CapturePreState(d)
    <2>1. UNCHANGED <<paused, pausedSends>> /\ drainer[d].pc \in Committed
      BY <1>4 DEF CheckGrant, CapturePreState, dbVars, ghostVars, Committed
    <2>2. \A c \in Drainer \ {d} : drainer'[c] = drainer[c]
      BY <1>4 DEF CheckGrant, CapturePreState, Goto, Fail, TypeInv, TypeOK
    <2> QED BY <2>1, <2>2
  <1>5. CASE CheckTarget(d) \/ CheckSendCap(d) \/ InsertHistory(d)
    <2>1. UNCHANGED <<paused, pausedSends>> /\ drainer[d].pc \in Committed
      BY <1>5 DEF CheckTarget, CheckSendCap, InsertHistory, dbVars, ghostVars, Committed
    <2>2. \A c \in Drainer \ {d} : drainer'[c] = drainer[c]
      BY <1>5 DEF CheckTarget, CheckSendCap, InsertHistory, Goto, Fail, TypeInv, TypeOK
    <2> QED BY <2>1, <2>2
  <1>6. CASE MarkApplied(d) \/ MarkFailed(d)
    <2>1. UNCHANGED <<paused, pausedSends>>
      BY <1>6 DEF MarkApplied, MarkFailed, ghostVars
    <2>2. /\ \A c \in Drainer \ {d} : drainer'[c] = drainer[c]
          /\ drainer'[d].pc \notin Committed
      BY <1>6, GotoOwn, ResumeUncommitted DEF MarkApplied, MarkFailed, Committed
    <2> QED BY <2>1, <2>2
  <1>7. CASE Park(d) \/ Repair(d) \/ NotifyFailure(d) \/ Recover(d)
    <2>1. UNCHANGED <<paused, pausedSends>>
      BY <1>7 DEF Park, Repair, NotifyFailure, Recover, dbVars, ghostVars
    <2> QED BY <1>7, <2>1, ResumeUncommitted DEF Park, Repair, NotifyFailure, Recover
  <1> QED BY <1>1, <1>2, <1>3, <1>4, <1>5, <1>6, <1>7, PauseCheckKeepsPause,
             DispatchKeepsPause DEF DrainStep

\* Faults.
LEMMA FaultKeepsPause ==
    ASSUME TypeInv, PausedOnce, FaultStep
    PROVE  PausedOnce'
  <1>1. UNCHANGED <<paused, pausedSends>>
    BY DEF FaultStep, Crash, DbError, PauseUnreadable, ApiCrash, dbVars
  <1>2. ASSUME NEW d \in Drainer, Crash(d) \/ PauseUnreadable(d) PROVE Uncommitted
    BY <1>1, <1>2, RestUncommitted, DropUncommitted DEF Crash, PauseUnreadable
  <1>3. ASSUME NEW d \in Drainer, DbError(d) PROVE Uncommitted
    BY <1>1, <1>3, SetUncommitted, GotoOwn, ResumeUncommitted DEF DbError, Committed
  <1>4. ASSUME NEW m \in Minter, ApiCrash(m) PROVE Uncommitted
    BY <1>1, <1>4 DEF ApiCrash, Uncommitted
  <1> QED BY <1>2, <1>3, <1>4, UncommittedKeepsPause DEF FaultStep

\* Everybody else.
LEMMA OthersKeepPause ==
    ASSUME TypeInv, PausedOnce,
           VerbStep \/ OperatorStep \/ SyncStep \/ CoolingOffTick \/ Tick
    PROVE  PausedOnce'
  <1>1. CASE Pause \/ Unpause
    BY <1>1, SwitchKeepsPause
  <1>2. CASE ~Pause /\ ~Unpause
    <2>1. UNCHANGED <<drainer, paused, pausedSends>>
      BY <1>2 DEF VerbStep, OperatorStep, SyncStep, Propose, Cancel, Confirm,
             MintFind, MintStep, MintConsume, MintInsert, Revoke, ReplayCheck,
             ReplayReset, Upsert, SoftDelete, Resurrect, CoolingOffTick, Tick,
             dbVars, ghostVars
    <2> QED BY <2>1, UncommittedKeepsPause DEF Uncommitted
  <1> QED BY <1>1, <1>2

\* However many drainers are under way when the operator pauses, each lets at
\* most the one call out that it is committed to.
THEOREM PauseStops == Spec => []PauseStopsBatch
  <1>1. Init => PausedOnce
    BY DEF Init, PausedOnce, IdleDrainer, Committed
  <1>2. TypeInv /\ PausedOnce /\ [Next]_vars => PausedOnce'
    <2> SUFFICES ASSUME TypeInv, PausedOnce, [Next]_vars PROVE PausedOnce'
      OBVIOUS
    <2>1. CASE UNCHANGED vars
      BY <2>1 DEF vars, dbVars, ghostVars, PausedOnce
    <2> QED BY <2>1, DrainKeepsPause, FaultKeepsPause, OthersKeepPause DEF Next
  <1>3. PausedOnce => PauseStopsBatch
    BY DEF PausedOnce, PauseStopsBatch
  <1> QED BY TypeInvariant, <1>1, <1>2, <1>3, PTL DEF Spec
-----------------------------------------------------------------------------
(* Closed rows.  Past its terminal write a drainer no longer owns its row;   *)
(* what its catch-all may still fail is an applied revert, nothing else.     *)

LateOpen ==
    \A d \in Drainer, a \in Action : drainer[d].id = a =>
        /\ drainer[d].pc = "repair" => IsRevert(a)
        /\ replays = 0 \/ OneDrainer =>
            /\ drainer[d].pc = "notify" => row[a].status # "applied"
            /\ drainer[d].pc = "late_error" => row[a].status # "applied" \/ IsRevert(a)

\* Whoever is late was late already, or has just failed its row.
LateKept ==
    \A d \in Drainer : drainer'[d].pc \in Late =>
        \/ /\ drainer[d].pc \in Late /\ drainer'[d].id = drainer[d].id
           /\ drainer'[d].pc \in {drainer[d].pc, "late_error"}
        \/ drainer'[d].pc = "notify" /\ row'[drainer'[d].id].status # "applied"

\* Being a revert is part of the proposal.
LEMMA RevertStays ==
    ASSUME NEW a \in Action, SameProposal(a), IsRevert(a)
    PROVE  IsRevert(a)'
  BY DEF SameProposal, IsRevert

\* A step that applies no row keeps the invariant.
LEMMA LateKeepsOpen ==
    ASSUME TypeInv, LifeInv, LateOpen, ProposalsKept, NoneApplied, LateKept,
           replays' = 0 => replays = 0
    PROVE  LateOpen'
  <1> SUFFICES ASSUME NEW d \in Drainer, NEW a \in Action,
                      drainer'[d].id = a, drainer'[d].pc \in Late
               PROVE  /\ drainer'[d].pc = "repair" => IsRevert(a)'
                      /\ replays' = 0 \/ OneDrainer =>
                          /\ drainer'[d].pc = "notify" => row'[a].status # "applied"
                          /\ drainer'[d].pc = "late_error" =>
                                row'[a].status # "applied" \/ IsRevert(a)'
    BY DEF LateOpen, Late, OneDrainer
  <1>1. CASE drainer'[d].pc = "notify" /\ row'[drainer'[d].id].status # "applied"
    BY <1>1
  <1>2. CASE /\ drainer[d].pc \in Late /\ drainer'[d].id = drainer[d].id
             /\ drainer'[d].pc \in {drainer[d].pc, "late_error"}
    <2>1. row[a].status # "absent"
      BY <1>2, HeldRowsExist DEF Late, HoldsRow, Processing
    <2>2. SameProposal(a) /\ (row'[a].status = "applied" => row[a].status = "applied")
      BY <2>1 DEF ProposalsKept, NoneApplied
    <2>3. IsRevert(a) => IsRevert(a)'
      BY <2>2, RevertStays
    <2>4. /\ drainer[d].pc = "repair" => IsRevert(a)
          /\ replays = 0 \/ OneDrainer =>
              /\ drainer[d].pc = "notify" => row[a].status # "applied"
              /\ drainer[d].pc = "late_error" => row[a].status # "applied" \/ IsRevert(a)
      BY <1>2 DEF LateOpen
    <2> QED BY <1>2, <2>2, <2>3, <2>4 DEF Late
  <1> QED BY <1>1, <1>2 DEF LateKept

\* A drainer that is not late afterwards is no trouble.
LEMMA SetLate ==
    ASSUME NEW d \in Drainer, \A c \in Drainer \ {d} : drainer'[c] = drainer[c],
           drainer'[d].pc \notin Late
    PROVE  LateKept
  BY DEF LateKept

\* The steps of a drainer up to its terminal write.
LEMMA DrainLate ==
    ASSUME TypeInv, NEW d \in Drainer, DrainStep(d), ~MarkApplied(d)
    PROVE  LateKept
  <1>1. CASE TickStart(d) \/ InsertHistory(d) \/ CheckSendCap(d) \/ CheckTarget(d) \/ Dispatch(d)
    BY <1>1, GotoOwn, FailOwn, SetLate
       DEF TickStart, InsertHistory, CheckSendCap, CheckTarget, AfterTarget, Dispatch, Late
  <1>2. CASE Select(d)
    <2>1. PICK b : drainer' = [drainer EXCEPT ![d] = Rest(b)]
      BY <1>2 DEF Select
    <2> QED BY <2>1, RestOwn, SetLate DEF TypeInv, TypeOK
  <1>3. CASE Claim(d)
    <2>1. \A c \in Drainer \ {d} : drainer'[c] = drainer[c]
      BY <1>3 DEF Claim, TypeInv, TypeOK
    <2>2. \/ drainer'[d].pc = "claimed"
          \/ \E b : drainer'[d] = Rest(b)
      BY <1>3 DEF Claim, TypeInv, TypeOK, DrainerState
    <2> QED BY <2>1, <2>2, RestOwn, SetLate DEF Late
  <1>4. CASE PauseCheck(d)
    <2>1. CASE paused
      <3>1. /\ \A c \in Drainer \ {d} : drainer'[c] = drainer[c]
            /\ drainer'[d] = IdleDrainer
        BY <1>4, <2>1 DEF PauseCheck, TypeInv, TypeOK
      <3> QED BY <3>1, SetLate DEF IdleDrainer, Late
    <2>2. CASE ~paused
      BY <1>4, <2>2, GotoOwn, SetLate DEF PauseCheck, Late
    <2> QED BY <2>1, <2>2
  <1>5. CASE CheckGrant(d) \/ CapturePreState(d)
    <2>1. /\ \A c \in Drainer \ {d} : drainer'[c] = drainer[c]
          /\ drainer'[d].pc \in {"target", "fail", "park", "record"}
      BY <1>5 DEF CheckGrant, CapturePreState, Goto, Fail, TypeInv, TypeOK, DrainerState
    <2> QED BY <2>1, SetLate DEF Late
  <1>6. CASE Park(d) \/ Repair(d) \/ NotifyFailure(d) \/ Recover(d)
    BY <1>6, ResumeOwn, SetLate DEF Park, Repair, NotifyFailure, Recover
  <1>7. CASE MarkFailed(d)
    <2>1. drainer[d].id \in Action
      BY <1>7 DEF MarkFailed, HoldsRow, Processing, TypeInv, DrainerShape
    <2>2. row'[drainer[d].id].status = "failed"
      BY <1>7, <2>1 DEF MarkFailed, MarkedFailed, TypeInv, TypeOK, Row
    <2>3. CASE Resume(d)
      BY <2>3, ResumeOwn, SetLate
    <2>4. CASE Goto(d, "notify")
      <3>1. /\ \A c \in Drainer \ {d} : drainer'[c] = drainer[c]
            /\ drainer'[d].pc = "notify" /\ drainer'[d].id = drainer[d].id
        BY <2>4, GotoOwn
      <3> QED BY <2>2, <3>1 DEF LateKept
    <2> QED BY <1>7, <2>3, <2>4 DEF MarkFailed
  <1> QED BY <1>1, <1>2, <1>3, <1>4, <1>5, <1>6, <1>7 DEF DrainStep

\* Faults make nobody late who was not.
LEMMA FaultLate ==
    ASSUME TypeInv, FaultStep
    PROVE  LateKept
  <1>1. ASSUME NEW d \in Drainer, Crash(d) \/ PauseUnreadable(d) PROVE LateKept
    <2>1. /\ \A c \in Drainer \ {d} : drainer'[c] = drainer[c]
          /\ drainer'[d] = IdleDrainer
      BY <1>1 DEF Crash, PauseUnreadable, TypeInv, TypeOK
    <2> QED BY <2>1, SetLate DEF IdleDrainer, Late
  <1>2. ASSUME NEW d \in Drainer, DbError(d) PROVE LateKept
    <2>1. CASE Goto(d, "error")
      BY <2>1, GotoOwn, SetLate DEF Late
    <2>2. CASE drainer[d].pc \in Late /\ Goto(d, "late_error")
      BY <2>2, GotoOwn DEF LateKept
    <2>3. CASE Resume(d)
      BY <2>3, ResumeOwn, SetLate
    <2> QED BY <1>2, <2>1, <2>2, <2>3 DEF DbError, Late
  <1>3. ASSUME NEW m \in Minter, ApiCrash(m) PROVE LateKept
    BY <1>3 DEF ApiCrash, LateKept
  <1> QED BY <1>1, <1>2, <1>3 DEF FaultStep

\* The terminal write of a success: the drainer owns the row, so no drainer
\* that is late on another row's account can hold it.
LEMMA AppliedKeepsOpen ==
    ASSUME TypeInv, LifeInv, OwnInv, LateOpen, NEW d \in Drainer, MarkApplied(d)
    PROVE  LateOpen'
  <1> DEFINE a == drainer[d].id
  <1>1. UNCHANGED replays
    BY DEF MarkApplied, ghostVars
  <1>2. /\ a \in Action /\ SameProposal(a) /\ ProposalsKept
        /\ \A b \in Action \ {a} : row'[b] = row[b]
    BY AppliedRows
  <1>3. /\ \A c \in Drainer \ {d} : drainer'[c] = drainer[c]
        /\ drainer'[d].pc \in Late =>
            drainer'[d].pc = "repair" /\ drainer'[d].id = a /\ IsRevert(a)
    <2>1. CASE Resume(d)
      BY <2>1, ResumeOwn
    <2>2. CASE IsRevert(a) /\ Goto(d, "repair")
      BY <2>2, GotoOwn
    <2> QED BY <2>1, <2>2 DEF MarkApplied
  <1>4. ASSUME NEW c \in Drainer \ {d}, drainer[c].pc \in Late,
               replays = 0 \/ OneDrainer
        PROVE  drainer[c].id # a
    <2>1. ~OneDrainer /\ replays = 0
      BY <1>4 DEF OneDrainer
    <2>2. row[a].status = "draining"
      BY <2>1 DEF OwnInv, ClaimOwnership, Owns, MarkApplied, Owning, Processing
    <2>3. row[drainer[c].id].status \in {"applied", "failed"}
      BY <1>4, <2>1 DEF OwnInv, LateRowsClosed
    <2> QED BY <2>2, <2>3
  <1> SUFFICES ASSUME NEW c \in Drainer, NEW b \in Action,
                      drainer'[c].id = b, drainer'[c].pc \in Late
               PROVE  /\ drainer'[c].pc = "repair" => IsRevert(b)'
                      /\ replays' = 0 \/ OneDrainer =>
                          /\ drainer'[c].pc = "notify" => row'[b].status # "applied"
                          /\ drainer'[c].pc = "late_error" =>
                                row'[b].status # "applied" \/ IsRevert(b)'
    BY DEF LateOpen, Late, OneDrainer
  <1>5. CASE c = d
    <2>1. drainer'[d].pc = "repair" /\ b = a /\ IsRevert(b)
      BY <1>3, <1>5
    <2>2. IsRevert(b)'
      BY <1>2, <2>1, RevertStays
    <2> QED BY <1>5, <2>1, <2>2
  <1>6. CASE c # d
    <2>1. drainer'[c] = drainer[c]
      BY <1>3, <1>6
    <2>2. row[b].status # "absent"
      BY <2>1, HeldRowsExist DEF Late, HoldsRow, Processing
    <2>3. IsRevert(b) => IsRevert(b)'
      BY <1>2, <2>2, RevertStays DEF ProposalsKept
    <2>4. replays = 0 \/ OneDrainer => row'[b] = row[b]
      BY <1>2, <1>4, <1>6, <2>1
    <2>5. /\ drainer[c].pc = "repair" => IsRevert(b)
          /\ replays = 0 \/ OneDrainer =>
              /\ drainer[c].pc = "notify" => row[b].status # "applied"
              /\ drainer[c].pc = "late_error" => row[b].status # "applied" \/ IsRevert(b)
      BY <2>1 DEF LateOpen
    <2> QED BY <1>1, <2>1, <2>3, <2>4, <2>5
  <1> QED BY <1>5, <1>6

\* Every step keeps the late rows as they are.
LEMMA LateStep == TypeInv /\ LifeInv /\ OwnInv /\ LateOpen /\ [Next]_vars => LateOpen'
  <1> SUFFICES ASSUME TypeInv, LifeInv, OwnInv, LateOpen, [Next]_vars PROVE LateOpen'
    OBVIOUS
  <1>1. CASE UNCHANGED vars
    BY <1>1 DEF vars, dbVars, ghostVars, LateOpen, IsRevert, OneDrainer
  <1>2. CASE VerbStep \/ OperatorStep \/ SyncStep \/ CoolingOffTick \/ Tick
    <2>1. UNCHANGED drainer
      BY <1>2 DEF VerbStep, OperatorStep, SyncStep, Propose, Cancel, Confirm,
             MintFind, MintStep, MintConsume, MintInsert, Revoke, ReplayCheck,
             ReplayReset, Pause, Unpause, Upsert, SoftDelete, Resurrect,
             CoolingOffTick, Tick
    <2>2. LateKept
      BY <2>1 DEF LateKept
    <2>3. replays' = 0 => replays = 0
      BY <1>2, OutsideVerbs, OutsideOthers DEF Outside, TypeInv, TypeOK
    <2> QED BY <1>2, <2>2, <2>3, VerbRows, OtherRows, LateKeepsOpen
  <1>3. CASE FaultStep
    <2>1. UNCHANGED replays
      BY <1>3 DEF FaultStep, Crash, DbError, PauseUnreadable, ApiCrash
    <2> QED BY <1>3, <2>1, FaultRows, FaultLate, LateKeepsOpen
  <1>4. ASSUME NEW d \in Drainer, DrainStep(d) PROVE LateOpen'
    <2>1. CASE ~MarkApplied(d)
      <3>1. UNCHANGED replays
        BY <1>4, DrainSteps DEF Inward, Taking, Leaving, LateWrite
      <3> QED BY <1>4, <2>1, <3>1, DrainRows, DrainLate, LateKeepsOpen
    <2> QED BY <2>1, AppliedKeepsOpen
  <1> QED BY <1>1, <1>2, <1>3, <1>4 DEF Next

\* The invariant holds of every reachable state.
LEMMA LateInvariant == Spec => []LateOpen
  <1>1. Init => LateOpen
    BY DEF Init, LateOpen, IdleDrainer
  <1> QED BY TypeInvariant, LifeInvariant, OwnInvariant, <1>1, LateStep, PTL DEF Spec

\* No step of a verb, the operator, sync, the ticker or the clock writes a closed row.
LEMMA OthersLeaveClosed ==
    ASSUME TypeInv, VerbStep \/ OperatorStep \/ SyncStep \/ CoolingOffTick \/ Tick,
           NEW a \in Action, Closed(a)
    PROVE  row'[a] = row[a]
  <1> USE DEF Closed
  <1>1. ASSUME NEW b \in Action,
               \/ Cancel(b)
               \/ \E t \in Types, e \in Email \cup {NULL}, f \in Folder \cup {NULL} :
                        Propose(b, t, e, f)
        PROVE  row'[a] = row[a]
    <2>1. /\ row[b].status \in {"absent", "cooling_off"}
          /\ \A c \in Action \ {b} : row'[c] = row[c]
      BY <1>1 DEF Cancel, Propose, TypeInv, TypeOK
    <2> QED BY <2>1
  <1>2. ASSUME NEW m \in Minter, MintInsert(m) PROVE row'[a] = row[a]
    BY <1>2 DEF MintInsert
  <1>3. CASE CoolingOffTick
    BY <1>3 DEF CoolingOffTick, Due
  <1>4. ASSUME NEW b \in Action, ReplayReset(b) PROVE row'[a] = row[a]
    <2>1. CASE row[b].status = "failed"
      <3>1. \A c \in Action \ {b} : row'[c] = row[c]
        BY <1>4, <2>1 DEF ReplayReset, TypeInv, TypeOK
      <3> QED BY <2>1, <3>1
    <2>2. CASE row[b].status # "failed"
      BY <1>4, <2>2 DEF ReplayReset
    <2> QED BY <2>1, <2>2
  <1>5. ASSUME UNCHANGED row PROVE row'[a] = row[a]
    BY <1>5
  <1>6. CASE VerbStep
    BY <1>1, <1>2, <1>5, <1>6
       DEF VerbStep, MintStep, Confirm, MintFind, MintConsume, Revoke, dbVars
  <1>7. CASE OperatorStep \/ SyncStep \/ Tick
    BY <1>4, <1>5, <1>7
       DEF OperatorStep, ReplayCheck, Pause, Unpause, SyncStep, Upsert, SoftDelete,
           Resurrect, Tick, dbVars
  <1> QED BY <1>3, <1>6, <1>7

\* A drainer that still owns its row, or has none, does not write a closed one.
LEMMA OwnersLeaveClosed ==
    ASSUME TypeInv, OwnInv, Undisturbed, NEW d \in Drainer,
           Inward(d) \/ Taking(d) \/ Leaving(d), NEW a \in Action, Closed(a)
    PROVE  row'[a] = row[a]
  <1>1. CASE Inward(d)
    BY <1>1 DEF Inward
  <1>2. CASE Taking(d)
    BY <1>2 DEF Taking, Closed
  <1>3. CASE Leaving(d)
    <2>1. row[drainer[d].id].status = "draining"
      BY <1>3 DEF Leaving, OwnInv, ClaimOwnership, Owns, Undisturbed
    <2> QED BY <1>3, <2>1 DEF Leaving, Closed
  <1> QED BY <1>1, <1>2, <1>3

\* What the catch-all fails late is an applied revert whose repair raised.
LEMMA LateWriteClosed ==
    ASSUME TypeInv, LifeInv, OwnInv, LateOpen, Undisturbed, NEW d \in Drainer,
           LateWrite(d), NEW a \in Action, Closed(a)
    PROVE  row'[a] = row[a] \/ RepairFailedLate(a)
  <1>1. faults > 0 /\ faults \in Nat
    BY DEF LateWrite, OwnInv, LateErrorIsFault, TypeInv, TypeOK
  <1>2. replays = 0 \/ OneDrainer
    BY <1>1 DEF Undisturbed
  <1>3. CASE drainer[d].id = a
    <2>1. row[a].status = "applied"
      BY <1>3 DEF LateWrite, HoldsRow, LifeInv, HeldRowsMove, Moving, Closed
    <2>2. IsRevert(a)
      BY <1>2, <1>3, <2>1 DEF LateWrite, LateOpen
    <2> QED BY <1>1, <1>3, <2>1, <2>2 DEF LateWrite, RepairFailedLate
  <1>4. CASE drainer[d].id # a
    BY <1>4 DEF LateWrite
  <1> QED BY <1>3, <1>4

\* What a step does to closed rows.
ClosedKept ==
    Undisturbed => \A a \in Action : Closed(a) => row'[a] = row[a] \/ RepairFailedLate(a)

\* Every step leaves them closed, but for the catch-all's late failure.
LEMMA ClosedStep == TypeInv /\ LifeInv /\ OwnInv /\ LateOpen /\ Next => ClosedKept
  <1> SUFFICES ASSUME TypeInv, LifeInv, OwnInv, LateOpen, Next, Undisturbed,
                      NEW a \in Action, Closed(a)
               PROVE  row'[a] = row[a] \/ RepairFailedLate(a)
    BY DEF ClosedKept
  <1>1. CASE VerbStep \/ OperatorStep \/ SyncStep \/ CoolingOffTick \/ Tick
    BY <1>1, OthersLeaveClosed
  <1>2. CASE FaultStep
    <2>1. CASE Outside
      <3>1. UNCHANGED row \/ \E d \in Drainer : PauseUnreadable(d)
        BY <1>2 DEF FaultStep, Crash, DbError, ApiCrash, dbVars
      <3>2. ASSUME NEW d \in Drainer, PauseUnreadable(d) PROVE row'[a] = row[a]
        <4>1. row[drainer[d].id].status = "draining"
          BY <3>2 DEF PauseUnreadable, OwnInv, ClaimOwnership, Owns, Owning, Undisturbed
        <4> QED BY <3>2, <4>1 DEF PauseUnreadable, Closed, TypeInv, TypeOK
      <3> QED BY <3>1, <3>2
    <2>2. ASSUME NEW d \in Drainer, Inward(d) \/ Leaving(d) PROVE row'[a] = row[a]
      BY <2>2, OwnersLeaveClosed
    <2> QED BY <1>2, <2>1, <2>2, FaultSteps
  <1>3. ASSUME NEW d \in Drainer, DrainStep(d)
        PROVE  row'[a] = row[a] \/ RepairFailedLate(a)
    BY <1>3, DrainSteps, OwnersLeaveClosed, LateWriteClosed
  <1> QED BY <1>1, <1>2, <1>3 DEF Next

\* No replay, mint, ticker, crash or second drainer reopens what was applied or
\* cancelled, with the one exception the property names.
THEOREM ClosedRowsStay == Spec => ClosedIsFinal
  <1>1. TypeInv /\ LifeInv /\ OwnInv /\ LateOpen /\ [Next]_vars => [ClosedKept]_vars
    BY ClosedStep
  <1> QED BY TypeInvariant, LifeInvariant, OwnInvariant, LateInvariant, <1>1, PTL
          DEF Spec, ClosedIsFinal, ClosedKept, Undisturbed
-----------------------------------------------------------------------------
(* The cooling-off window.  Only the ticker ends it, and no later step looks *)
(* at it again: not the drainer, not a replay, not the end of a pause.       *)

CooledOff ==
    \A a \in Action : row[a].type \in SendFamily /\ row[a].status \in Moving =>
        now >= row[a].proposedAt + CoolingOff

CoolInv == CooledOff /\ SendsCoolOff

\* A row that starts to move is no send, or its window is over.
StartsCooled ==
    \A a \in Action :
        /\ row'[a].status \in Moving /\ row[a].status \notin Moving
        /\ row'[a].type \in SendFamily
        => now >= row'[a].proposedAt + CoolingOff

\* Such a step keeps the invariant, if nothing is sent.
LEMMA StartsKeepCool ==
    ASSUME TypeInv, LifeInv, CoolInv, ProposalsKept, StartsCooled,
           UNCHANGED attempts, row' \in [Action -> Row], now' \in Nat, now' >= now
    PROVE  CoolInv'
  <1>1. \A a \in Action : /\ row[a] \in Row /\ row'[a] \in Row
                          /\ row[a].status \in Moving => row[a].status # "absent"
    BY DEF TypeInv, TypeOK, Moving
  <1>2. now \in Nat /\ CoolingOff \in Nat
    BY WindowAssumption DEF TypeInv, TypeOK
  <1>3. \A a \in Action : row[a].proposedAt \in Nat /\ row'[a].proposedAt \in Nat
    BY <1>1 DEF Row
  <1>4. ASSUME NEW a \in Action, row'[a].type \in SendFamily, row'[a].status \in Moving
        PROVE  now' >= row'[a].proposedAt + CoolingOff
    <2>1. CASE row[a].status \in Moving
      <3>1. row'[a].type = row[a].type /\ row'[a].proposedAt = row[a].proposedAt
        BY <1>1, <2>1 DEF ProposalsKept, SameProposal
      <3>2. now >= row[a].proposedAt + CoolingOff
        BY <1>4, <2>1, <3>1 DEF CoolInv, CooledOff
      <3> QED BY <1>2, <1>3, <3>1, <3>2
    <2>2. CASE row[a].status \notin Moving
      <3>1. now >= row'[a].proposedAt + CoolingOff
        BY <1>4, <2>2 DEF StartsCooled
      <3> QED BY <1>2, <1>3, <3>1
    <2> QED BY <2>1, <2>2
  <1>5. ASSUME NEW a \in Action, row'[a].type \in SendFamily, NEW i \in DOMAIN attempts[a]
        PROVE  attempts[a][i] >= row'[a].proposedAt + CoolingOff
    <2>1. attempts[a] # <<>>
      BY <1>5
    <2>2. row[a].status \in Moving
      BY <2>1 DEF LifeInv, RestUntried
    <2>3. row'[a].type = row[a].type /\ row'[a].proposedAt = row[a].proposedAt
      BY <1>1, <2>2 DEF ProposalsKept, SameProposal
    <2> QED BY <1>5, <2>3 DEF CoolInv, SendsCoolOff
  <1> QED BY <1>4, <1>5 DEF CoolInv, CooledOff, SendsCoolOff

\* Drainers and faults write only rows that were moving.
LEMMA DrainMovesOn ==
    ASSUME TypeInv, LifeInv,
           FaultStep \/ \E d \in Drainer : DrainStep(d)
    PROVE  \A a \in Action : row[a].status \notin Moving => row'[a] = row[a]
  <1>1. ASSUME NEW d \in Drainer, drainer[d].pc \in HoldsRow,
               \A b \in Action \ {drainer[d].id} : row'[b] = row[b]
        PROVE  \A a \in Action : row[a].status \notin Moving => row'[a] = row[a]
    BY <1>1 DEF LifeInv, HeldRowsMove
  <1>2. ASSUME UNCHANGED row
        PROVE  \A a \in Action : row[a].status \notin Moving => row'[a] = row[a]
    BY <1>2
  <1>3. ASSUME NEW d \in Drainer, Claim(d)
        PROVE  \A a \in Action : row[a].status \notin Moving => row'[a] = row[a]
    <2>1. PICK x \in drainer[d].batch :
            IF row[x].status = "pending" THEN row' = [row EXCEPT ![x].status = "draining"]
                                         ELSE UNCHANGED row
      BY <1>3 DEF Claim
    <2>2. "pending" \in Moving
      BY DEF Moving
    <2> QED BY <2>1, <2>2 DEF TypeInv, TypeOK
  <1>4. ASSUME NEW d \in Drainer,
               \/ PauseCheck(d) \/ Park(d) \/ MarkApplied(d) \/ MarkFailed(d)
               \/ Recover(d) \/ PauseUnreadable(d)
        PROVE  \A a \in Action : row[a].status \notin Moving => row'[a] = row[a]
    <2>1. drainer[d].pc \in HoldsRow
      BY <1>4 DEF PauseCheck, Park, MarkApplied, MarkFailed, Recover,
                  PauseUnreadable, HoldsRow, Processing
    <2>2. \A b \in Action \ {drainer[d].id} : row'[b] = row[b]
      BY <1>4 DEF PauseCheck, Park, MarkApplied, MarkFailed, Recover,
                  PauseUnreadable, MarkedFailed, TypeInv, TypeOK
    <2> QED BY <1>1, <2>1, <2>2
  <1>5. CASE FaultStep
    BY <1>2, <1>4, <1>5 DEF FaultStep, Crash, DbError, ApiCrash, dbVars
  <1>6. ASSUME NEW d \in Drainer, DrainStep(d)
        PROVE  \A a \in Action : row[a].status \notin Moving => row'[a] = row[a]
    BY <1>2, <1>3, <1>4, <1>6
       DEF DrainStep, TickStart, Select, CheckGrant, CheckTarget, CheckSendCap,
           CapturePreState, InsertHistory, Dispatch, Repair, NotifyFailure, dbVars
  <1> QED BY <1>5, <1>6

\* The dispatch: the row in hand is moving, so its window is over.
LEMMA DispatchKeepsCool ==
    ASSUME TypeInv, LifeInv, CoolInv, NEW d \in Drainer, Dispatch(d)
    PROVE  CoolInv'
  <1> DEFINE a == drainer[d].id
  <1>1. UNCHANGED <<row, now>>
    BY DEF Dispatch, dbVars
  <1>2. a \in Action /\ row[a].status \in Moving
    BY DEF Dispatch, HoldsRow, Processing, TypeInv, DrainerShape, LifeInv, HeldRowsMove
  <1>3. /\ attempts[a] \in Seq(Nat) /\ now \in Nat
        /\ attempts'[a] = Append(attempts[a], now)
        /\ \A b \in Action \ {a} : attempts'[b] = attempts[b]
    BY <1>2 DEF Dispatch, TypeInv, TypeOK
  <1>4. ASSUME NEW b \in Action, row[b].type \in SendFamily, NEW i \in DOMAIN attempts'[b]
        PROVE  attempts'[b][i] >= row[b].proposedAt + CoolingOff
    <2>1. CASE b = a /\ i \in DOMAIN attempts[a]
      <3>1. attempts'[a][i] = attempts[a][i]
        BY <1>3, <2>1
      <3> QED BY <1>4, <2>1, <3>1 DEF CoolInv, SendsCoolOff
    <2>2. CASE b = a /\ i \notin DOMAIN attempts[a]
      <3>1. attempts'[a][i] = now
        BY <1>3, <1>4, <2>2
      <3> QED BY <1>2, <1>4, <2>2, <3>1 DEF CoolInv, CooledOff
    <2>3. CASE b # a
      BY <1>3, <1>4, <2>3 DEF CoolInv, SendsCoolOff
    <2> QED BY <2>1, <2>2, <2>3
  <1>5. CooledOff'
    BY <1>1 DEF CoolInv, CooledOff
  <1>6. SendsCoolOff'
    BY <1>1, <1>4 DEF SendsCoolOff
  <1> QED BY <1>5, <1>6 DEF CoolInv

\* A verb starts no send, the ticker only one that is due, a replay none.
LEMMA OthersStartCooled ==
    ASSUME TypeInv, VerbStep \/ OperatorStep \/ SyncStep \/ CoolingOffTick \/ Tick
    PROVE  StartsCooled
  <1>1. ASSUME NEW a \in Action, NEW t \in Types, NEW e \in Email \cup {NULL},
               NEW f \in Folder \cup {NULL}, Propose(a, t, e, f)
        PROVE  StartsCooled
    <2>1. /\ \A b \in Action \ {a} : row'[b] = row[b]
          /\ row'[a].status = InitialStatus(t) /\ row'[a].type = t
      BY <1>1 DEF Propose, NoRow, TypeInv, TypeOK
    <2>2. t \in SendFamily => InitialStatus(t) \notin Moving
      <3>1. t \in SendFamily => ~(TierOf(t) = 2)
        BY DEF SendFamily, TierOf, Tier1Types, Tier2Types
      <3> QED BY <3>1 DEF InitialStatus, Moving
    <2> QED BY <2>1, <2>2 DEF StartsCooled
  <1>2. ASSUME NEW a \in Action, Cancel(a) PROVE StartsCooled
    <2>1. /\ \A b \in Action \ {a} : row'[b] = row[b]
          /\ row'[a].status = "cancelled"
      BY <1>2 DEF Cancel, TypeInv, TypeOK, Row
    <2> QED BY <2>1 DEF StartsCooled, Moving
  <1>3. ASSUME NEW m \in Minter, MintInsert(m) PROVE StartsCooled
    BY <1>3 DEF MintInsert, StartsCooled, Moving
  <1>4. CASE CoolingOffTick
    <2>1. \A a \in Action : Due(a) => /\ now >= row[a].proposedAt + CoolingOff
                                      /\ row'[a].proposedAt = row[a].proposedAt
      <3>1. \A a \in Action : Due(a) => row'[a].proposedAt = row[a].proposedAt
        BY <1>4 DEF CoolingOffTick, TypeInv, TypeOK, Row
      <3>2. \A a \in Action : /\ row[a].proposedAt \in Nat
                              /\ CoolingOff \in Nat /\ now \in Nat
        BY WindowAssumption DEF TypeInv, TypeOK, Row
      <3> QED BY <3>1, <3>2 DEF Due
    <2>2. \A a \in Action : ~Due(a) => row'[a] = row[a]
      BY <1>4 DEF CoolingOffTick
    <2> QED BY <2>1, <2>2 DEF StartsCooled
  <1>5. ASSUME NEW a \in Action, ReplayReset(a) PROVE StartsCooled
    <2>1. CASE row[a].status = "failed"
      <3>1. \A b \in Action \ {a} : row'[b] = row[b]
        BY <1>5, <2>1 DEF ReplayReset, TypeInv, TypeOK
      <3> QED BY <2>1, <3>1 DEF StartsCooled, Moving
    <2>2. CASE row[a].status # "failed"
      BY <1>5, <2>2 DEF ReplayReset, StartsCooled
    <2> QED BY <2>1, <2>2
  <1>6. ASSUME UNCHANGED row PROVE StartsCooled
    BY <1>6 DEF StartsCooled
  <1>7. CASE VerbStep
    BY <1>1, <1>2, <1>3, <1>6, <1>7
       DEF VerbStep, MintStep, Confirm, MintFind, MintConsume, Revoke, dbVars
  <1>8. CASE OperatorStep \/ SyncStep \/ Tick
    BY <1>5, <1>6, <1>8
       DEF OperatorStep, ReplayCheck, Pause, Unpause, SyncStep, Upsert, SoftDelete,
           Resurrect, Tick, dbVars
  <1> QED BY <1>4, <1>7, <1>8

\* No step but the dispatch adds an attempt; the clock does not go back.
LEMMA ClockGoesOn ==
    ASSUME TypeInv, Next, \A d \in Drainer : ~Dispatch(d)
    PROVE  UNCHANGED attempts /\ now' \in Nat /\ now' >= now
  <1>1. now \in Nat
    BY DEF TypeInv, TypeOK
  <1>2. ASSUME VerbStep \/ OperatorStep \/ SyncStep \/ FaultStep \/ CoolingOffTick
        PROVE  UNCHANGED <<attempts, now>>
    <2>1. ASSUME VerbStep PROVE UNCHANGED <<attempts, now>>
      BY <2>1 DEF VerbStep, Propose, Cancel, Confirm, MintFind, MintStep,
                  MintConsume, MintInsert, Revoke, ghostVars
    <2>2. ASSUME OperatorStep PROVE UNCHANGED <<attempts, now>>
      BY <2>2 DEF OperatorStep, ReplayCheck, ReplayReset, Pause, Unpause, ghostVars
    <2>3. ASSUME SyncStep \/ CoolingOffTick PROVE UNCHANGED <<attempts, now>>
      BY <2>3 DEF SyncStep, Upsert, SoftDelete, Resurrect, CoolingOffTick, ghostVars
    <2>4. ASSUME FaultStep PROVE UNCHANGED <<attempts, now>>
      BY <2>4 DEF FaultStep, Crash, DbError, PauseUnreadable, ApiCrash, ghostVars
    <2> QED BY <1>2, <2>1, <2>2, <2>3, <2>4
  <1>3. CASE Tick
    BY <1>1, <1>3 DEF Tick, ghostVars
  <1>4. ASSUME NEW d \in Drainer, DrainStep(d)
        PROVE  UNCHANGED <<attempts, now>>
    BY <1>4 DEF DrainStep, TickStart, Select, Claim, PauseCheck, CheckGrant, Park,
           CheckTarget, CheckSendCap, CapturePreState, InsertHistory, MarkApplied,
           Repair, MarkFailed, NotifyFailure, Recover, ghostVars
  <1> QED BY <1>1, <1>2, <1>3, <1>4 DEF Next

\* No send goes out before its window is over, whichever of ticker, cancel,
\* pause, crash, replay and further drainers touched the row in between.
THEOREM SendsAreCooled == Spec => []SendsCoolOff
  <1>1. Init => CoolInv
    BY DEF Init, CoolInv, CooledOff, SendsCoolOff, NoRow, Moving
  <1>2. TypeInv /\ TypeInv' /\ LifeInv /\ CoolInv /\ [Next]_vars => CoolInv'
    <2> SUFFICES ASSUME TypeInv, TypeInv', LifeInv, CoolInv, [Next]_vars PROVE CoolInv'
      OBVIOUS
    <2>1. CASE UNCHANGED vars
      BY <2>1 DEF vars, dbVars, ghostVars, CoolInv, CooledOff, SendsCoolOff
    <2>2. ASSUME NEW d \in Drainer, Dispatch(d) PROVE CoolInv'
      BY <2>2, DispatchKeepsCool
    <2>3. ASSUME Next, \A d \in Drainer : ~Dispatch(d) PROVE CoolInv'
      <3>1. /\ UNCHANGED attempts /\ now' \in Nat /\ now' >= now
            /\ row' \in [Action -> Row]
        BY <2>3, ClockGoesOn DEF TypeInv, TypeOK
      <3>2. CASE VerbStep \/ OperatorStep \/ SyncStep \/ CoolingOffTick \/ Tick
        BY <3>1, <3>2, VerbRows, OtherRows, OthersStartCooled, StartsKeepCool
      <3>3. CASE FaultStep \/ \E d \in Drainer : DrainStep(d)
        <4>1. ProposalsKept
          BY <3>3, FaultRows, DrainRows, AppliedRows
        <4>2. StartsCooled
          BY <3>3, DrainMovesOn DEF StartsCooled
        <4> QED BY <3>1, <4>1, <4>2, StartsKeepCool
      <3> QED BY <2>3, <3>2, <3>3 DEF Next
    <2> QED BY <2>1, <2>2, <2>3
  <1>3. CoolInv => SendsCoolOff
    BY DEF CoolInv
  <1> QED BY TypeInvariant, LifeInvariant, <1>1, <1>2, <1>3, PTL DEF Spec
-----------------------------------------------------------------------------
(* The notice of a failure.  It is sent after the terminal write, by the    *)
(* drainer that made it; the failure and the notice can only be parted by a *)
(* fault.                                                                   *)

\* No row becomes failed, and a failed row stays as it is or is reset.
NoneFails == \A a \in Action : row'[a].status = "failed" => row'[a] = row[a]

\* Whoever is about to send a notice still is, or has sent it.
NoticesGoOut ==
    /\ notified \subseteq notified'
    /\ \A d \in Drainer : drainer[d].pc = "notify" =>
           drainer'[d] = drainer[d] \/ drainer[d].id \in notified'

\* Such a step keeps the invariant.
LEMMA NoticesKept ==
    ASSUME FailureAnnounced, NoneFails, NoticesGoOut, faults > 0 => faults' > 0
    PROVE  FailureAnnounced'
  <1>1. ASSUME NEW a \in Action, row'[a].status = "failed", RequiresGrant(row'[a].type)
        PROVE  \/ a \in notified'
               \/ row'[a].failure = "drainer_internal_error"
               \/ \E d \in Drainer : drainer'[d].pc = "notify" /\ drainer'[d].id = a
               \/ faults' > 0
    <2>1. row'[a] = row[a]
      BY <1>1 DEF NoneFails
    <2>2. \/ a \in notified
          \/ row[a].failure = "drainer_internal_error"
          \/ \E d \in Drainer : drainer[d].pc = "notify" /\ drainer[d].id = a
          \/ faults > 0
      BY <1>1, <2>1 DEF FailureAnnounced
    <2> QED BY <2>1, <2>2 DEF NoticesGoOut
  <1> QED BY <1>1 DEF FailureAnnounced

\* A step that writes one row, and does not fail it, fails none.
LEMMA WriteFailsNone ==
    ASSUME NEW a \in Action, \A b \in Action \ {a} : row'[b] = row[b],
           row'[a].status # "failed"
    PROVE  NoneFails
  BY DEF NoneFails

\* Verbs, operator, sync, ticker and clock fail no row.
LEMMA OthersFailNone ==
    ASSUME TypeInv, VerbStep \/ OperatorStep \/ SyncStep \/ CoolingOffTick \/ Tick
    PROVE  NoneFails
  <1>1. ASSUME NEW a \in Action, NEW t \in Types, NEW e \in Email \cup {NULL},
               NEW f \in Folder \cup {NULL}, Propose(a, t, e, f)
        PROVE  NoneFails
    <2>1. /\ \A b \in Action \ {a} : row'[b] = row[b]
          /\ row'[a].status = InitialStatus(t)
      BY <1>1 DEF Propose, NoRow, TypeInv, TypeOK
    <2>2. InitialStatus(t) # "failed"
      BY DEF InitialStatus
    <2> QED BY <2>1, <2>2, WriteFailsNone
  <1>2. ASSUME NEW a \in Action, Cancel(a) PROVE NoneFails
    <2>1. /\ \A b \in Action \ {a} : row'[b] = row[b]
          /\ row'[a].status = "cancelled"
      BY <1>2 DEF Cancel, TypeInv, TypeOK, Row
    <2> QED BY <2>1, WriteFailsNone
  <1>3. ASSUME NEW m \in Minter, MintInsert(m) PROVE NoneFails
    BY <1>3 DEF MintInsert, NoneFails, TypeInv, TypeOK, Row
  <1>4. ASSUME CoolingOffTick PROVE NoneFails
    BY <1>4 DEF CoolingOffTick, NoneFails, TypeInv, TypeOK, Row
  <1>5. ASSUME NEW a \in Action, ReplayReset(a) PROVE NoneFails
    <2>1. CASE row[a].status = "failed"
      <3>1. /\ \A b \in Action \ {a} : row'[b] = row[b]
            /\ row'[a].status = "pending"
        BY <1>5, <2>1 DEF ReplayReset, TypeInv, TypeOK, Row
      <3> QED BY <3>1, WriteFailsNone
    <2>2. CASE row[a].status # "failed"
      BY <1>5, <2>2 DEF ReplayReset, NoneFails
    <2> QED BY <2>1, <2>2
  <1>6. ASSUME UNCHANGED row PROVE NoneFails
    BY <1>6 DEF NoneFails
  <1>7. CASE VerbStep
    BY <1>1, <1>2, <1>3, <1>6, <1>7
       DEF VerbStep, MintStep, Confirm, MintFind, MintConsume, Revoke, dbVars
  <1>8. CASE OperatorStep \/ SyncStep \/ Tick
    BY <1>5, <1>6, <1>8
       DEF OperatorStep, ReplayCheck, Pause, Unpause, SyncStep, Upsert, SoftDelete,
           Resurrect, Tick, dbVars
  <1> QED BY <1>4, <1>7, <1>8

\* They leave drainers and notices alone, and the count of faults.
LEMMA OthersKeepNotices ==
    ASSUME VerbStep \/ OperatorStep \/ SyncStep \/ CoolingOffTick \/ Tick
    PROVE  UNCHANGED <<drainer, notified, faults>>
  <1>1. ASSUME VerbStep PROVE UNCHANGED <<drainer, notified, faults>>
    BY <1>1 DEF VerbStep, Propose, Cancel, Confirm, MintFind, MintStep, MintConsume,
                MintInsert, Revoke, ghostVars, dbVars
  <1>2. ASSUME OperatorStep PROVE UNCHANGED <<drainer, notified, faults>>
    BY <1>2 DEF OperatorStep, ReplayCheck, ReplayReset, Pause, Unpause, ghostVars, dbVars
  <1>3. ASSUME SyncStep \/ CoolingOffTick \/ Tick
        PROVE  UNCHANGED <<drainer, notified, faults>>
    BY <1>3 DEF SyncStep, Upsert, SoftDelete, Resurrect, CoolingOffTick, Tick,
                ghostVars, dbVars
  <1> QED BY <1>1, <1>2, <1>3

\* The steps of a drainer that have nothing to do with a notice.
LEMMA DrainKeepsNotices ==
    ASSUME TypeInv, NEW d \in Drainer, DrainStep(d),
           ~MarkFailed(d), ~NotifyFailure(d), ~Recover(d)
    PROVE  NoneFails /\ NoticesGoOut /\ UNCHANGED faults
  <1>1. UNCHANGED <<notified, faults>> /\ drainer[d].pc # "notify"
    BY DEF DrainStep, TickStart, Select, Claim, PauseCheck, CheckGrant, Park,
           CheckTarget, CheckSendCap, CapturePreState, InsertHistory, Dispatch,
           MarkApplied, Repair, ghostVars, dbVars
  <1>2. \A c \in Drainer \ {d} : drainer'[c] = drainer[c]
    BY DEF DrainStep, TickStart, Select, Claim, PauseCheck, CheckGrant, Park,
           CheckTarget, CheckSendCap, CapturePreState, InsertHistory, Dispatch,
           MarkApplied, Repair, Goto, Fail, Resume, TypeInv, TypeOK
  <1>3. NoticesGoOut
    BY <1>1, <1>2 DEF NoticesGoOut
  <1>4. CASE Claim(d)
    <2>1. PICK x \in drainer[d].batch :
            IF row[x].status = "pending" THEN row' = [row EXCEPT ![x].status = "draining"]
                                         ELSE UNCHANGED row
      BY <1>4 DEF Claim
    <2>2. NoneFails
      BY <2>1 DEF NoneFails, TypeInv, TypeOK, Row
    <2> QED BY <1>1, <1>3, <2>2
  <1>5. CASE PauseCheck(d) \/ Park(d) \/ MarkApplied(d)
    <2>1. drainer[d].id \in Action
      BY <1>5 DEF PauseCheck, Park, MarkApplied, HoldsRow, Processing,
                  TypeInv, DrainerShape
    <2>2. CASE PauseCheck(d)
      BY <1>1, <1>3, <2>1, <2>2 DEF PauseCheck, NoneFails, TypeInv, TypeOK, Row
    <2>3. CASE Park(d)
      BY <1>1, <1>3, <2>1, <2>3 DEF Park, NoneFails, TypeInv, TypeOK, Row
    <2>4. CASE MarkApplied(d)
      <3>1. /\ \A b \in Action \ {drainer[d].id} : row'[b] = row[b]
            /\ row'[drainer[d].id].status = "applied"
        BY <2>1, <2>4 DEF MarkApplied, TypeInv, TypeOK, Row
      <3> QED BY <1>1, <1>3, <2>1, <3>1, WriteFailsNone
    <2> QED BY <1>5, <2>2, <2>3, <2>4
  <1>6. CASE UNCHANGED row
    BY <1>1, <1>3, <1>6 DEF NoneFails
  <1> QED BY <1>4, <1>5, <1>6
          DEF DrainStep, TickStart, Select, CheckGrant, CheckTarget, CheckSendCap,
              CapturePreState, InsertHistory, Dispatch, Repair, dbVars

\* The drainer that fails a row for cause goes on to announce it.
LEMMA MarkFailedAnnounces ==
    ASSUME TypeInv, FailureAnnounced, NEW d \in Drainer, MarkFailed(d)
    PROVE  FailureAnnounced'
  <1> DEFINE a == drainer[d].id
  <1>1. a \in Action /\ drainer[d].pc = "fail" /\ UNCHANGED <<notified, faults>>
    BY DEF MarkFailed, HoldsRow, Processing, TypeInv, DrainerShape, ghostVars
  <1>2. /\ \A b \in Action \ {a} : row'[b] = row[b]
        /\ row'[a].type = row[a].type
    BY <1>1 DEF MarkFailed, MarkedFailed, TypeInv, TypeOK, Row
  <1>3. \A c \in Drainer \ {d} : drainer'[c] = drainer[c]
    BY DEF MarkFailed, Goto, Resume, TypeInv, TypeOK
  <1>4. RequiresGrant(row'[a].type) => drainer'[d].pc = "notify" /\ drainer'[d].id = a
    <2>1. CASE TierOf(row[a].type) = 1
      BY <1>2, <2>1 DEF RequiresGrant
    <2>2. CASE TierOf(row[a].type) # 1
      BY <2>2, GotoOwn DEF MarkFailed
    <2> QED BY <2>1, <2>2
  <1>5. ASSUME NEW b \in Action, row'[b].status = "failed", RequiresGrant(row'[b].type)
        PROVE  \/ b \in notified'
               \/ row'[b].failure = "drainer_internal_error"
               \/ \E c \in Drainer : drainer'[c].pc = "notify" /\ drainer'[c].id = b
               \/ faults' > 0
    <2>1. CASE b = a
      BY <1>4, <1>5, <2>1
    <2>2. CASE b # a
      <3>1. row'[b] = row[b]
        BY <1>2, <2>2
      <3>2. \/ b \in notified
            \/ row[b].failure = "drainer_internal_error"
            \/ \E c \in Drainer : drainer[c].pc = "notify" /\ drainer[c].id = b
            \/ faults > 0
        BY <1>5, <3>1 DEF FailureAnnounced
      <3> QED BY <1>1, <1>3, <3>1, <3>2
    <2> QED BY <2>1, <2>2
  <1> QED BY <1>5 DEF FailureAnnounced

\* The catch-all fails it without a notice, under its own name.
LEMMA RecoverAnnounces ==
    ASSUME TypeInv, FailureAnnounced, NEW d \in Drainer, Recover(d)
    PROVE  FailureAnnounced'
  <1> DEFINE a == drainer[d].id
  <1>1. a \in Action /\ drainer[d].pc # "notify" /\ UNCHANGED <<notified, faults>>
    BY DEF Recover, HoldsRow, TypeInv, DrainerShape, ghostVars
  <1>2. /\ \A b \in Action \ {a} : row'[b] = row[b]
        /\ row'[a].failure = "drainer_internal_error"
    BY <1>1 DEF Recover, MarkedFailed, TypeInv, TypeOK, Row
  <1>3. \A c \in Drainer \ {d} : drainer'[c] = drainer[c]
    BY DEF Recover, Resume, TypeInv, TypeOK
  <1>4. ASSUME NEW b \in Action, row'[b].status = "failed", RequiresGrant(row'[b].type)
        PROVE  \/ b \in notified'
               \/ row'[b].failure = "drainer_internal_error"
               \/ \E c \in Drainer : drainer'[c].pc = "notify" /\ drainer'[c].id = b
               \/ faults' > 0
    <2>1. CASE b = a
      BY <1>2, <2>1
    <2>2. CASE b # a
      <3>1. row'[b] = row[b]
        BY <1>2, <2>2
      <3>2. \/ b \in notified
            \/ row[b].failure = "drainer_internal_error"
            \/ \E c \in Drainer : drainer[c].pc = "notify" /\ drainer[c].id = b
            \/ faults > 0
        BY <1>4, <3>1 DEF FailureAnnounced
      <3> QED BY <1>1, <1>3, <3>1, <3>2
    <2> QED BY <2>1, <2>2
  <1> QED BY <1>4 DEF FailureAnnounced

\* Without a fault, no Tier-2/3 row fails in silence but by the catch-all.
THEOREM FailuresAreAnnounced == Spec => []FailureAnnounced
  <1>1. Init => FailureAnnounced
    BY DEF Init, FailureAnnounced, NoRow
  <1>2. TypeInv /\ FailureAnnounced /\ [Next]_vars => FailureAnnounced'
    <2> SUFFICES ASSUME TypeInv, FailureAnnounced, [Next]_vars PROVE FailureAnnounced'
      OBVIOUS
    <2>1. CASE UNCHANGED vars
      BY <2>1 DEF vars, dbVars, ghostVars, FailureAnnounced
    <2>2. CASE VerbStep \/ OperatorStep \/ SyncStep \/ CoolingOffTick \/ Tick
      BY <2>2, OthersFailNone, OthersKeepNotices, NoticesKept DEF NoticesGoOut
    <2>3. CASE FaultStep
      <3>1. faults \in Nat /\ faults' = faults + 1
        BY <2>3 DEF FaultStep, Crash, DbError, PauseUnreadable, ApiCrash, TypeInv, TypeOK
      <3>2. faults' > 0
        BY <3>1
      <3> QED BY <3>2 DEF FailureAnnounced
    <2>4. ASSUME NEW d \in Drainer, DrainStep(d) PROVE FailureAnnounced'
      <3>1. CASE NotifyFailure(d)
        <4>1. UNCHANGED <<row, faults>> /\ notified' = notified \cup {drainer[d].id}
          BY <3>1 DEF NotifyFailure, ghostVars
        <4>2. \A c \in Drainer \ {d} : drainer'[c] = drainer[c]
          BY <3>1 DEF NotifyFailure, Resume, TypeInv, TypeOK
        <4>3. NoneFails /\ NoticesGoOut
          BY <4>1, <4>2 DEF NoneFails, NoticesGoOut
        <4> QED BY <4>1, <4>3, NoticesKept
      <3>2. CASE MarkFailed(d) \/ Recover(d)
        BY <3>2, MarkFailedAnnounces, RecoverAnnounces
      <3>3. CASE ~MarkFailed(d) /\ ~NotifyFailure(d) /\ ~Recover(d)
        BY <2>4, <3>3, DrainKeepsNotices, NoticesKept
      <3> QED BY <3>1, <3>2, <3>3
    <2> QED BY <2>1, <2>2, <2>3, <2>4 DEF Next
  <1> QED BY TypeInvariant, <1>1, <1>2, PTL DEF Spec
-----------------------------------------------------------------------------
(* The daily cap.  It is a count of closed rows; what the count misses is   *)
(* in the hands of a drainer, or was lost to a fault or taken out by a      *)
(* replay.                                                                  *)

SentToday(a) ==
    /\ row[a].type \in SendFamily
    /\ \E i \in DOMAIN attempts[a] : Day(attempts[a][i]) = Day(now)

CountedToday(a) ==
    /\ row[a].budget /\ row[a].type \in SendFamily
    /\ row[a].terminalAt # NULL /\ Day(row[a].terminalAt) = Day(now)

Sent    == {a \in Action : SentToday(a)}
Counted == {a \in Action : CountedToday(a)}

\* Drainers whose next step or two enter their row in the count.
Finishing == {d \in Drainer : drainer[d].pc \in {"applied", "fail", "error"}}

\* Sends of today that nobody will enter.
Strays == {a \in Sent \ Counted : \A d \in Finishing : drainer[d].id # a}

OnSend(d) == row[drainer[d].id].type \in SendFamily

Clearing == {"record", "dispatch"}

\* Drainers that have passed the cap and not yet sent.
Cleared == {d \in Drainer : drainer[d].pc \in Clearing /\ OnSend(d)}

AttemptsPast == \A a \in Action : \A i \in DOMAIN attempts[a] : attempts[a][i] <= now

Slack == faults + replays

CapInv ==
    /\ Cardinality(Strays) <= Slack
    /\ Cardinality(Sent) + Cardinality(Cleared)
            <= DailySendCap + (Cardinality(Drainer) - 1) + Slack
    /\ \A d \in Drainer : drainer[d].pc = "capture" => ~OnSend(d)
    /\ AttemptsPast

\* All of these are counts.
LEMMA CapCounts ==
    /\ IsFiniteSet(Sent) /\ Cardinality(Sent) \in Nat
    /\ IsFiniteSet(Counted) /\ Cardinality(Counted) \in Nat
    /\ IsFiniteSet(Strays) /\ Cardinality(Strays) \in Nat
    /\ IsFiniteSet(Cleared) /\ Cardinality(Cleared) \in Nat
    /\ IsFiniteSet(Finishing) /\ Cardinality(Finishing) \in Nat
    /\ Cardinality(Cleared) <= Cardinality(Drainer)
    /\ Cardinality(Drainer) \in Nat /\ DailySendCap \in Nat \ {0}
  <1>1. Sent \subseteq Action /\ Counted \subseteq Action /\ Strays \subseteq Action
    BY DEF Sent, Counted, Strays
  <1>2. Cleared \subseteq Drainer /\ Finishing \subseteq Drainer
    BY DEF Cleared, Finishing
  <1>3. \A T \in SUBSET Action : IsFiniteSet(T) /\ Cardinality(T) \in Nat
    BY CountAssumption, FS_Subset, FS_CardinalityType
  <1>4. \A T \in SUBSET Drainer : /\ IsFiniteSet(T) /\ Cardinality(T) \in Nat
                                  /\ Cardinality(T) <= Cardinality(Drainer)
    BY CountAssumption, FS_Subset, FS_CardinalityType
  <1>5. Cardinality(Drainer) \in Nat /\ DailySendCap \in Nat \ {0}
    BY CountAssumption, WindowAssumption, FS_CardinalityType
  <1> QED BY <1>1, <1>2, <1>3, <1>4, <1>5

\* They are after a step, too.
LEMMA CapCountsAfter ==
    /\ IsFiniteSet(Sent') /\ Cardinality(Sent') \in Nat
    /\ IsFiniteSet(Strays') /\ Cardinality(Strays') \in Nat
    /\ IsFiniteSet(Cleared') /\ Cardinality(Cleared') \in Nat
    /\ Cardinality(Cleared') <= Cardinality(Drainer)
  <1>1. Sent' \subseteq Action /\ Strays' \subseteq Action /\ Cleared' \subseteq Drainer
    BY DEF Sent, Strays, Cleared
  <1>2. \A T \in SUBSET Action : IsFiniteSet(T) /\ Cardinality(T) \in Nat
    BY CountAssumption, FS_Subset, FS_CardinalityType
  <1>3. \A T \in SUBSET Drainer : /\ IsFiniteSet(T) /\ Cardinality(T) \in Nat
                                  /\ Cardinality(T) <= Cardinality(Drainer)
    BY CountAssumption, FS_Subset, FS_CardinalityType
  <1> QED BY <1>1, <1>2, <1>3

\* A part of a finite set and one element more.
LEMMA OneMore ==
    ASSUME NEW S, NEW T, NEW x, IsFiniteSet(S), T \subseteq S \cup {x}
    PROVE  Cardinality(T) <= Cardinality(S) + 1 /\ Cardinality(T) \in Nat
  <1>1. /\ IsFiniteSet(S \cup {x}) /\ Cardinality(S) \in Nat
        /\ Cardinality(S \cup {x}) \in {Cardinality(S), Cardinality(S) + 1}
    BY FS_AddElement, FS_CardinalityType
  <1>2. IsFiniteSet(T) /\ Cardinality(T) <= Cardinality(S \cup {x}) /\ Cardinality(T) \in Nat
    BY <1>1, FS_Subset, FS_CardinalityType
  <1> QED BY <1>1, <1>2

\* The drainers that hold a row to be entered are at least as many as the rows.
LEMMA FinishersCover ==
    ASSUME NEW T, T \subseteq {drainer[d].id : d \in Finishing}
    PROVE  IsFiniteSet(T) /\ Cardinality(T) <= Cardinality(Finishing)
  <1> DEFINE I == {drainer[d].id : d \in Finishing}
  <1> DEFINE f == [d \in Finishing |-> drainer[d].id]
  <1>1. f \in Surjection(Finishing, I)
    BY DEF Surjection
  <1>2. IsFiniteSet(I) /\ Cardinality(I) <= Cardinality(Finishing)
    BY <1>1, CapCounts, FS_Surjection
  <1>3. /\ IsFiniteSet(T) /\ Cardinality(T) <= Cardinality(I)
        /\ Cardinality(T) \in Nat /\ Cardinality(I) \in Nat
    BY <1>2, FS_Subset, FS_CardinalityType
  <1> QED BY <1>2, <1>3, CapCounts

\* What was sent today is counted, a stray, or in hand.
LEMMA SentBound ==
    Cardinality(Sent) <= Cardinality(Counted) + Cardinality(Strays) + Cardinality(Finishing)
  <1> DEFINE H == {a \in Sent \ Counted : a \notin Strays}
  <1>1. H \subseteq {drainer[d].id : d \in Finishing}
    BY DEF Strays
  <1>2. IsFiniteSet(H) /\ Cardinality(H) <= Cardinality(Finishing) /\ Cardinality(H) \in Nat
    BY <1>1, FinishersCover, FS_CardinalityType
  <1>3. Sent \subseteq Counted \cup (Strays \cup H)
    OBVIOUS
  <1> HIDE DEF H
  <1>4. /\ IsFiniteSet(Strays \cup H)
        /\ Cardinality(Strays \cup H) = Cardinality(Strays) + Cardinality(H)
                                            - Cardinality(Strays \cap H)
        /\ Cardinality(Strays \cap H) \in Nat /\ Cardinality(Strays \cup H) \in Nat
    BY <1>2, CapCounts, FS_Union, FS_Subset, FS_CardinalityType
  <1>5. /\ IsFiniteSet(Counted \cup (Strays \cup H))
        /\ Cardinality(Counted \cup (Strays \cup H))
              = Cardinality(Counted) + Cardinality(Strays \cup H)
                    - Cardinality(Counted \cap (Strays \cup H))
        /\ Cardinality(Counted \cap (Strays \cup H)) \in Nat
    BY <1>4, CapCounts, FS_Union, FS_Subset, FS_CardinalityType
  <1>6. Cardinality(Sent) <= Cardinality(Counted \cup (Strays \cup H))
    BY <1>3, <1>5, FS_Subset
  <1> QED BY <1>2, <1>4, <1>5, <1>6, CapCounts

\* What a step does to the columns that the count reads.
Books(a) == row'[a].budget = row[a].budget /\ row'[a].terminalAt = row[a].terminalAt

Enters(a) ==
    /\ row'[a].terminalAt # NULL /\ Day(row'[a].terminalAt) = Day(now)
    /\ row[a].type \in SendFamily => row'[a].budget

\* But for the rows of X, none drops out of the count or of a drainer's hands.
BooksKept(X) ==
    /\ \A a \in Action \ X : row[a].status \in Moving => Books(a) \/ Enters(a)
    /\ \A d \in Finishing :
            \/ d \in Finishing' /\ drainer'[d].id = drainer[d].id
            \/ Enters(drainer[d].id)
            \/ drainer[d].id \in X

\* No send gets past the cap.
NoneClears ==
    \A d \in Drainer :
        /\ drainer'[d].pc \in Clearing =>
                /\ drainer[d].pc \in HoldsRow /\ drainer'[d].id = drainer[d].id
                /\ drainer[d].pc \in Clearing \/ ~OnSend(d)
        /\ drainer'[d].pc = "capture" =>
                /\ drainer[d].pc \in HoldsRow /\ drainer'[d].id = drainer[d].id
                /\ drainer[d].pc = "capture" \/ ~OnSend(d)

\* A row keeps its type while a drainer has it in hand and after it was sent.
LEMMA SendStays ==
    ASSUME TypeInv, LifeInv, ProposalsKept
    PROVE  /\ \A d \in Drainer : drainer[d].pc \in HoldsRow =>
                row'[drainer[d].id].type = row[drainer[d].id].type
           /\ \A a \in Action : attempts[a] # <<>> =>
                row'[a].type = row[a].type /\ row[a].status \in Moving
  <1>1. \A d \in Drainer : drainer[d].pc \in HoldsRow =>
            drainer[d].id \in Action /\ row[drainer[d].id].status # "absent"
    BY HeldRowsExist
  <1>2. \A a \in Action : attempts[a] # <<>> =>
            row[a].status \in Moving /\ row[a].status # "absent"
    BY DEF LifeInv, RestUntried, Moving
  <1> QED BY <1>1, <1>2 DEF ProposalsKept, SameProposal

\* What such a step leaves of the three sets.
LEMMA CapSets ==
    ASSUME TypeInv, LifeInv, CapInv, ProposalsKept, UNCHANGED attempts,
           Day(now') = Day(now), NEW X \in SUBSET Action, BooksKept(X), NoneClears
    PROVE  /\ Sent' \subseteq Sent /\ Cleared' \subseteq Cleared
           /\ Strays' \subseteq Strays \cup X
           /\ \A d \in Drainer : drainer'[d].pc = "capture" => ~OnSend(d)'
  <1>1. ASSUME NEW a \in Action, SentToday(a)' PROVE SentToday(a) /\ row[a].status \in Moving
    <2>1. attempts[a] # <<>>
      BY <1>1 DEF SentToday
    <2> QED BY <1>1, <2>1, SendStays DEF SentToday
  <1>2. Sent' \subseteq Sent
    BY <1>1 DEF Sent
  <1>3. /\ Cleared' \subseteq Cleared
        /\ \A d \in Drainer : drainer'[d].pc = "capture" => ~OnSend(d)'
    BY SendStays DEF NoneClears, Cleared, OnSend, CapInv
  <1>4. ASSUME NEW a \in Strays', a \notin X PROVE a \in Strays
    <2>1. /\ a \in Action /\ SentToday(a)' /\ ~CountedToday(a)'
          /\ \A d \in Finishing' : drainer'[d].id # a
      BY DEF Strays, Sent, Counted
    <2>2. SentToday(a) /\ row[a].status \in Moving /\ row'[a].type \in SendFamily
      BY <1>1, <2>1 DEF SentToday
    <2>3. row[a].type \in SendFamily
      BY <2>2 DEF SentToday
    <2>4. ~Enters(a)
      BY <2>1, <2>2, <2>3 DEF Enters, CountedToday
    <2>5. ~CountedToday(a)
      BY <1>4, <2>1, <2>2, <2>4 DEF BooksKept, Books, CountedToday
    <2>6. \A d \in Finishing : drainer[d].id # a
      BY <1>4, <2>1, <2>4 DEF BooksKept
    <2> QED BY <2>1, <2>2, <2>5, <2>6 DEF Strays, Sent, Counted
  <1> QED BY <1>2, <1>3, <1>4

\* Attempts lie in the past.
LEMMA PastStays ==
    ASSUME TypeInv, AttemptsPast, UNCHANGED attempts, now' \in Nat, now' >= now
    PROVE  AttemptsPast'
  <1>1. \A a \in Action : attempts[a] \in Seq(Nat)
    BY DEF TypeInv, TypeOK
  <1>2. \A a \in Action : \A i \in DOMAIN attempts[a] : attempts[a][i] \in Nat
    BY <1>1
  <1> QED BY <1>2 DEF AttemptsPast, TypeInv, TypeOK

\* A step that loses no row keeps the invariant.
LEMMA KeepsCap ==
    ASSUME TypeInv, LifeInv, CapInv, ProposalsKept, UNCHANGED attempts,
           Day(now') = Day(now), now' \in Nat, now' >= now,
           BooksKept({}), NoneClears, Slack' \in Nat, Slack' >= Slack
    PROVE  CapInv'
  <1>1. /\ Sent' \subseteq Sent /\ Cleared' \subseteq Cleared /\ Strays' \subseteq Strays
        /\ \A d \in Drainer : drainer'[d].pc = "capture" => ~OnSend(d)'
    BY CapSets
  <1>2. /\ Cardinality(Sent') <= Cardinality(Sent)
        /\ Cardinality(Cleared') <= Cardinality(Cleared)
        /\ Cardinality(Strays') <= Cardinality(Strays)
    BY <1>1, CapCounts, FS_Subset
  <1>3. Slack \in Nat
    BY DEF Slack, TypeInv, TypeOK
  <1>4. AttemptsPast'
    BY PastStays DEF CapInv
  <1>5. /\ Cardinality(Strays) <= Slack
        /\ Cardinality(Sent) + Cardinality(Cleared)
                <= DailySendCap + (Cardinality(Drainer) - 1) + Slack
    BY DEF CapInv
  <1> QED BY <1>1, <1>2, <1>3, <1>4, <1>5, CapCounts, CapCountsAfter DEF CapInv

\* So does one that loses a row to a fault or a replay.
LEMMA LosesOne ==
    ASSUME TypeInv, LifeInv, CapInv, ProposalsKept, UNCHANGED <<attempts, now>>,
           NEW x \in Action, BooksKept({x}), NoneClears, Slack' = Slack + 1
    PROVE  CapInv'
  <1>1. /\ Sent' \subseteq Sent /\ Cleared' \subseteq Cleared
        /\ Strays' \subseteq Strays \cup {x}
        /\ \A d \in Drainer : drainer'[d].pc = "capture" => ~OnSend(d)'
    BY CapSets
  <1>2. /\ Cardinality(Sent') <= Cardinality(Sent)
        /\ Cardinality(Cleared') <= Cardinality(Cleared)
    BY <1>1, CapCounts, FS_Subset
  <1>3. Cardinality(Strays') <= Cardinality(Strays) + 1
    BY <1>1, CapCounts, OneMore
  <1>4. Slack \in Nat
    BY DEF Slack, TypeInv, TypeOK
  <1>5. now \in Nat
    BY DEF TypeInv, TypeOK
  <1>6. AttemptsPast'
    BY <1>5, PastStays DEF CapInv
  <1>7. /\ Cardinality(Strays) <= Slack
        /\ Cardinality(Sent) + Cardinality(Cleared)
                <= DailySendCap + (Cardinality(Drainer) - 1) + Slack
    BY DEF CapInv
  <1> QED BY <1>1, <1>2, <1>3, <1>4, <1>6, <1>7, CapCounts, CapCountsAfter DEF CapInv

\* Days go by in order.
LEMMA DaysInOrder ==
    ASSUME NEW s \in Nat, NEW t \in Nat, s <= t
    PROVE  Day(s) \in Nat /\ Day(t) \in Nat /\ Day(s) <= Day(t)
  <1>1. DayLength \in Nat \ {0}
    BY WindowAssumption
  <1> QED BY <1>1 DEF Day

\* A new day starts with nothing sent; what has passed the cap may still go.
LEMMA TickKeepsCap ==
    ASSUME TypeInv, LifeInv, CapInv, Tick
    PROVE  CapInv'
  <1>1. /\ now \in Nat /\ now' = now + 1 /\ Slack' = Slack /\ Slack \in Nat
        /\ UNCHANGED <<row, attempts, drainer>>
    BY DEF Tick, TypeInv, TypeOK, Slack, dbVars, ghostVars
  <1>2. CASE Day(now') = Day(now)
    <2>1. BooksKept({}) /\ ProposalsKept
      BY <1>1, RowsStay DEF BooksKept, Books, Finishing
    <2>2. NoneClears
      BY <1>1 DEF NoneClears, Clearing, HoldsRow, Processing
    <2> QED BY <1>1, <1>2, <2>1, <2>2, KeepsCap
  <1>3. CASE Day(now') # Day(now)
    <2>1. Day(now) \in Nat /\ Day(now') \in Nat /\ Day(now) < Day(now')
      BY <1>1, <1>3, DaysInOrder
    <2>2. ASSUME NEW a \in Action, NEW i \in DOMAIN attempts[a]
          PROVE  Day(attempts[a][i]) # Day(now')
      <3>1. attempts[a][i] \in Nat /\ attempts[a][i] <= now
        BY DEF CapInv, AttemptsPast, TypeInv, TypeOK
      <3>2. Day(attempts[a][i]) \in Nat /\ Day(attempts[a][i]) <= Day(now)
        BY <1>1, <3>1, DaysInOrder
      <3> QED BY <2>1, <3>2
    <2>3. Sent' = {} /\ Strays' = {}
      BY <1>1, <2>2 DEF Sent, SentToday, Strays
    <2>4. Cardinality(Sent') = 0 /\ Cardinality(Strays') = 0
      BY <2>3, FS_EmptySet
    <2>5. AttemptsPast'
      BY <1>1, PastStays DEF CapInv
    <2>6. \A d \in Drainer : drainer'[d].pc = "capture" => ~OnSend(d)'
      BY <1>1 DEF CapInv, OnSend
    <2> QED BY <1>1, <2>4, <2>5, <2>6, CapCounts, CapCountsAfter DEF CapInv
  <1> QED BY <1>2, <1>3

\* Who passes the cap has counted less than it; what was sent and not counted
\* is a stray or with another drainer, and so is what was cleared.
LEMMA CheckKeepsCap ==
    ASSUME TypeInv, LifeInv, CapInv, NEW d \in Drainer, CheckSendCap(d)
    PROVE  CapInv'
  <1>1. UNCHANGED <<row, attempts, now>> /\ Slack' = Slack /\ Slack \in Nat
    BY DEF CheckSendCap, dbVars, ghostVars, Slack, TypeInv, TypeOK
  <1>2. ProposalsKept
    BY <1>1, RowsStay
  <1>3. \A c \in Drainer \ {d} : drainer'[c] = drainer[c]
    BY GotoOwn, FailOwn DEF CheckSendCap
  <1>4. BooksKept({})
    BY <1>1, <1>3 DEF BooksKept, Books, Finishing, CheckSendCap
  <1>5. now \in Nat
    BY DEF TypeInv, TypeOK
  <1>6. CASE Fail(d, "daily_send_cap_exceeded")
    <2>1. NoneClears
      BY <1>3, <1>6, FailOwn DEF NoneClears, Clearing, HoldsRow, Processing
    <2> QED BY <1>1, <1>2, <1>4, <1>5, <2>1, KeepsCap
  <1>7. CASE SendsCountedToday < DailySendCap /\ Goto(d, "record")
    <2>1. drainer'[d].pc = "record" /\ drainer'[d].id = drainer[d].id
      BY <1>7, GotoOwn
    <2>2. Cardinality(Counted) < DailySendCap
      BY <1>7 DEF SendsCountedToday, Counted, CountedToday
    <2>3. Sent' = Sent /\ Finishing' = Finishing
      BY <1>1, <1>3, <2>1 DEF Sent, SentToday, Finishing, CheckSendCap
    <2>4. Strays' = Strays
      BY <1>1, <1>3, <2>3 DEF Strays, Counted, CountedToday, Finishing, CheckSendCap
    <2>5. Cleared' \subseteq Cleared \cup {d}
      BY <1>1, <1>3 DEF Cleared, OnSend
    <2>6. Cardinality(Cleared') <= Cardinality(Cleared) + 1
      BY <2>5, CapCounts, OneMore
    <2>7. Cardinality(Cleared) + Cardinality(Finishing) + 1 <= Cardinality(Drainer)
      <3>1. d \notin Cleared \cup Finishing /\ Cleared \cap Finishing = {}
        BY DEF CheckSendCap, Cleared, Clearing, Finishing
      <3> DEFINE both == Cleared \cap Finishing
      <3>2. Cardinality(both) = 0
        BY <3>1, FS_EmptySet
      <3>5. /\ IsFiniteSet(Cleared \cup Finishing)
            /\ Cardinality(Cleared \cup Finishing)
                    = Cardinality(Cleared) + Cardinality(Finishing) - Cardinality(both)
        BY CapCounts, FS_Union
      <3>3. Cardinality((Cleared \cup Finishing) \cup {d})
                = Cardinality(Cleared) + Cardinality(Finishing) + 1
        <4>1. \A S, x : IsFiniteSet(S) /\ x \notin S
                            => Cardinality(S \cup {x}) = Cardinality(S) + 1
          BY FS_AddElement
        <4>2. Cardinality((Cleared \cup Finishing) \cup {d})
                  = Cardinality(Cleared \cup Finishing) + 1
          BY <3>1, <3>5, <4>1
        <4> QED BY <3>2, <3>5, <4>2, CapCounts
      <3>4. (Cleared \cup Finishing) \cup {d} \subseteq Drainer
        BY DEF Cleared, Finishing
      <3> QED BY <3>3, <3>4, CountAssumption, FS_Subset
    <2>8. AttemptsPast'
      BY <1>1, <1>5, PastStays DEF CapInv
    <2>9. \A c \in Drainer : drainer'[c].pc = "capture" => ~OnSend(c)'
      BY <1>1, <1>3, <2>1 DEF CapInv, OnSend
    <2>10. Cardinality(Strays) <= Slack
      BY DEF CapInv
    <2> QED BY <1>1, <2>2, <2>3, <2>4, <2>6, <2>7, <2>8, <2>9, <2>10, SentBound,
               CapCounts, CapCountsAfter DEF CapInv
  <1>8. SendsCountedToday \in Nat /\ DailySendCap \in Nat
    BY CapCounts DEF SendsCountedToday, Counted, CountedToday
  <1> QED BY <1>6, <1>7, <1>8 DEF CheckSendCap

\* What goes out had been cleared, and is in hand until it is entered.
LEMMA DispatchKeepsCap ==
    ASSUME TypeInv, LifeInv, CapInv, NEW d \in Drainer, Dispatch(d)
    PROVE  CapInv'
  <1>1. PICK a \in Action : a = drainer[d].id
    BY DEF Dispatch, HoldsRow, Processing, TypeInv, DrainerShape
  <1>2. UNCHANGED <<row, now>> /\ Slack' = Slack /\ Slack \in Nat /\ now \in Nat
    BY DEF Dispatch, dbVars, Slack, TypeInv, TypeOK
  <1>3. /\ \A c \in Drainer \ {d} : drainer'[c] = drainer[c]
        /\ drainer'[d].pc \in {"applied", "fail"} /\ drainer'[d].id = a
        /\ drainer[d].pc = "dispatch"
    BY <1>1, GotoOwn, FailOwn DEF Dispatch
  <1>4. /\ attempts[a] \in Seq(Nat) /\ attempts'[a] = Append(attempts[a], now)
        /\ \A b \in Action \ {a} : attempts'[b] = attempts[b]
    BY <1>1 DEF Dispatch, TypeInv, TypeOK
  <1>5. Finishing' = Finishing \cup {d}
    BY <1>3 DEF Finishing
  <1>6. ASSUME NEW b \in Action, b # a PROVE SentToday(b)' <=> SentToday(b)
    BY <1>2, <1>4, <1>6 DEF SentToday
  <1>7. Strays' \subseteq Strays
    <2>1. a \notin Strays'
      BY <1>3, <1>5 DEF Strays
    <2>2. \A c \in Finishing : c # d
      BY <1>3 DEF Finishing
    <2> QED BY <1>2, <1>3, <1>5, <1>6, <2>1, <2>2
            DEF Strays, Sent, Counted, CountedToday, Finishing
  <1>8. AttemptsPast'
    <2>1. ASSUME NEW b \in Action, NEW i \in DOMAIN attempts'[b]
          PROVE  attempts'[b][i] <= now
      <3>1. CASE b = a /\ i \in DOMAIN attempts[a]
        <4>1. attempts'[a][i] = attempts[a][i]
          BY <1>4, <3>1
        <4> QED BY <3>1, <4>1 DEF CapInv, AttemptsPast
      <3>2. CASE b = a /\ i \notin DOMAIN attempts[a]
        <4>1. attempts'[a][i] = now
          BY <1>4, <2>1, <3>2
        <4> QED BY <1>2, <3>2, <4>1
      <3>3. CASE b # a
        BY <1>4, <2>1, <3>3 DEF CapInv, AttemptsPast
      <3> QED BY <3>1, <3>2, <3>3
    <2> QED BY <1>2, <2>1 DEF AttemptsPast
  <1>9. \A c \in Drainer : drainer'[c].pc = "capture" => ~OnSend(c)'
    BY <1>2, <1>3 DEF CapInv, OnSend
  <1>10. Cardinality(Sent') + Cardinality(Cleared') <= Cardinality(Sent) + Cardinality(Cleared)
    <2>1. CASE row[a].type \in SendFamily
      <3>1. Sent' \subseteq Sent \cup {a}
        BY <1>6 DEF Sent
      <3>2. d \in Cleared /\ Cleared' \subseteq Cleared \ {d}
        BY <1>1, <1>2, <1>3, <2>1 DEF Cleared, Clearing, OnSend
      <3>3. Cardinality(Sent') <= Cardinality(Sent) + 1
        BY <3>1, CapCounts, OneMore
      <3>4. Cardinality(Cleared') <= Cardinality(Cleared) - 1
        <4>1. /\ IsFiniteSet(Cleared \ {d})
              /\ Cardinality(Cleared \ {d}) = Cardinality(Cleared) - 1
          BY <3>2, CapCounts, FS_RemoveElement
        <4>2. Cardinality(Cleared') <= Cardinality(Cleared \ {d})
          BY <3>2, <4>1, FS_Subset
        <4> QED BY <4>1, <4>2
      <3> QED BY <3>3, <3>4, CapCounts, CapCountsAfter
    <2>2. CASE row[a].type \notin SendFamily
      <3>1. Sent' \subseteq Sent
        BY <1>2, <1>6, <2>2 DEF Sent, SentToday
      <3>2. Cleared' \subseteq Cleared
        BY <1>2, <1>3 DEF Cleared, Clearing, OnSend
      <3>3. /\ Cardinality(Sent') <= Cardinality(Sent)
            /\ Cardinality(Cleared') <= Cardinality(Cleared)
        BY <3>1, <3>2, CapCounts, FS_Subset
      <3> QED BY <3>3, CapCounts, CapCountsAfter
    <2> QED BY <2>1, <2>2
  <1>11. Cardinality(Strays') <= Cardinality(Strays)
    BY <1>7, CapCounts, FS_Subset
  <1>12. /\ Cardinality(Strays) <= Slack
         /\ Cardinality(Sent) + Cardinality(Cleared)
                <= DailySendCap + (Cardinality(Drainer) - 1) + Slack
    BY DEF CapInv
  <1> QED BY <1>2, <1>8, <1>9, <1>10, <1>11, <1>12, CapCounts, CapCountsAfter DEF CapInv

\* A drainer that moves to none of the points past the cap lets no send past it.
LEMMA StaysShort ==
    ASSUME TypeInv, NEW d \in Drainer, \A c \in Drainer \ {d} : drainer'[c] = drainer[c],
           drainer'[d].pc \notin Clearing \cup {"capture"}
    PROVE  NoneClears
  BY DEF NoneClears, Clearing, HoldsRow, Processing

\* When the drainer that moves had no row to enter, none drops out of hand.
LEMMA HandsKept ==
    ASSUME NEW d \in Drainer, \A c \in Drainer \ {d} : drainer'[c] = drainer[c],
           d \notin Finishing,
           \A a \in Action : row[a].status \in Moving => Books(a)
    PROVE  BooksKept({})
  BY DEF BooksKept, Finishing

\* The clock stands still.
LEMMA SameTime ==
    ASSUME TypeInv, UNCHANGED now
    PROVE  Day(now') = Day(now) /\ now' \in Nat /\ now' >= now /\ Slack \in Nat
  BY DEF TypeInv, TypeOK, Slack

\* A drainer's steps up to the dispatch, and those after its terminal write.
LEMMA HandlingKeepsCap ==
    ASSUME TypeInv, LifeInv, CapInv, ProposalsKept, NEW d \in Drainer,
           UNCHANGED <<attempts, now, replays, faults>>,
           \/ TickStart(d) \/ Select(d) \/ Claim(d) \/ PauseCheck(d)
           \/ CheckGrant(d) \/ Park(d) \/ CheckTarget(d)
           \/ CapturePreState(d) \/ InsertHistory(d) \/ Repair(d) \/ NotifyFailure(d)
    PROVE  CapInv'
  <1>1. Slack' = Slack
    BY DEF Slack
  <1>2. \A c \in Drainer \ {d} : drainer'[c] = drainer[c]
    BY DEF TickStart, Select, Claim, PauseCheck, CheckGrant, Park, CheckTarget,
           CapturePreState, InsertHistory, Repair, NotifyFailure, Goto, Fail, Resume,
           TypeInv, TypeOK
  <1>3. d \notin Finishing
    BY DEF TickStart, Select, Claim, PauseCheck, CheckGrant, Park, CheckTarget,
           CapturePreState, InsertHistory, Repair, NotifyFailure, Finishing
  <1>4. \A a \in Action : Books(a)
    <2>1. CASE Claim(d)
      <3>1. PICK x \in drainer[d].batch :
              IF row[x].status = "pending" THEN row' = [row EXCEPT ![x].status = "draining"]
                                           ELSE UNCHANGED row
        BY <2>1 DEF Claim
      <3>2. x \in Action
        BY DEF TypeInv, TypeOK, DrainerState
      <3>3. CASE row' = [row EXCEPT ![x].status = "draining"]
        BY <3>2, <3>3 DEF Books, TypeInv, TypeOK, Row
      <3>4. CASE UNCHANGED row
        BY <3>4 DEF Books
      <3> QED BY <3>1, <3>3, <3>4
    <2>2. CASE PauseCheck(d) \/ Park(d)
      <3>1. CASE row' = [row EXCEPT ![drainer[d].id].status = "pending"]
        BY <3>1 DEF Books, TypeInv, TypeOK, Row
      <3>2. CASE row' = [row EXCEPT ![drainer[d].id].status = "pending_grant",
                                    ![drainer[d].id].grant = NULL]
        BY <3>2 DEF Books, TypeInv, TypeOK, Row
      <3>3. CASE UNCHANGED row
        BY <3>3 DEF Books
      <3> QED BY <2>2, <3>1, <3>2, <3>3 DEF PauseCheck, Park
    <2>3. CASE UNCHANGED row
      BY <2>3 DEF Books
    <2> QED BY <2>1, <2>2, <2>3
            DEF TickStart, Select, CheckGrant, CheckTarget, CapturePreState,
                InsertHistory, Repair, NotifyFailure, dbVars
  <1>5. BooksKept({})
    BY <1>2, <1>3, <1>4, HandsKept
  <1>6. NoneClears
    <2>1. \A b : Rest(b).pc \notin Clearing \cup {"capture"}
      BY DEF Rest, IdleDrainer, Clearing
    <2>2. CASE TickStart(d) \/ Select(d) \/ Claim(d) \/ PauseCheck(d) \/ CheckGrant(d)
               \/ Park(d) \/ Repair(d) \/ NotifyFailure(d)
      <3>1. drainer'[d].pc \notin Clearing \cup {"capture"}
        <4>1. CASE TickStart(d)
          BY <4>1, GotoOwn DEF TickStart, Clearing
        <4>2. CASE Select(d)
          BY <2>1, <4>2 DEF Select, TypeInv, TypeOK
        <4>3. CASE Claim(d)
          <5>1. drainer'[d].pc = "claimed" \/ \E b : drainer'[d] = Rest(b)
            <6>1. drainer \in [Drainer -> DrainerState]
              BY DEF TypeInv, TypeOK
            <6>2. PICK x \in drainer[d].batch :
                    \/ drainer' = [drainer EXCEPT ![d].pc = "claimed", ![d].id = x,
                                                  ![d].batch = @ \ {x}]
                    \/ drainer' = [drainer EXCEPT ![d] = Rest(@.batch \ {x})]
              BY <4>3 DEF Claim
            <6> QED BY <6>1, <6>2 DEF DrainerState
          <5> QED BY <2>1, <5>1 DEF Clearing
        <4>4. CASE PauseCheck(d)
          <5>1. drainer'[d].pc \in {"idle", "check"}
            BY <4>4, GotoOwn DEF PauseCheck, IdleDrainer, TypeInv, TypeOK
          <5> QED BY <5>1 DEF Clearing
        <4>5. CASE CheckGrant(d)
          <5>1. drainer'[d].pc \in {"target", "fail", "park"}
            BY <4>5, GotoOwn, FailOwn DEF CheckGrant, TypeInv, TypeOK, DrainerState
          <5> QED BY <5>1 DEF Clearing
        <4>6. CASE Park(d) \/ Repair(d) \/ NotifyFailure(d)
          <5>1. Resume(d)
            BY <4>6 DEF Park, Repair, NotifyFailure
          <5> QED BY <2>1, <5>1 DEF Resume, TypeInv, TypeOK
        <4> QED BY <2>2, <4>1, <4>2, <4>3, <4>4, <4>5, <4>6
      <3> QED BY <1>2, <3>1, StaysShort
    <2>3. CASE CheckTarget(d)
      <3>1. drainer[d].pc = "target" /\ drainer[d].pc \in HoldsRow
        BY <2>3 DEF CheckTarget, HoldsRow, Processing
      <3>2. \/ drainer'[d].pc = "fail"
            \/ /\ drainer'[d].pc = AfterTarget(row[drainer[d].id].type)
               /\ drainer'[d].id = drainer[d].id
        BY <2>3, GotoOwn, FailOwn DEF CheckTarget
      <3>3. \/ ~OnSend(d)
            \/ AfterTarget(row[drainer[d].id].type) = "cap"
        BY DEF AfterTarget, OnSend
      <3>4. AfterTarget(row[drainer[d].id].type) \in {"cap", "capture", "record"}
        BY DEF AfterTarget
      <3>5. CASE drainer'[d].pc \in {"fail", "cap"}
        BY <1>2, <3>5, StaysShort DEF Clearing
      <3>6. CASE drainer'[d].pc \in {"capture", "record"}
        <4>1. ~OnSend(d) /\ drainer'[d].id = drainer[d].id
          BY <3>2, <3>3, <3>6
        <4> QED BY <1>2, <3>1, <4>1 DEF NoneClears, Clearing, HoldsRow, Processing
      <3> QED BY <3>2, <3>4, <3>5, <3>6
    <2>4. CASE CapturePreState(d)
      <3>1. drainer[d].pc = "capture" /\ drainer[d].pc \in HoldsRow /\ ~OnSend(d)
        BY <2>4 DEF CapturePreState, HoldsRow, Processing, CapInv
      <3>2. drainer'[d].pc \in {"record", "fail"} /\ drainer'[d].id = drainer[d].id
        BY <2>4, FailOwn DEF CapturePreState, TypeInv, TypeOK, DrainerState
      <3> QED BY <1>2, <3>1, <3>2 DEF NoneClears, Clearing, HoldsRow, Processing
    <2>5. CASE InsertHistory(d)
      <3>1. drainer[d].pc = "record"
        BY <2>5 DEF InsertHistory
      <3>2. drainer'[d].pc \in {"dispatch", "error"} /\ drainer'[d].id = drainer[d].id
        BY <2>5, GotoOwn DEF InsertHistory
      <3> QED BY <1>2, <3>1, <3>2 DEF NoneClears, Clearing, HoldsRow, Processing
    <2> QED BY <2>2, <2>3, <2>4, <2>5
  <1> QED BY <1>1, <1>5, <1>6, SameTime, KeepsCap

\* The terminal writes enter the row in hand in the count of the day.
LEMMA ClosingKeepsCap ==
    ASSUME TypeInv, LifeInv, CapInv, ProposalsKept, NEW d \in Drainer,
           UNCHANGED <<attempts, now, replays, faults>>,
           MarkApplied(d) \/ MarkFailed(d) \/ Recover(d)
    PROVE  CapInv'
  <1> DEFINE a == drainer[d].id
  <1>1. Slack' = Slack
    BY DEF Slack
  <1>2. a \in Action /\ now \in Nat /\ now # NULL
    BY NullAssumption DEF MarkApplied, MarkFailed, Recover, HoldsRow, Processing,
                          TypeInv, TypeOK, DrainerShape
  <1>3. /\ \A b \in Action \ {a} : row'[b] = row[b]
        /\ row'[a].terminalAt = now
        /\ row'[a].budget <=> row[a].type \in SendFamily
    <2> USE <1>2 DEF TypeInv, TypeOK, Row
    <2>1. CASE MarkApplied(d)
      BY <2>1 DEF MarkApplied
    <2>2. CASE MarkFailed(d) \/ Recover(d)
      <3>1. PICK why : row' = MarkedFailed(a, why)
        BY <2>2 DEF MarkFailed, Recover
      <3> DEFINE b == row[a].type \in SendFamily
                 r == [row[a] EXCEPT !.status = "failed", !.failure = why,
                                     !.terminalAt = now, !.budget = b]
      <3>2. row' = [row EXCEPT ![a] = r]
        BY <3>1 DEF MarkedFailed
      <3>3. r.terminalAt = now /\ r.budget = b
        OBVIOUS
      <3> QED BY <3>2, <3>3
    <2> QED BY <2>1, <2>2
  <1>4. Enters(a)
    BY <1>2, <1>3 DEF Enters
  <1>5. /\ \A c \in Drainer \ {d} : drainer'[c] = drainer[c]
        /\ drainer'[d].pc \notin Clearing \cup {"capture"}
    <2>1. \/ Resume(d) \/ Goto(d, "repair") \/ Goto(d, "notify")
      BY DEF MarkApplied, MarkFailed, Recover
    <2>2. \A b : Rest(b).pc \notin Clearing \cup {"capture"}
      BY DEF Rest, IdleDrainer, Clearing
    <2>3. CASE Resume(d)
      BY <2>2, <2>3 DEF Resume, TypeInv, TypeOK
    <2>4. CASE Goto(d, "repair") \/ Goto(d, "notify")
      BY <2>4, GotoOwn DEF Clearing
    <2> QED BY <2>1, <2>3, <2>4
  <1>6. BooksKept({})
    <2>1. \A b \in Action : Books(b) \/ Enters(b)
      BY <1>3, <1>4 DEF Books
    <2> QED BY <1>4, <1>5, <2>1 DEF BooksKept, Finishing
  <1>7. NoneClears
    BY <1>5, StaysShort
  <1> QED BY <1>1, <1>6, <1>7, SameTime, KeepsCap

\* Verbs, operator, sync and ticker; a replay takes one row out of the count.
LEMMA OthersKeepCap ==
    ASSUME TypeInv, LifeInv, CapInv, ProposalsKept,
           VerbStep \/ OperatorStep \/ SyncStep \/ CoolingOffTick
    PROVE  CapInv'
  <1>1. UNCHANGED <<attempts, now, drainer, faults>>
    BY DEF VerbStep, OperatorStep, SyncStep, Propose, Cancel, Confirm, MintFind,
           MintStep, MintConsume, MintInsert, Revoke, ReplayCheck, ReplayReset,
           Pause, Unpause, Upsert, SoftDelete, Resurrect, CoolingOffTick, ghostVars
  <1>2. NoneClears
    BY <1>1 DEF NoneClears, Clearing, HoldsRow, Processing
  <1>3. Finishing' = Finishing
    BY <1>1 DEF Finishing
  <1>4. ASSUME UNCHANGED replays, \A a \in Action : row[a].status \in Moving => Books(a)
        PROVE  CapInv'
    <2>1. BooksKept({})
      BY <1>1, <1>3, <1>4 DEF BooksKept
    <2>2. Slack' = Slack
      BY <1>1, <1>4 DEF Slack
    <2> QED BY <1>1, <1>2, <2>1, <2>2, SameTime, KeepsCap
  <1>5. ASSUME NEW a \in Action, NEW t \in Types, NEW e \in Email \cup {NULL},
               NEW f \in Folder \cup {NULL}, Propose(a, t, e, f)
        PROVE  CapInv'
    BY <1>4, <1>5 DEF Propose, Books, Moving, TypeInv, TypeOK, ghostVars
  <1>6. ASSUME NEW a \in Action, Cancel(a) PROVE CapInv'
    BY <1>4, <1>6 DEF Cancel, Books, Moving, TypeInv, TypeOK, ghostVars
  <1>7. ASSUME NEW m \in Minter, MintInsert(m) PROVE CapInv'
    BY <1>4, <1>7 DEF MintInsert, Books, TypeInv, TypeOK, Row, ghostVars
  <1>8. CASE CoolingOffTick
    BY <1>4, <1>8 DEF CoolingOffTick, Books, TypeInv, TypeOK, Row, ghostVars
  <1>9. ASSUME UNCHANGED <<row, replays>> PROVE CapInv'
    BY <1>4, <1>9 DEF Books
  <1>10. ASSUME NEW a \in Action, ReplayReset(a) PROVE CapInv'
    <2>1. CASE row[a].status = "failed"
      <3>1. /\ \A b \in Action \ {a} : row'[b] = row[b]
            /\ replays' = replays + 1
        BY <1>10, <2>1 DEF ReplayReset, TypeInv, TypeOK
      <3>2. BooksKept({a})
        BY <1>1, <1>3, <3>1 DEF BooksKept, Books
      <3>3. Slack' = Slack + 1
        BY <1>1, <3>1 DEF Slack, TypeInv, TypeOK
      <3> QED BY <1>1, <1>2, <3>2, <3>3, LosesOne
    <2>2. CASE row[a].status # "failed"
      BY <1>9, <1>10, <2>2 DEF ReplayReset
    <2> QED BY <2>1, <2>2
  <1>11. CASE VerbStep
    BY <1>5, <1>6, <1>7, <1>9, <1>11
       DEF VerbStep, MintStep, Confirm, MintFind, MintConsume, Revoke, dbVars, ghostVars
  <1>12. CASE OperatorStep \/ SyncStep
    BY <1>9, <1>10, <1>12
       DEF OperatorStep, ReplayCheck, Pause, Unpause, SyncStep, Upsert, SoftDelete,
           Resurrect, dbVars, ghostVars
  <1> QED BY <1>8, <1>11, <1>12

\* A fault loses at most the row in one drainer's hands.
LEMMA FaultKeepsCap ==
    ASSUME TypeInv, LifeInv, CapInv, ProposalsKept, FaultStep
    PROVE  CapInv'
  <1>1. UNCHANGED <<attempts, now, replays>> /\ faults' = faults + 1
    BY DEF FaultStep, Crash, DbError, PauseUnreadable, ApiCrash
  <1>2. Slack' = Slack + 1 /\ Slack \in Nat
    BY <1>1 DEF Slack, TypeInv, TypeOK
  <1>3. Slack' \in Nat /\ Slack' >= Slack
    BY <1>2
  <1>4. \A a \in Action : Books(a)
    <2>1. ASSUME NEW d \in Drainer, PauseUnreadable(d) PROVE \A a \in Action : Books(a)
      BY <2>1 DEF PauseUnreadable, Books, TypeInv, TypeOK, Row
    <2>2. CASE UNCHANGED row
      BY <2>2 DEF Books
    <2> QED BY <2>1, <2>2 DEF FaultStep, Crash, DbError, ApiCrash, dbVars
  <1>5. ASSUME BooksKept({}), NoneClears PROVE CapInv'
    BY <1>1, <1>3, <1>5, SameTime, KeepsCap
  <1>6. ASSUME NEW d \in Drainer, \A c \in Drainer \ {d} : drainer'[c] = drainer[c],
               drainer'[d].pc \notin Clearing \cup {"capture"}
        PROVE  CapInv'
    <2>1. NoneClears
      BY <1>6, StaysShort
    <2>2. CASE d \in Finishing
      <3>1. drainer[d].id \in Action
        BY <2>2 DEF Finishing, HoldsRow, Processing, TypeInv, DrainerShape
      <3>2. BooksKept({drainer[d].id})
        BY <1>4, <1>6 DEF BooksKept, Finishing
      <3> QED BY <1>1, <1>2, <2>1, <3>1, <3>2, LosesOne
    <2>3. CASE d \notin Finishing
      BY <1>4, <1>5, <1>6, <2>1, <2>3, HandsKept
    <2> QED BY <2>2, <2>3
  <1>7. ASSUME NEW d \in Drainer, Crash(d) \/ PauseUnreadable(d) PROVE CapInv'
    <2>1. /\ \A c \in Drainer \ {d} : drainer'[c] = drainer[c]
          /\ drainer'[d].pc = "idle"
      BY <1>7 DEF Crash, PauseUnreadable, IdleDrainer, TypeInv, TypeOK
    <2> QED BY <1>6, <2>1 DEF Clearing
  <1>8. ASSUME NEW d \in Drainer, DbError(d) PROVE CapInv'
    <2>1. CASE drainer[d].pc \in Owning \ {"claimed", "capture", "dispatch", "error"}
               /\ Goto(d, "error")
      <3>1. /\ \A c \in Drainer \ {d} : drainer'[c] = drainer[c]
            /\ drainer'[d].pc = "error" /\ drainer'[d].id = drainer[d].id
        BY <2>1, GotoOwn
      <3>2. BooksKept({})
        BY <1>4, <3>1 DEF BooksKept, Finishing
      <3>3. NoneClears
        BY <3>1, StaysShort DEF Clearing
      <3> QED BY <1>5, <3>2, <3>3
    <2>2. CASE Goto(d, "late_error")
      <3>1. /\ \A c \in Drainer \ {d} : drainer'[c] = drainer[c]
            /\ drainer'[d].pc = "late_error"
        BY <2>2, GotoOwn
      <3> QED BY <1>6, <3>1 DEF Clearing
    <2>3. CASE Resume(d)
      <3>1. drainer' = [drainer EXCEPT ![d] = Rest(drainer[d].batch)]
        BY <2>3 DEF TypeInv, TypeOK, Resume
      <3>2. Rest(drainer[d].batch).pc \notin Clearing \cup {"capture"}
        BY DEF Rest, IdleDrainer, Clearing
      <3>3. /\ \A c \in Drainer \ {d} : drainer'[c] = drainer[c]
            /\ drainer'[d].pc \notin Clearing \cup {"capture"}
        BY <3>1, <3>2 DEF TypeInv, TypeOK
      <3> QED BY <1>6, <3>3
    <2> QED BY <1>8, <2>1, <2>2, <2>3 DEF DbError
  <1>9. ASSUME NEW m \in Minter, ApiCrash(m) PROVE CapInv'
    <2>1. UNCHANGED drainer
      BY <1>9 DEF ApiCrash
    <2>2. BooksKept({}) /\ NoneClears
      BY <1>4, <2>1 DEF BooksKept, Finishing, NoneClears, Clearing, HoldsRow, Processing
    <2> QED BY <1>5, <2>2
  <1> QED BY <1>7, <1>8, <1>9 DEF FaultStep

\* Every step keeps the count.
LEMMA CapStep == TypeInv /\ LifeInv /\ CapInv /\ [Next]_vars => CapInv'
  <1> SUFFICES ASSUME TypeInv, LifeInv, CapInv, [Next]_vars PROVE CapInv'
    OBVIOUS
  <1>1. CASE UNCHANGED vars
    <2>1. UNCHANGED <<row, drainer, attempts, now, replays, faults>>
      BY <1>1 DEF vars, dbVars, ghostVars
    <2>2. BooksKept({}) /\ NoneClears /\ ProposalsKept
      BY <2>1, RowsStay DEF BooksKept, Books, Finishing, NoneClears, Clearing,
                            HoldsRow, Processing
    <2>3. Slack' = Slack
      BY <2>1 DEF Slack
    <2> QED BY <2>1, <2>2, <2>3, SameTime, KeepsCap
  <1>2. CASE VerbStep \/ OperatorStep \/ SyncStep \/ CoolingOffTick
    BY <1>2, VerbRows, OtherRows, OthersKeepCap
  <1>3. CASE FaultStep
    BY <1>3, FaultRows, FaultKeepsCap
  <1>4. ASSUME NEW d \in Drainer, DrainStep(d) PROVE CapInv'
    <2>1. CASE CheckSendCap(d) \/ Dispatch(d)
      BY <2>1, CheckKeepsCap, DispatchKeepsCap
    <2>2. CASE ~CheckSendCap(d) /\ ~Dispatch(d)
      <3>1. UNCHANGED <<attempts, now, replays, faults>>
        BY <1>4, <2>2
           DEF DrainStep, TickStart, Select, Claim, PauseCheck, CheckGrant, Park,
               CheckTarget, CapturePreState, InsertHistory, MarkApplied, Repair,
               MarkFailed, NotifyFailure, Recover, ghostVars
      <3>2. ProposalsKept
        BY <1>4, DrainRows, AppliedRows
      <3>3. \/ TickStart(d) \/ Select(d) \/ Claim(d) \/ PauseCheck(d)
            \/ CheckGrant(d) \/ Park(d) \/ CheckTarget(d)
            \/ CapturePreState(d) \/ InsertHistory(d) \/ Repair(d) \/ NotifyFailure(d)
            \/ MarkApplied(d) \/ MarkFailed(d) \/ Recover(d)
        BY <1>4, <2>2 DEF DrainStep
      <3> QED BY <3>1, <3>2, <3>3, HandlingKeepsCap, ClosingKeepsCap
    <2> QED BY <2>1, <2>2
  <1>5. CASE Tick
    BY <1>5, TickKeepsCap
  <1> QED BY <1>1, <1>2, <1>3, <1>4, <1>5 DEF Next

\* The daily cap holds with its slack, for any number of rows and drainers:
\* however drainers race the count, what is sent in a day beyond the cap is
\* paid for by a further drainer, a fault or a replay.
THEOREM SendsAreCapped == Spec => []SendCapWithSlack
  <1>1. Init => CapInv
    <2> SUFFICES ASSUME Init PROVE CapInv
      OBVIOUS
    <2>1. /\ \A a \in Action : attempts[a] = <<>>
          /\ \A d \in Drainer : drainer[d].pc = "idle"
          /\ Slack = 0
      BY DEF Init, IdleDrainer, Slack
    <2>2. Sent = {} /\ Strays = {} /\ Cleared = {}
      BY <2>1 DEF Sent, SentToday, Strays, Cleared, Clearing
    <2>3. Cardinality(Sent) = 0 /\ Cardinality(Strays) = 0 /\ Cardinality(Cleared) = 0
      BY <2>2, FS_EmptySet
    <2>4. Cardinality(Drainer) \in Nat /\ DailySendCap \in Nat \ {0}
      BY CapCounts
    <2>5. AttemptsPast /\ \A d \in Drainer : drainer[d].pc # "capture"
      BY <2>1 DEF AttemptsPast
    <2> QED BY <2>1, <2>3, <2>4, <2>5 DEF CapInv
  <1>2. TypeInv /\ CapInv => SendCapWithSlack
    <2> SUFFICES ASSUME TypeInv, CapInv PROVE SendCapWithSlack
      OBVIOUS
    <2>1. SendsToday = Cardinality(Sent)
      BY DEF SendsToday, Sent, SentToday
    <2>2. Slack = faults + replays /\ faults \in Nat /\ replays \in Nat
      BY DEF Slack, TypeInv, TypeOK
    <2>3. Cardinality(Sent) + Cardinality(Cleared)
                <= DailySendCap + (Cardinality(Drainer) - 1) + Slack
      BY DEF CapInv
    <2> QED BY <2>1, <2>2, <2>3, CapCounts DEF SendCapWithSlack
  <1> QED BY TypeInvariant, LifeInvariant, CapStep, <1>1, <1>2, PTL DEF Spec
==============================================================================
