-------------------------- MODULE ActionQueueProofs --------------------------
(***************************************************************************)
(* Proofs about ActionQueue, for any sets of rows, messages, drainers and  *)
(* mint requests and any windows and bounds: the types, at most one        *)
(* dispatch of a row, and that a drainer that owns a row is the only one   *)
(* to write it.                                                            *)
(***************************************************************************)
EXTENDS ActionQueue, SequenceTheorems, TLAPS

\* What the columns and locals satisfy beyond their types: a move has a
\* destination, a drainer past its claim names a row, a mint request past its
\* SELECT names a type.
RowShape == \A a \in Action : row[a].type \in MoveFamily => row[a].target \in Folder

DrainerShape ==
    \A d \in Drainer : drainer[d].pc \in HoldsRow => drainer[d].id \in Action

MinterShape ==
    \A m \in Minter : minter[m].pc # "idle" => minter[m].type \in ActionType

TypeInv == TypeOK /\ RowShape /\ DrainerShape /\ MinterShape
-----------------------------------------------------------------------------
\* A sequence with one element replaced by one of its type keeps its type.
LEMMA SeqUpdate ==
    ASSUME NEW T, NEW s \in Seq(T), NEW i \in DOMAIN s, NEW x \in T
    PROVE  [s EXCEPT ![i] = x] \in Seq(T)
  BY ExceptSeq

(* The three ways a drainer's locals change. *)

\* A drainer given well-typed locals is well typed.
LEMMA SetDrainerType ==
    ASSUME TypeInv, NEW d \in Drainer, NEW s \in DrainerState,
           s.pc \in HoldsRow => s.id \in Action,
           drainer' = [drainer EXCEPT ![d] = s]
    PROVE  drainer' \in [Drainer -> DrainerState] /\ DrainerShape'
  BY DEF TypeInv, TypeOK, DrainerShape

\* So is one that moves to a point where it holds a row.
LEMMA GotoType ==
    ASSUME TypeInv, NEW d \in Drainer, drainer[d].pc \in HoldsRow,
           NEW pc \in HoldsRow, Goto(d, pc)
    PROVE  drainer' \in [Drainer -> DrainerState] /\ DrainerShape'
  <1> USE DEF TypeInv, TypeOK, DrainerShape, Goto
  <1>1. drainer' \in [Drainer -> DrainerState]
    BY DEF DrainerState
  <1>2. DrainerShape'
    BY DEF DrainerState
  <1> QED BY <1>1, <1>2

\* So is one that leaves its checks with a failure.
LEMMA FailType ==
    ASSUME TypeInv, NEW d \in Drainer, drainer[d].pc \in HoldsRow,
           NEW why \in Failure, Fail(d, why)
    PROVE  drainer' \in [Drainer -> DrainerState] /\ DrainerShape'
  <1> DEFINE r == [drainer[d] EXCEPT !.pc = "fail", !.why = why]
  <1>1. drainer[d] \in DrainerState /\ drainer[d].id \in Action
    BY DEF TypeInv, TypeOK, DrainerShape
  <1>2. r \in DrainerState /\ r.id \in Action
    BY <1>1 DEF DrainerState, HoldsRow, Processing
  <1>3. drainer' = [drainer EXCEPT ![d] = r]
    BY DEF TypeInv, TypeOK, Fail
  <1> QED BY <1>2, <1>3 DEF TypeInv, TypeOK, DrainerShape

\* A drainer between two rows of a batch holds none.
LEMMA RestType ==
    ASSUME NEW b \in SUBSET Action
    PROVE  /\ Rest(b) \in DrainerState
           /\ Rest(b).pc \notin HoldsRow
           /\ Rest(b).batch = b
  BY DEF Rest, IdleDrainer, DrainerState, HoldsRow, Processing

\* So is one that starts on a batch.
LEMMA SetRestType ==
    ASSUME TypeInv, NEW d \in Drainer, NEW b \in SUBSET Action,
           drainer' = [drainer EXCEPT ![d] = Rest(b)]
    PROVE  drainer' \in [Drainer -> DrainerState] /\ DrainerShape'
  BY RestType DEF TypeInv, TypeOK, DrainerShape

\* So is one that goes on with its batch.
LEMMA ResumeType ==
    ASSUME TypeInv, NEW d \in Drainer, Resume(d)
    PROVE  drainer' \in [Drainer -> DrainerState] /\ DrainerShape'
  <1>1. drainer[d].batch \in SUBSET Action
    BY DEF TypeInv, TypeOK, DrainerState
  <1>2. drainer' = [drainer EXCEPT ![d] = Rest(drainer[d].batch)]
    BY DEF Resume, TypeInv, TypeOK
  <1> QED BY <1>1, <1>2, SetRestType

\* An UPDATE of one row that leaves its type and payload alone.
LEMMA RowUpdateType ==
    ASSUME TypeInv, NEW a \in Action, NEW r \in Row,
           r.type = row[a].type, r.target = row[a].target,
           row' = [row EXCEPT ![a] = r]
    PROVE  row' \in [Action -> Row] /\ RowShape'
  BY DEF TypeInv, TypeOK, RowShape

\* One column at a time.
LEMMA SetStatus ==
    ASSUME NEW r \in Row, NEW s \in Status
    PROVE  /\ [r EXCEPT !.status = s] \in Row
           /\ [r EXCEPT !.status = s].type = r.type
           /\ [r EXCEPT !.status = s].target = r.target
  BY DEF Row

\* The time of the terminal write.
LEMMA SetTerminalAt ==
    ASSUME NEW r \in Row, NEW t \in Nat \cup {NULL}
    PROVE  [r EXCEPT !.terminalAt = t] \in Row
  BY DEF Row

\* The failure reason.
LEMMA SetFailure ==
    ASSUME NEW r \in Row, NEW why \in Failure \cup {NULL}
    PROVE  [r EXCEPT !.failure = why] \in Row
  BY DEF Row

\* The budget flag.
LEMMA SetBudget ==
    ASSUME NEW r \in Row, NEW b \in BOOLEAN
    PROVE  [r EXCEPT !.budget = b] \in Row
  BY DEF Row

\* The grant.
LEMMA SetGrant ==
    ASSUME NEW r \in Row, NEW g \in Nat \cup {NULL}
    PROVE  [r EXCEPT !.grant = g] \in Row
  BY DEF Row

\* PENDING_ACTION_MARK_FAILED writes a well-typed row.
LEMMA MarkedFailedType ==
    ASSUME TypeInv, NEW a \in Action, NEW why \in Failure \cup {NULL},
           row' = MarkedFailed(a, why)
    PROVE  row' \in [Action -> Row] /\ RowShape'
  <1> DEFINE b == row[a].type \in SendFamily
             p == [row[a] EXCEPT !.status = "failed"]
             q == [p EXCEPT !.failure = why]
             s == [q EXCEPT !.terminalAt = now]
             r == [row[a] EXCEPT !.status = "failed", !.failure = why,
                                 !.terminalAt = now, !.budget = b]
  <1>1. row[a] \in Row /\ now \in Nat /\ b \in BOOLEAN
    BY DEF TypeInv, TypeOK
  <1>2. p \in Row
    BY <1>1, SetStatus DEF Status, Terminal
  <1>3. q \in Row
    BY <1>2, SetFailure
  <1>4. s \in Row
    BY <1>1, <1>3, SetTerminalAt
  <1>5. [s EXCEPT !.budget = b] \in Row
    BY <1>1, <1>4, SetBudget
  <1>6. r \in Row /\ r.type = row[a].type /\ r.target = row[a].target
    BY <1>1, <1>5 DEF Row
  <1>7. row' = [row EXCEPT ![a] = r]
    BY DEF TypeInv, TypeOK, MarkedFailed
  <1> QED BY <1>6, <1>7, RowUpdateType
-----------------------------------------------------------------------------
\* The empty database is well typed.
LEMMA TypeInit == Init => TypeInv
  <1> SUFFICES ASSUME Init PROVE TypeInv
    OBVIOUS
  <1> USE NullAssumption DEF Init
  <1>1. row \in [Action -> Row]
    BY DEF NoRow, Row, Status
  <1>2. history \in [Action -> HistoryRow]
    BY DEF NoHistory, HistoryRow
  <1>3. email \in [Email -> EmailRow]
    BY DEF EmailRow
  <1>4. drainer \in [Drainer -> DrainerState]
    BY DEF IdleDrainer, DrainerState
  <1>5. minter \in [Minter -> MinterState]
    BY DEF IdleMinter, MinterState
  <1>6. grants \in Seq(Grant) /\ confirmations \in Seq(Confirmation)
    OBVIOUS
  <1>7. attempts \in [Action -> Seq(Nat)]
    <2>1. <<>> \in Seq(Nat)
      OBVIOUS
    <2> QED BY <2>1
  <1>8. TypeOK
    BY <1>1, <1>2, <1>3, <1>4, <1>5, <1>6, <1>7 DEF TypeOK
  <1>9. RowShape
    BY DEF RowShape, NoRow, MoveFamily, ActionType, Tier1Types, Tier2Types
  <1>10. DrainerShape /\ MinterShape
    BY DEF DrainerShape, MinterShape, IdleDrainer, HoldsRow, Processing, IdleMinter
  <1> QED BY <1>8, <1>9, <1>10 DEF TypeInv

\* The verbs.
LEMMA TypePropose ==
    ASSUME TypeInv, NEW a \in Action, NEW t \in Types,
           NEW e \in Email \cup {NULL}, NEW f \in Folder \cup {NULL},
           Propose(a, t, e, f)
    PROVE  TypeInv'
  <1>1. t \in ActionType
    BY TypesAssumption
  <1>2. MarkerAtPropose(t, e) \in Nat \cup {NULL}
    BY DEF MarkerAtPropose, TypeInv, TypeOK, EmailRow
  <1>3. InitialStatus(t) \in Status
    BY DEF InitialStatus, Status, Waiting
  <1>4. row' \in [Action -> Row]
    BY <1>1, <1>2, <1>3 DEF TypeInv, TypeOK, Propose, NoRow, Row
  <1>5. RowShape'
    BY <1>4, NullAssumption DEF TypeInv, TypeOK, RowShape, Propose, NoRow, Row
  <1>6. TypeOK'
    BY <1>4 DEF TypeInv, TypeOK, Propose, ghostVars, mailVars
  <1>7. DrainerShape' /\ MinterShape'
    BY DEF TypeInv, DrainerShape, MinterShape, Propose
  <1> QED BY <1>5, <1>6, <1>7 DEF TypeInv

\* Cancel keeps the types.
LEMMA TypeCancel ==
    ASSUME TypeInv, NEW a \in Action, Cancel(a)
    PROVE  TypeInv'
  <1> DEFINE r == [row[a] EXCEPT !.status = "cancelled", !.terminalAt = now]
  <1>1. r \in Row /\ r.type = row[a].type /\ r.target = row[a].target
    BY DEF TypeInv, TypeOK, Row, Status, Terminal
  <1>2. row' = [row EXCEPT ![a] = r]
    BY DEF TypeInv, TypeOK, Cancel
  <1>3. row' \in [Action -> Row] /\ RowShape'
    BY <1>1, <1>2, RowUpdateType
  <1>4. TypeOK' /\ DrainerShape' /\ MinterShape'
    BY <1>3 DEF TypeInv, TypeOK, Cancel, ghostVars, mailVars, DrainerShape,
                MinterShape
  <1> QED BY <1>3, <1>4 DEF TypeInv

\* Confirm keeps the types.
LEMMA TypeConfirm ==
    ASSUME TypeInv, NEW t \in Types, NEW S \in SUBSET Email, Confirm(t, S)
    PROVE  TypeInv'
  <1>1. [type |-> t, emails |-> S, at |-> now, consumed |-> FALSE] \in Confirmation
    BY TypesAssumption DEF TypeInv, TypeOK, Confirmation
  <1>2. confirmations' \in Seq(Confirmation)
    BY <1>1 DEF TypeInv, TypeOK, Confirm
  <1> QED BY <1>2 DEF TypeInv, TypeOK, Confirm, ghostVars, mailVars, RowShape,
                DrainerShape, MinterShape

\* MintFind keeps the types.
LEMMA TypeMintFind ==
    ASSUME TypeInv, NEW m \in Minter, NEW t \in Types, NEW S \in SUBSET Email,
           NEW w \in GrantWindows, NEW c \in DOMAIN confirmations,
           MintFind(m, t, S, w, c)
    PROVE  TypeInv'
  <1>1. now + w \in Nat
    BY WindowAssumption DEF TypeInv, TypeOK
  <1>2. c \in Nat
    BY DEF TypeInv, TypeOK
  <1>3. minter' \in [Minter -> MinterState]
    BY <1>1, <1>2, TypesAssumption DEF TypeInv, TypeOK, MintFind, MinterState
  <1>4. MinterShape'
    BY TypesAssumption DEF TypeInv, TypeOK, MintFind, MinterShape
  <1> QED BY <1>3, <1>4 DEF TypeInv, TypeOK, MintFind, ghostVars, mailVars,
                dbVars, RowShape, DrainerShape

\* MintConsume keeps the types.
LEMMA TypeMintConsume ==
    ASSUME TypeInv, NEW m \in Minter, MintConsume(m)
    PROVE  TypeInv'
  <1>1. confirmations' \in Seq(Confirmation)
    <2> DEFINE c == minter[m].confirmation
               q == [confirmations[c] EXCEPT !.consumed = TRUE]
    <2>1. CASE c \in DOMAIN confirmations
      <3>1. confirmations[c] \in Confirmation
        BY <2>1 DEF TypeInv, TypeOK
      <3>2. q \in Confirmation
        BY <3>1 DEF Confirmation
      <3>3. \/ confirmations' = confirmations
            \/ confirmations' = [confirmations EXCEPT ![c] = q]
        BY <2>1 DEF TypeInv, TypeOK, MintConsume
      <3>4. confirmations \in Seq(Confirmation)
        BY DEF TypeInv, TypeOK
      <3> HIDE DEF q, c
      <3> QED BY <2>1, <3>2, <3>3, <3>4, SeqUpdate
    <2>2. CASE c \notin DOMAIN confirmations
      <3>1. confirmations' = confirmations
        BY <2>2 DEF TypeInv, TypeOK, MintConsume
      <3> QED BY <3>1 DEF TypeInv, TypeOK
    <2> QED BY <2>1, <2>2
  <1>2. minter' \in [Minter -> MinterState] /\ MinterShape'
    <2> DEFINE r == [minter[m] EXCEPT !.pc = "consumed"]
    <2>1. r \in MinterState /\ r.type \in ActionType
      BY DEF TypeInv, TypeOK, MinterShape, MintConsume, MinterState
    <2>2. IdleMinter \in MinterState /\ IdleMinter.pc = "idle"
      BY DEF IdleMinter, MinterState
    <2>3. \/ minter' = [minter EXCEPT ![m] = r]
          \/ minter' = [minter EXCEPT ![m] = IdleMinter]
      BY DEF TypeInv, TypeOK, MintConsume
    <2> HIDE DEF r
    <2> QED BY <2>1, <2>2, <2>3 DEF TypeInv, TypeOK, MinterShape
  <1> QED BY <1>1, <1>2 DEF TypeInv, TypeOK, MintConsume, ghostVars, mailVars,
                RowShape, DrainerShape

\* MintInsert keeps the types.
LEMMA TypeMintInsert ==
    ASSUME TypeInv, NEW m \in Minter, MintInsert(m)
    PROVE  TypeInv'
  <1> DEFINE g == [type |-> minter[m].type, emails |-> minter[m].emails,
                   expiresAt |-> minter[m].expiresAt, revoked |-> FALSE,
                   confirmation |-> minter[m].confirmation]
  <1>1. g \in Grant
    BY DEF TypeInv, TypeOK, MinterShape, MintInsert, MinterState, Grant
  <1>2. grants' \in Seq(Grant)
    BY <1>1 DEF TypeInv, TypeOK, MintInsert
  <1>3. \A a \in Action : /\ [row[a] EXCEPT !.status = "pending"] \in Row
                          /\ [row[a] EXCEPT !.status = "pending"].type = row[a].type
                          /\ [row[a] EXCEPT !.status = "pending"].target = row[a].target
    BY SetStatus DEF TypeInv, TypeOK, Status, Waiting
  <1>4. row' \in [Action -> Row] /\ RowShape'
    BY <1>3 DEF TypeInv, TypeOK, RowShape, MintInsert
  <1>5. minter' \in [Minter -> MinterState] /\ MinterShape'
    BY DEF TypeInv, TypeOK, MintInsert, MinterShape, MinterState, IdleMinter
  <1> QED BY <1>2, <1>4, <1>5 DEF TypeInv, TypeOK, MintInsert, ghostVars,
                mailVars, DrainerShape

\* Revoke keeps the types.
LEMMA TypeRevoke ==
    ASSUME TypeInv, NEW g \in DOMAIN grants, Revoke(g)
    PROVE  TypeInv'
  <1> DEFINE q == [grants[g] EXCEPT !.revoked = TRUE]
  <1>1. grants[g] \in Grant
    BY DEF TypeInv, TypeOK
  <1>2. q \in Grant
    BY <1>1 DEF Grant
  <1>3. grants' = [grants EXCEPT ![g] = q]
    BY DEF TypeInv, TypeOK, Revoke
  <1>4. grants' \in Seq(Grant)
    <2> HIDE DEF q
    <2> QED BY <1>2, <1>3 DEF TypeInv, TypeOK
  <1> QED BY <1>4 DEF TypeInv, TypeOK, Revoke, ghostVars, mailVars, RowShape,
                DrainerShape, MinterShape

\* CoolingOffTick keeps the types.
LEMMA TypeCoolingOffTick ==
    ASSUME TypeInv, CoolingOffTick
    PROVE  TypeInv'
  <1>1. \A a \in Action : /\ [row[a] EXCEPT !.status = "pending"] \in Row
                          /\ [row[a] EXCEPT !.status = "pending"].type = row[a].type
                          /\ [row[a] EXCEPT !.status = "pending"].target = row[a].target
    BY SetStatus DEF TypeInv, TypeOK, Status, Waiting
  <1>2. row' \in [Action -> Row] /\ RowShape'
    BY <1>1 DEF TypeInv, TypeOK, RowShape, CoolingOffTick
  <1> QED BY <1>2 DEF TypeInv, TypeOK, CoolingOffTick, ghostVars, mailVars,
                DrainerShape, MinterShape
-----------------------------------------------------------------------------
\* The drainer.
LEMMA TypeTickStart ==
    ASSUME TypeInv, NEW d \in Drainer, TickStart(d)
    PROVE  TypeInv'
  <1> DEFINE s == [drainer[d] EXCEPT !.pc = "select"]
  <1>1. s \in DrainerState /\ s.pc \notin HoldsRow
    BY DEF TypeInv, TypeOK, DrainerState, HoldsRow, Processing
  <1>2. drainer' = [drainer EXCEPT ![d] = s]
    BY DEF TypeInv, TypeOK, TickStart, Goto
  <1>3. drainer' \in [Drainer -> DrainerState] /\ DrainerShape'
    <2> HIDE DEF s
    <2> QED BY <1>1, <1>2, SetDrainerType
  <1> QED BY <1>3 DEF TypeInv, TypeOK, TickStart, ghostVars, mailVars, dbVars, RowShape,
                DrainerShape, MinterShape

\* Select keeps the types.
LEMMA TypeSelect ==
    ASSUME TypeInv, NEW d \in Drainer, Select(d)
    PROVE  TypeInv'
  <1>1. PICK b \in SUBSET Action : drainer' = [drainer EXCEPT ![d] = Rest(b)]
    BY DEF Select, Drainable
  <1>2. drainer' \in [Drainer -> DrainerState] /\ DrainerShape'
    BY <1>1, SetRestType
  <1> QED BY <1>2 DEF TypeInv, TypeOK, Select, ghostVars, mailVars, dbVars, RowShape,
                DrainerShape, MinterShape

\* Claim keeps the types.
LEMMA TypeClaim ==
    ASSUME TypeInv, NEW d \in Drainer, Claim(d)
    PROVE  TypeInv'
  <1>1. drainer[d] \in DrainerState /\ drainer[d].batch \in SUBSET Action
    BY DEF TypeInv, TypeOK, DrainerState
  <1>2. PICK a \in drainer[d].batch :
            IF row[a].status = "pending"
            THEN /\ row' = [row EXCEPT ![a].status = "draining"]
                 /\ drainer' = [drainer EXCEPT ![d].pc = "claimed", ![d].id = a,
                                               ![d].batch = @ \ {a}]
            ELSE /\ drainer' = [drainer EXCEPT ![d] = Rest(@.batch \ {a})]
                 /\ UNCHANGED row
    BY DEF Claim
  <1>3. a \in Action
    BY <1>1
  <1>4. CASE row[a].status = "pending"
    <2> DEFINE r == [row[a] EXCEPT !.status = "draining"]
               s == [drainer[d] EXCEPT !.pc = "claimed", !.id = a,
                                       !.batch = @ \ {a}]
    <2>1. r \in Row /\ r.type = row[a].type /\ r.target = row[a].target
      BY <1>3 DEF TypeInv, TypeOK, Row, Status
    <2>2. row' = [row EXCEPT ![a] = r]
      BY <1>2, <1>3, <1>4 DEF TypeInv, TypeOK
    <2>3. row' \in [Action -> Row] /\ RowShape'
      BY <1>3, <2>1, <2>2, RowUpdateType
    <2>4. s \in DrainerState /\ s.id \in Action
      BY <1>1, <1>3 DEF DrainerState, HoldsRow
    <2>5. drainer' = [drainer EXCEPT ![d] = s]
      BY <1>2, <1>4 DEF TypeInv, TypeOK
    <2>6. drainer' \in [Drainer -> DrainerState] /\ DrainerShape'
      <3> HIDE DEF s
      <3> QED BY <2>4, <2>5 DEF TypeInv, TypeOK, DrainerShape
    <2> QED BY <2>3, <2>6 DEF TypeInv, TypeOK, Claim, ghostVars, mailVars,
                MinterShape
  <1>5. CASE row[a].status # "pending"
    <2>1. drainer[d].batch \ {a} \in SUBSET Action
      BY <1>1
    <2>2. drainer' = [drainer EXCEPT ![d] = Rest(drainer[d].batch \ {a})]
      BY <1>2, <1>5 DEF TypeInv, TypeOK
    <2>3. drainer' \in [Drainer -> DrainerState] /\ DrainerShape'
      BY <2>1, <2>2, SetRestType
    <2>4. UNCHANGED row
      BY <1>2, <1>5
    <2> QED BY <2>3, <2>4 DEF TypeInv, TypeOK, Claim, ghostVars, mailVars, dbVars, RowShape,
                DrainerShape, MinterShape
  <1> QED BY <1>4, <1>5

\* Back to pending, and the tick is over.
LEMMA TypeRelease ==
    ASSUME TypeInv, NEW d \in Drainer, drainer[d].pc = "claimed",
           row' = [row EXCEPT ![drainer[d].id].status = "pending"],
           drainer' = [drainer EXCEPT ![d] = IdleDrainer]
    PROVE  /\ row' \in [Action -> Row] /\ RowShape'
           /\ drainer' \in [Drainer -> DrainerState] /\ DrainerShape'
  <1> DEFINE r == [row[drainer[d].id] EXCEPT !.status = "pending"]
  <1>1. drainer[d].id \in Action
    BY DEF TypeInv, DrainerShape, HoldsRow
  <1>2. row[drainer[d].id] \in Row
    BY <1>1 DEF TypeInv, TypeOK
  <1>3. /\ r \in Row
        /\ r.type = row[drainer[d].id].type
        /\ r.target = row[drainer[d].id].target
    BY <1>2 DEF Row, Status, Waiting
  <1>4. row' = [row EXCEPT ![drainer[d].id] = r]
    BY <1>1 DEF TypeInv, TypeOK
  <1>5. row' \in [Action -> Row] /\ RowShape'
    BY <1>1, <1>3, <1>4, RowUpdateType
  <1>6. IdleDrainer \in DrainerState /\ IdleDrainer.pc \notin HoldsRow
    BY DEF IdleDrainer, DrainerState, HoldsRow, Processing
  <1>7. drainer' \in [Drainer -> DrainerState] /\ DrainerShape'
    BY <1>6, SetDrainerType
  <1> QED BY <1>5, <1>7

\* PauseCheck keeps the types.
LEMMA TypePauseCheck ==
    ASSUME TypeInv, NEW d \in Drainer, PauseCheck(d)
    PROVE  TypeInv'
  <1>1. drainer[d].pc \in HoldsRow
    BY DEF PauseCheck, HoldsRow
  <1>2. CASE paused
    <2>1. /\ row' \in [Action -> Row] /\ RowShape'
          /\ drainer' \in [Drainer -> DrainerState] /\ DrainerShape'
      BY <1>2, TypeRelease DEF PauseCheck
    <2> QED BY <2>1 DEF TypeInv, TypeOK, PauseCheck, ghostVars, mailVars,
                MinterShape
  <1>3. CASE ~paused
    <2>1. Goto(d, "check") /\ "check" \in HoldsRow
      BY <1>3 DEF PauseCheck, HoldsRow, Processing
    <2>2. drainer' \in [Drainer -> DrainerState] /\ DrainerShape'
      BY <1>1, <2>1, GotoType
    <2> QED BY <1>3, <2>2 DEF TypeInv, TypeOK, PauseCheck, ghostVars, mailVars, dbVars, RowShape,
                DrainerShape, MinterShape
  <1> QED BY <1>2, <1>3

\* CheckGrant keeps the types.
LEMMA TypeCheckGrant ==
    ASSUME TypeInv, NEW d \in Drainer, CheckGrant(d)
    PROVE  TypeInv'
  <1> DEFINE valid == Covering(row[drainer[d].id].type, row[drainer[d].id].email)
  <1>1. drainer[d].pc \in HoldsRow /\ drainer[d].id \in Action
    BY DEF CheckGrant, TypeInv, DrainerShape, HoldsRow, Processing
  <1>2. "target" \in HoldsRow /\ "park" \in HoldsRow
    BY DEF HoldsRow, Processing
  <1>3. "grant_expired_unauthorized" \in Failure
    BY DEF Failure
  <1>4. ASSUME NEW g \in valid,
               drainer' = [drainer EXCEPT ![d].pc = "target", ![d].grant = g]
        PROVE  drainer' \in [Drainer -> DrainerState] /\ DrainerShape'
    <2> DEFINE s == [drainer[d] EXCEPT !.pc = "target", !.grant = g]
    <2>1. g \in Nat
      BY DEF Covering, TypeInv, TypeOK
    <2>2. drainer[d] \in DrainerState
      BY DEF TypeInv, TypeOK
    <2>3. s \in DrainerState /\ s.id = drainer[d].id
      BY <1>2, <2>1, <2>2 DEF DrainerState
    <2>4. drainer' = [drainer EXCEPT ![d] = s]
      BY <1>4 DEF TypeInv, TypeOK
    <2> HIDE DEF s
    <2> QED BY <1>1, <2>3, <2>4 DEF TypeInv, TypeOK, DrainerShape
  <1>5. \/ Goto(d, "target") \/ Goto(d, "park")
        \/ Fail(d, "grant_expired_unauthorized")
        \/ \E g \in valid :
              drainer' = [drainer EXCEPT ![d].pc = "target", ![d].grant = g]
    BY DEF CheckGrant
  <1>6. drainer' \in [Drainer -> DrainerState] /\ DrainerShape'
    BY <1>1, <1>2, <1>3, <1>4, <1>5, GotoType, FailType
  <1> QED BY <1>6 DEF TypeInv, TypeOK, CheckGrant, ghostVars, mailVars, dbVars, RowShape,
                DrainerShape, MinterShape

\* Park keeps the types.
LEMMA TypePark ==
    ASSUME TypeInv, NEW d \in Drainer, Park(d)
    PROVE  TypeInv'
  <1> DEFINE a == drainer[d].id
             r == [row[a] EXCEPT !.status = "pending_grant", !.grant = NULL]
  <1>1. a \in Action /\ row[a] \in Row
    BY DEF Park, TypeInv, TypeOK, DrainerShape, HoldsRow, Processing
  <1>2. r \in Row /\ r.type = row[a].type /\ r.target = row[a].target
    BY <1>1 DEF Row, Status, Waiting
  <1>3. row' = [row EXCEPT ![a] = r]
    BY <1>1 DEF TypeInv, TypeOK, Park
  <1>4. row' \in [Action -> Row] /\ RowShape'
    <2> HIDE DEF r, a
    <2> QED BY <1>1, <1>2, <1>3, RowUpdateType
  <1>5. drainer' \in [Drainer -> DrainerState] /\ DrainerShape'
    BY ResumeType DEF Park
  <1> QED BY <1>4, <1>5 DEF TypeInv, TypeOK, Park, ghostVars, mailVars,
                MinterShape

\* CheckTarget keeps the types.
LEMMA TypeCheckTarget ==
    ASSUME TypeInv, NEW d \in Drainer, CheckTarget(d)
    PROVE  TypeInv'
  <1> DEFINE a == drainer[d].id
  <1>1. drainer[d].pc \in HoldsRow
    BY DEF CheckTarget, HoldsRow, Processing
  <1>2. TargetFailure(a) # NULL => TargetFailure(a) \in Failure
    BY DEF TargetFailure, Failure
  <1>3. AfterTarget(row[a].type) \in HoldsRow
    BY DEF AfterTarget, HoldsRow, Processing
  <1>4. drainer' \in [Drainer -> DrainerState] /\ DrainerShape'
    BY <1>1, <1>2, <1>3, GotoType, FailType DEF CheckTarget
  <1> QED BY <1>4 DEF TypeInv, TypeOK, CheckTarget, ghostVars, mailVars, dbVars, RowShape,
                MinterShape

\* CheckSendCap keeps the types.
LEMMA TypeCheckSendCap ==
    ASSUME TypeInv, NEW d \in Drainer, CheckSendCap(d)
    PROVE  TypeInv'
  <1>1. drainer[d].pc \in HoldsRow /\ "record" \in HoldsRow
    BY DEF CheckSendCap, HoldsRow, Processing
  <1>2. "daily_send_cap_exceeded" \in Failure
    BY DEF Failure
  <1>3. drainer' \in [Drainer -> DrainerState] /\ DrainerShape'
    BY <1>1, <1>2, GotoType, FailType DEF CheckSendCap
  <1> QED BY <1>3 DEF TypeInv, TypeOK, CheckSendCap, ghostVars, mailVars, dbVars, RowShape,
                MinterShape

\* CapturePreState keeps the types.
LEMMA TypeCapturePreState ==
    ASSUME TypeInv, NEW d \in Drainer, CapturePreState(d)
    PROVE  TypeInv'
  <1> DEFINE a == drainer[d].id
             s == [drainer[d] EXCEPT !.pc = "record", !.folder = place[row[a].email]]
  <1>1. drainer[d].pc \in HoldsRow /\ a \in Action /\ row[a] \in Row
    BY DEF CapturePreState, TypeInv, TypeOK, DrainerShape, HoldsRow, Processing
  <1>2. CASE Fail(d, "pre_state_capture_failed")
    <2>1. "pre_state_capture_failed" \in Failure
      BY DEF Failure
    <2>2. drainer' \in [Drainer -> DrainerState] /\ DrainerShape'
      BY <1>1, <1>2, <2>1, FailType
    <2> QED BY <2>2 DEF TypeInv, TypeOK, CapturePreState, ghostVars, mailVars, dbVars, RowShape,
                MinterShape
  <1>3. CASE /\ row[a].email # NULL
             /\ drainer' = [drainer EXCEPT ![d].pc = "record",
                                           ![d].folder = place[row[a].email]]
    <2>1. row[a].email \in Email
      BY <1>1, <1>3 DEF Row
    <2>2. place[row[a].email] \in Folder
      BY <2>1 DEF TypeInv, TypeOK
    <2>3. drainer[d] \in DrainerState
      BY DEF TypeInv, TypeOK
    <2>4. s \in DrainerState /\ s.id = a
      BY <2>2, <2>3 DEF DrainerState, HoldsRow, Processing
    <2>5. drainer' = [drainer EXCEPT ![d] = s]
      BY <1>3 DEF TypeInv, TypeOK
    <2>6. drainer' \in [Drainer -> DrainerState] /\ DrainerShape'
      <3> HIDE DEF s
      <3> QED BY <1>1, <2>4, <2>5, SetDrainerType
    <2> QED BY <2>6 DEF TypeInv, TypeOK, CapturePreState, ghostVars, mailVars, dbVars, RowShape,
                MinterShape
  <1> QED BY <1>2, <1>3 DEF CapturePreState

\* InsertHistory keeps the types.
LEMMA TypeInsertHistory ==
    ASSUME TypeInv, NEW d \in Drainer, InsertHistory(d)
    PROVE  TypeInv'
  <1> DEFINE a == drainer[d].id
             h == [logged |-> TRUE, folder |-> drainer[d].folder, reverted |-> FALSE]
  <1>1. drainer[d].pc \in HoldsRow /\ {"error", "dispatch"} \subseteq HoldsRow
    BY DEF InsertHistory, HoldsRow, Processing
  <1>2. drainer' \in [Drainer -> DrainerState] /\ DrainerShape'
    BY <1>1, GotoType DEF InsertHistory
  <1>3. drainer[d] \in DrainerState
    BY DEF TypeInv, TypeOK
  <1>4. h \in HistoryRow
    BY <1>3 DEF DrainerState, HistoryRow
  <1>5. history' = history \/ history' = [history EXCEPT ![a] = h]
    BY DEF InsertHistory
  <1>6. history' \in [Action -> HistoryRow]
    BY <1>4, <1>5 DEF TypeInv, TypeOK
  <1> QED BY <1>2, <1>6 DEF TypeInv, TypeOK, InsertHistory, ghostVars,
                mailVars, RowShape, MinterShape

\* Dispatch keeps the types.
LEMMA TypeDispatch ==
    ASSUME TypeInv, NEW d \in Drainer, Dispatch(d)
    PROVE  TypeInv'
  <1> DEFINE a == drainer[d].id
             moved == [place EXCEPT ![row[a].email] = row[a].target]
  <1>1. drainer[d].pc \in HoldsRow /\ a \in Action /\ "applied" \in HoldsRow
    BY DEF Dispatch, TypeInv, DrainerShape, HoldsRow, Processing
  <1>2. "dispatch_failed" \in Failure
    BY DEF Failure
  <1>3. drainer' \in [Drainer -> DrainerState] /\ DrainerShape'
    BY <1>1, <1>2, GotoType, FailType DEF Dispatch
  <1>4. row[a].type \in MoveFamily => moved \in [Email -> Folder]
    BY <1>1 DEF TypeInv, TypeOK, RowShape
  <1>5. place' = place \/ (row[a].type \in MoveFamily /\ place' = moved)
    BY DEF Dispatch
  <1>6. place' \in [Email -> Folder]
    BY <1>4, <1>5 DEF TypeInv, TypeOK
  <1>7. attempts' \in [Action -> Seq(Nat)]
    <2>1. Append(attempts[a], now) \in Seq(Nat)
      BY <1>1 DEF TypeInv, TypeOK
    <2> QED BY <2>1 DEF TypeInv, TypeOK, Dispatch
  <1>8. pausedSends' \in [Drainer -> Nat]
    BY DEF TypeInv, TypeOK, Dispatch
  <1> QED BY <1>3, <1>6, <1>7, <1>8 DEF TypeInv, TypeOK, Dispatch, dbVars,
                RowShape, MinterShape

\* MarkApplied keeps the types.
LEMMA TypeMarkApplied ==
    ASSUME TypeInv, NEW d \in Drainer, MarkApplied(d)
    PROVE  TypeInv'
  <1> DEFINE a == drainer[d].id
             g == IF drainer[d].grant = NULL THEN row[a].grant
                                             ELSE drainer[d].grant
             b == row[a].type \in SendFamily
             p == [row[a] EXCEPT !.status = "applied"]
             q == [p EXCEPT !.terminalAt = now]
             s == [q EXCEPT !.budget = b]
             r == [row[a] EXCEPT !.status = "applied", !.terminalAt = now,
                                 !.budget = b, !.grant = g]
  <1>1. drainer[d].pc \in HoldsRow /\ a \in Action /\ "repair" \in HoldsRow
    BY DEF MarkApplied, TypeInv, DrainerShape, HoldsRow, Processing
  <1>2. row[a] \in Row /\ drainer[d] \in DrainerState /\ now \in Nat
    BY <1>1 DEF TypeInv, TypeOK
  <1>3. g \in Nat \cup {NULL} /\ b \in BOOLEAN
    BY <1>2 DEF Row, DrainerState
  <1>4. p \in Row /\ q \in Row
    BY <1>2, SetStatus, SetTerminalAt DEF Status, Terminal
  <1>5. s \in Row /\ [s EXCEPT !.grant = g] \in Row
    <2> HIDE DEF q, b, g
    <2> QED BY <1>3, <1>4, SetBudget, SetGrant
  <1>6. r \in Row /\ r.type = row[a].type /\ r.target = row[a].target
    BY <1>2, <1>5 DEF Row
  <1>7. row' = [row EXCEPT ![a] = r]
    BY <1>1 DEF TypeInv, TypeOK, MarkApplied
  <1>8. row' \in [Action -> Row] /\ RowShape'
    <2> HIDE DEF r, a
    <2> QED BY <1>1, <1>6, <1>7, RowUpdateType
  <1>9. drainer' \in [Drainer -> DrainerState] /\ DrainerShape'
    BY <1>1, GotoType, ResumeType DEF MarkApplied
  <1> QED BY <1>8, <1>9 DEF TypeInv, TypeOK, MarkApplied, ghostVars, mailVars,
                MinterShape

\* A change of the state column only.
LEMMA EmailStateType ==
    ASSUME TypeInv, NEW e \in Email, NEW x \in {"absent", "live", "deleted"}
    PROVE  [email EXCEPT ![e].state = x] \in [Email -> EmailRow]
  BY DEF TypeInv, TypeOK, EmailRow

\* Repair keeps the types.
LEMMA TypeRepair ==
    ASSUME TypeInv, NEW d \in Drainer, Repair(d)
    PROVE  TypeInv'
  <1> DEFINE e == row[drainer[d].id].email
  <1>1. drainer' \in [Drainer -> DrainerState] /\ DrainerShape'
    BY ResumeType DEF Repair
  <1>2. email' \in [Email -> EmailRow]
    <2>1. CASE e \in Email
      BY <2>1, EmailStateType DEF TypeInv, TypeOK, Repair
    <2>2. CASE e \notin Email
      <3>1. email' = email
        BY <2>2 DEF TypeInv, TypeOK, Repair
      <3> QED BY <3>1 DEF TypeInv, TypeOK
    <2> QED BY <2>1, <2>2
  <1> QED BY <1>1, <1>2 DEF TypeInv, TypeOK, Repair, dbVars, ghostVars,
                RowShape, MinterShape

\* MarkFailed keeps the types.
LEMMA TypeMarkFailed ==
    ASSUME TypeInv, NEW d \in Drainer, MarkFailed(d)
    PROVE  TypeInv'
  <1>1. /\ drainer[d].pc \in HoldsRow
        /\ drainer[d].id \in Action
        /\ "notify" \in HoldsRow
    BY DEF MarkFailed, TypeInv, DrainerShape, HoldsRow, Processing
  <1>2. drainer[d].why \in Failure \cup {NULL}
    BY DEF TypeInv, TypeOK, DrainerState
  <1>3. row' \in [Action -> Row] /\ RowShape'
    BY <1>1, <1>2, MarkedFailedType DEF MarkFailed
  <1>4. drainer' \in [Drainer -> DrainerState] /\ DrainerShape'
    BY <1>1, GotoType, ResumeType DEF MarkFailed
  <1> QED BY <1>3, <1>4 DEF TypeInv, TypeOK, MarkFailed, ghostVars, mailVars,
                MinterShape

\* NotifyFailure keeps the types.
LEMMA TypeNotifyFailure ==
    ASSUME TypeInv, NEW d \in Drainer, NotifyFailure(d)
    PROVE  TypeInv'
  <1>1. drainer[d].id \in Action
    BY DEF NotifyFailure, TypeInv, DrainerShape, HoldsRow, Processing
  <1>2. drainer' \in [Drainer -> DrainerState] /\ DrainerShape'
    BY ResumeType DEF NotifyFailure
  <1> QED BY <1>1, <1>2 DEF TypeInv, TypeOK, NotifyFailure, ghostVars,
                mailVars, RowShape, MinterShape

\* Recover keeps the types.
LEMMA TypeRecover ==
    ASSUME TypeInv, NEW d \in Drainer, Recover(d)
    PROVE  TypeInv'
  <1>1. drainer[d].id \in Action
    BY DEF Recover, TypeInv, DrainerShape, HoldsRow
  <1>2. "drainer_internal_error" \in Failure
    BY DEF Failure
  <1>3. row' \in [Action -> Row] /\ RowShape'
    BY <1>1, <1>2, MarkedFailedType DEF Recover
  <1>4. drainer' \in [Drainer -> DrainerState] /\ DrainerShape'
    BY ResumeType DEF Recover
  <1> QED BY <1>3, <1>4 DEF TypeInv, TypeOK, Recover, ghostVars, mailVars,
                MinterShape

\* Every step of a drainer keeps the types.
LEMMA TypeDrainStep ==
    ASSUME TypeInv, NEW d \in Drainer, DrainStep(d)
    PROVE  TypeInv'
  BY TypeTickStart, TypeSelect, TypeClaim, TypePauseCheck, TypeCheckGrant,
     TypePark, TypeCheckTarget, TypeCheckSendCap, TypeCapturePreState,
     TypeInsertHistory, TypeDispatch, TypeMarkApplied, TypeRepair,
     TypeMarkFailed, TypeNotifyFailure, TypeRecover DEF DrainStep
-----------------------------------------------------------------------------
\* The operator, the sync worker, the clock and the faults.
LEMMA TypeReplayCheck ==
    ASSUME TypeInv, NEW a \in Action, ReplayCheck(a)
    PROVE  TypeInv'
  BY DEF TypeInv, TypeOK, ReplayCheck, dbVars, mailVars, ghostVars, RowShape,
                DrainerShape, MinterShape

\* ReplayReset keeps the types.
LEMMA TypeReplayReset ==
    ASSUME TypeInv, NEW a \in Action, ReplayReset(a)
    PROVE  TypeInv'
  <1> DEFINE r == [row[a] EXCEPT !.status = "pending", !.terminalAt = NULL,
                                 !.failure = NULL]
  <1>1. row[a] \in Row
    BY DEF TypeInv, TypeOK
  <1>2. r \in Row /\ r.type = row[a].type /\ r.target = row[a].target
    <2> DEFINE p == [row[a] EXCEPT !.status = "pending"]
               q == [p EXCEPT !.terminalAt = NULL]
    <2>1. p \in Row /\ q \in Row
      BY <1>1, SetStatus, SetTerminalAt DEF Status, Waiting
    <2>2. [q EXCEPT !.failure = NULL] \in Row
      BY <2>1, SetFailure
    <2> QED BY <1>1, <2>2 DEF Row
  <1>3. row' = row \/ row' = [row EXCEPT ![a] = r]
    BY DEF TypeInv, TypeOK, ReplayReset
  <1>4. row' \in [Action -> Row] /\ RowShape'
    <2> HIDE DEF r
    <2>1. CASE row' = row
      BY <2>1 DEF TypeInv, TypeOK, RowShape
    <2> QED BY <1>2, <1>3, <2>1, RowUpdateType
  <1>5. replaying' \subseteq Action /\ replays' \in Nat
    BY DEF TypeInv, TypeOK, ReplayReset
  <1> QED BY <1>4, <1>5 DEF TypeInv, TypeOK, ReplayReset, mailVars,
                DrainerShape, MinterShape

\* Pause keeps the types.
LEMMA TypePause ==
    ASSUME TypeInv, Pause \/ Unpause
    PROVE  TypeInv'
  <1>1. CASE Pause
    BY <1>1 DEF TypeInv, TypeOK, Pause, ghostVars, mailVars, RowShape,
                DrainerShape, MinterShape
  <1>2. CASE Unpause
    BY <1>2 DEF TypeInv, TypeOK, Unpause, mailVars, RowShape, DrainerShape,
                MinterShape
  <1> QED BY <1>1, <1>2

\* The sync worker and resurrect keep the types.
LEMMA TypeSync ==
    ASSUME TypeInv, NEW e \in Email,
           Upsert(e) \/ SoftDelete(e) \/ Resurrect(e)
    PROVE  TypeInv'
  <1> DEFINE m == IF email[e].marker = NULL THEN 0 ELSE email[e].marker + 1
             s == IF email[e].state = "absent" THEN "live" ELSE email[e].state
             r == [email[e] EXCEPT !.state = s, !.marker = m]
  <1>1. CASE Upsert(e)
    <2>1. email[e] \in EmailRow
      BY DEF TypeInv, TypeOK
    <2>2. m \in Nat /\ s \in {"absent", "live", "deleted"}
      BY <2>1 DEF EmailRow
    <2>3. r \in EmailRow
      <3> HIDE DEF m, s
      <3> QED BY <2>1, <2>2 DEF EmailRow
    <2>4. email' = [email EXCEPT ![e] = r]
      BY <1>1 DEF TypeInv, TypeOK, Upsert
    <2>5. email' \in [Email -> EmailRow]
      <3> HIDE DEF r
      <3> QED BY <2>3, <2>4 DEF TypeInv, TypeOK
    <2> QED BY <1>1, <2>5 DEF TypeInv, TypeOK, Upsert, dbVars, mailVars, ghostVars, RowShape,
                DrainerShape, MinterShape
  <1>2. CASE SoftDelete(e)
    <2>1. email' \in [Email -> EmailRow]
      BY <1>2, EmailStateType DEF SoftDelete
    <2> QED BY <1>2, <2>1 DEF TypeInv, TypeOK, SoftDelete, dbVars, mailVars, ghostVars, RowShape,
                DrainerShape, MinterShape
  <1>3. CASE Resurrect(e)
    <2>1. email' \in [Email -> EmailRow]
      BY <1>3, EmailStateType DEF Resurrect
    <2> QED BY <1>3, <2>1 DEF TypeInv, TypeOK, Resurrect, dbVars, mailVars, ghostVars, RowShape,
                DrainerShape, MinterShape
  <1> QED BY <1>1, <1>2, <1>3

\* Tick keeps the types.
LEMMA TypeTick ==
    ASSUME TypeInv, Tick
    PROVE  TypeInv'
  BY DEF TypeInv, TypeOK, Tick, dbVars, mailVars, ghostVars, RowShape,
                DrainerShape, MinterShape

\* Crash keeps the types.
LEMMA TypeCrash ==
    ASSUME TypeInv, NEW d \in Drainer, Crash(d)
    PROVE  TypeInv'
  <1>1. IdleDrainer \in DrainerState /\ IdleDrainer.pc \notin HoldsRow
    BY DEF IdleDrainer, DrainerState, HoldsRow, Processing
  <1>2. drainer' \in [Drainer -> DrainerState] /\ DrainerShape'
    BY <1>1, SetDrainerType DEF Crash
  <1> QED BY <1>2 DEF TypeInv, TypeOK, Crash, mailVars, dbVars, RowShape,
                MinterShape

\* ApiCrash keeps the types.
LEMMA TypeApiCrash ==
    ASSUME TypeInv, NEW m \in Minter, ApiCrash(m)
    PROVE  TypeInv'
  <1>1. IdleMinter \in MinterState /\ IdleMinter.pc = "idle"
    BY DEF IdleMinter, MinterState
  <1>2. minter' \in [Minter -> MinterState] /\ MinterShape'
    BY <1>1 DEF TypeInv, TypeOK, ApiCrash, MinterShape
  <1> QED BY <1>2 DEF TypeInv, TypeOK, ApiCrash, mailVars, dbVars, RowShape,
                DrainerShape

\* DbError keeps the types.
LEMMA TypeDbError ==
    ASSUME TypeInv, NEW d \in Drainer, DbError(d)
    PROVE  TypeInv'
  <1>1. {"error", "late_error"} \subseteq HoldsRow /\ Owning \subseteq HoldsRow
    BY DEF HoldsRow, Owning
  <1>2. drainer[d].pc \in HoldsRow
    BY DEF DbError, HoldsRow, Owning, Processing
  <1>3. drainer' \in [Drainer -> DrainerState] /\ DrainerShape'
    BY <1>1, <1>2, GotoType, ResumeType DEF DbError
  <1> QED BY <1>3 DEF TypeInv, TypeOK, DbError, mailVars, dbVars, RowShape,
                MinterShape

\* PauseUnreadable keeps the types.
LEMMA TypePauseUnreadable ==
    ASSUME TypeInv, NEW d \in Drainer, PauseUnreadable(d)
    PROVE  TypeInv'
  <1>1. /\ row' \in [Action -> Row] /\ RowShape'
        /\ drainer' \in [Drainer -> DrainerState] /\ DrainerShape'
    BY TypeRelease DEF PauseUnreadable
  <1> QED BY <1>1 DEF TypeInv, TypeOK, PauseUnreadable, mailVars, MinterShape
-----------------------------------------------------------------------------
\* Every verb keeps the types.
LEMMA TypeVerbStep == TypeInv /\ VerbStep => TypeInv'
  BY TypePropose, TypeCancel, TypeConfirm, TypeMintFind, TypeMintConsume,
     TypeMintInsert, TypeRevoke DEF VerbStep, MintStep

\* Operator, sync, ticker, clock and faults keep the types.
LEMMA TypeOtherStep ==
    ASSUME TypeInv, OperatorStep \/ SyncStep \/ FaultStep \/ CoolingOffTick \/ Tick
    PROVE  TypeInv'
  BY TypeReplayCheck, TypeReplayReset, TypePause, TypeSync, TypeCrash,
     TypeApiCrash, TypeDbError, TypePauseUnreadable, TypeCoolingOffTick, TypeTick
     DEF OperatorStep, SyncStep, FaultStep

\* Stuttering keeps the types.
LEMMA TypeStutter == TypeInv /\ UNCHANGED vars => TypeInv'
  BY DEF TypeInv, TypeOK, vars, dbVars, mailVars, ghostVars, RowShape,
                DrainerShape, MinterShape

\* Every step of the specification keeps the types.
LEMMA TypeStep == TypeInv /\ [Next]_vars => TypeInv'
  BY TypeVerbStep, TypeOtherStep, TypeDrainStep, TypeStutter DEF Next

\* The strengthened invariant holds in every reachable state.
LEMMA TypeInvariant == Spec => []TypeInv
  <1> QED BY TypeInit, TypeStep, PTL DEF Spec

\* No handler, interleaving or fault ever writes a column or a local outside
\* its type: the CHECK on pending_actions.status never fires.
THEOREM TypeCorrect == Spec => []TypeOK
  <1>1. TypeInv => TypeOK
    BY DEF TypeInv
  <1> QED BY TypeInvariant, <1>1, PTL
-----------------------------------------------------------------------------
(* At most one dispatch.  The PRIMARY KEY of action_history is what makes  *)
(* it true, not the row's status: a row is dispatched only by the drainer  *)
(* whose INSERT succeeded, and before any attempt was made.                *)

Dispatching(d) == drainer[d].pc = "dispatch"

UnloggedUntried == \A a \in Action : ~history[a].logged => attempts[a] = <<>>

DispatchingUntried ==
    \A d \in Drainer : Dispatching(d) =>
        /\ history[drainer[d].id].logged
        /\ attempts[drainer[d].id] = <<>>

OneDispatcher ==
    \A c, d \in Drainer :
        Dispatching(c) /\ Dispatching(d) /\ drainer[c].id = drainer[d].id => c = d

OnceInv == UnloggedUntried /\ DispatchingUntried /\ OneDispatcher /\ AtMostOneDispatch
\* A step that logs nothing, dispatches nothing and lets no drainer start to.
Quiet ==
    /\ UNCHANGED <<history, attempts>>
    /\ \A d \in Drainer : drainer'[d].pc = "dispatch" => drainer'[d] = drainer[d]

\* A quiet step cannot break the invariant.
LEMMA QuietKeepsOnce ==
    ASSUME TypeInv, OnceInv, Quiet
    PROVE  OnceInv'
  BY DEF Quiet, OnceInv, UnloggedUntried, DispatchingUntried, OneDispatcher,
         AtMostOneDispatch, Dispatching

\* Moving on, but not to the dispatch, starts no dispatch.
LEMMA GotoQuiet ==
    ASSUME TypeInv, NEW d \in Drainer, NEW pc, pc # "dispatch", Goto(d, pc)
    PROVE  \A c \in Drainer : drainer'[c].pc = "dispatch" => drainer'[c] = drainer[c]
  BY DEF TypeInv, TypeOK, DrainerState, Goto

\* Nor does a failure.
LEMMA FailQuiet ==
    ASSUME TypeInv, NEW d \in Drainer, NEW why, Fail(d, why)
    PROVE  \A c \in Drainer : drainer'[c].pc = "dispatch" => drainer'[c] = drainer[c]
  BY DEF TypeInv, TypeOK, DrainerState, Fail

\* Nor does a reset.
LEMMA SetQuiet ==
    ASSUME TypeInv, NEW d \in Drainer, NEW s, s.pc # "dispatch",
           drainer' = [drainer EXCEPT ![d] = s]
    PROVE  \A c \in Drainer : drainer'[c].pc = "dispatch" => drainer'[c] = drainer[c]
  BY DEF TypeInv, TypeOK

\* A drainer between two rows does not dispatch.
LEMMA RestQuiet == \A b : Rest(b).pc # "dispatch"
  BY DEF Rest, IdleDrainer

\* Nor does going on with the batch.
LEMMA ResumeQuiet ==
    ASSUME TypeInv, NEW d \in Drainer, Resume(d)
    PROVE  \A c \in Drainer : drainer'[c].pc = "dispatch" => drainer'[c] = drainer[c]
  <1>1. drainer' = [drainer EXCEPT ![d] = Rest(drainer[d].batch)]
    BY DEF TypeInv, TypeOK, Resume
  <1> QED BY <1>1, RestQuiet, SetQuiet

\* Steps that leave the drainers alone.
LEMMA VerbQuiet ==
    ASSUME TypeInv, VerbStep \/ OperatorStep \/ SyncStep \/ CoolingOffTick \/ Tick
    PROVE  Quiet
  <1>1. UNCHANGED <<history, attempts, drainer>>
    BY DEF VerbStep, OperatorStep, SyncStep, Propose, Cancel, Confirm, MintFind,
           MintStep, MintConsume, MintInsert, Revoke, ReplayCheck, ReplayReset,
           Pause, Unpause, Upsert, SoftDelete, Resurrect, CoolingOffTick, Tick,
           dbVars, ghostVars
  <1> QED BY <1>1 DEF Quiet

\* A fault logs and dispatches nothing.
LEMMA FaultQuiet ==
    ASSUME TypeInv, FaultStep
    PROVE  Quiet
  <1>1. ASSUME NEW d \in Drainer, Crash(d) PROVE Quiet
    BY <1>1, SetQuiet DEF Crash, Quiet, IdleDrainer, dbVars
  <1>2. ASSUME NEW d \in Drainer, DbError(d) PROVE Quiet
    BY <1>2, GotoQuiet, ResumeQuiet DEF DbError, Quiet, dbVars
  <1>3. ASSUME NEW m \in Minter, ApiCrash(m) PROVE Quiet
    BY <1>3 DEF ApiCrash, Quiet, dbVars
  <1>4. ASSUME NEW d \in Drainer, PauseUnreadable(d) PROVE Quiet
    BY <1>4, SetQuiet DEF PauseUnreadable, Quiet, IdleDrainer
  <1> QED BY <1>1, <1>2, <1>3, <1>4 DEF FaultStep

\* Only the history INSERT and the dispatch are not quiet.
LEMMA DrainQuiet ==
    ASSUME TypeInv, NEW d \in Drainer, DrainStep(d),
           ~InsertHistory(d), ~Dispatch(d)
    PROVE  Quiet
  <1>1. CASE TickStart(d) \/ CheckSendCap(d) \/ MarkFailed(d) \/ MarkApplied(d)
    BY <1>1, GotoQuiet, FailQuiet, ResumeQuiet
       DEF TickStart, CheckSendCap, MarkFailed, MarkApplied, Quiet, dbVars, ghostVars
  <1>2. CASE Select(d)
    BY <1>2, RestQuiet, SetQuiet DEF Select, Quiet, dbVars, ghostVars
  <1>3. CASE Claim(d)
    <2>1. \A c \in Drainer \ {d} : drainer'[c] = drainer[c]
      BY <1>3 DEF TypeInv, TypeOK, Claim
    <2>2. drainer'[d].pc # "dispatch"
      BY <1>3, RestQuiet DEF TypeInv, TypeOK, DrainerState, Claim
    <2> QED BY <1>3, <2>1, <2>2 DEF Claim, Quiet, ghostVars
  <1>4. CASE PauseCheck(d)
    BY <1>4, GotoQuiet, SetQuiet DEF PauseCheck, Quiet, IdleDrainer, ghostVars
  <1>5. CASE CheckGrant(d)
    <2>1. \A c \in Drainer \ {d} : drainer'[c] = drainer[c]
      BY <1>5 DEF TypeInv, TypeOK, CheckGrant, Goto, Fail
    <2>2. drainer'[d].pc # "dispatch"
      BY <1>5 DEF TypeInv, TypeOK, DrainerState, CheckGrant, Goto, Fail
    <2> QED BY <1>5, <2>1, <2>2 DEF CheckGrant, Quiet, ghostVars, dbVars
  <1>6. CASE CheckTarget(d)
    <2>1. AfterTarget(row[drainer[d].id].type) # "dispatch"
      BY DEF AfterTarget
    <2> QED BY <1>6, <2>1, GotoQuiet, FailQuiet
            DEF CheckTarget, Quiet, ghostVars, dbVars
  <1>7. CASE CapturePreState(d)
    <2>1. \A c \in Drainer \ {d} : drainer'[c] = drainer[c]
      BY <1>7 DEF TypeInv, TypeOK, CapturePreState, Fail
    <2>2. drainer'[d].pc # "dispatch"
      BY <1>7 DEF TypeInv, TypeOK, DrainerState, CapturePreState, Fail
    <2> QED BY <1>7, <2>1, <2>2 DEF CapturePreState, Quiet, ghostVars, dbVars
  <1>8. CASE Park(d) \/ Repair(d) \/ NotifyFailure(d) \/ Recover(d)
    BY <1>8, ResumeQuiet
       DEF Park, Repair, NotifyFailure, Recover, Quiet, ghostVars, dbVars
  <1> QED BY <1>1, <1>2, <1>3, <1>4, <1>5, <1>6, <1>7, <1>8 DEF DrainStep

\* The INSERT decides: whoever gets past it finds the row unlogged, hence
\* untried, and leaves it logged.
LEMMA InsertKeepsOnce ==
    ASSUME TypeInv, OnceInv, NEW d \in Drainer, InsertHistory(d)
    PROVE  OnceInv'
  <1> DEFINE a == drainer[d].id
  <1>1. a \in Action /\ UNCHANGED attempts
    BY DEF InsertHistory, TypeInv, DrainerShape, HoldsRow, Processing, ghostVars
  <1>2. CASE history[a].logged
    <2>1. Quiet
      BY <1>2, GotoQuiet DEF InsertHistory, Quiet, ghostVars
    <2> QED BY <2>1, QuietKeepsOnce
  <1>3. CASE ~history[a].logged
    <2>1. /\ \A c \in Drainer \ {d} : drainer'[c] = drainer[c]
          /\ drainer'[d].id = a
      BY <1>3 DEF InsertHistory, Goto, TypeInv, TypeOK, DrainerState
    <2>2. /\ history'[a].logged
          /\ \A b \in Action \ {a} : history'[b] = history[b]
      BY <1>1, <1>3 DEF InsertHistory, TypeInv, TypeOK
    <2>3. attempts[a] = <<>>
      BY <1>1, <1>3 DEF OnceInv, UnloggedUntried
    <2>4. \A c \in Drainer : Dispatching(c) => drainer[c].id # a
      BY <1>3 DEF OnceInv, DispatchingUntried
    <2>5. \A c \in Drainer : drainer[c].pc = "dispatch" => drainer[c].id \in Action
      BY DEF TypeInv, DrainerShape, HoldsRow, Processing
    <2>6. UnloggedUntried' /\ AtMostOneDispatch'
      BY <1>1, <2>2 DEF OnceInv, UnloggedUntried, AtMostOneDispatch
    <2>7. DispatchingUntried'
      BY <1>1, <2>1, <2>2, <2>3, <2>5 DEF OnceInv, DispatchingUntried, Dispatching
    <2>8. OneDispatcher'
      BY <2>1, <2>4 DEF OnceInv, OneDispatcher, Dispatching
    <2> QED BY <2>6, <2>7, <2>8 DEF OnceInv
  <1> QED BY <1>2, <1>3

\* The dispatch is the one attempt, and the drainer leaves it.
LEMMA DispatchKeepsOnce ==
    ASSUME TypeInv, OnceInv, NEW d \in Drainer, Dispatch(d)
    PROVE  OnceInv'
  <1> DEFINE a == drainer[d].id
  <1>1. a \in Action /\ UNCHANGED history
    BY DEF Dispatch, TypeInv, DrainerShape, HoldsRow, Processing, dbVars
  <1>2. /\ \A c \in Drainer \ {d} : drainer'[c] = drainer[c]
        /\ drainer'[d].pc # "dispatch"
    BY DEF Dispatch, Goto, Fail, TypeInv, TypeOK, DrainerState
  <1>3. history[a].logged /\ attempts[a] = <<>>
    BY DEF Dispatch, OnceInv, DispatchingUntried, Dispatching
  <1>4. \A c \in Drainer \ {d} : Dispatching(c) => drainer[c].id # a
    BY DEF Dispatch, OnceInv, OneDispatcher, Dispatching
  <1>5. /\ attempts'[a] = <<now>>
        /\ \A b \in Action \ {a} : attempts'[b] = attempts[b]
    BY <1>1, <1>3 DEF Dispatch, TypeInv, TypeOK
  <1>6. UnloggedUntried'
    BY <1>1, <1>3, <1>5 DEF OnceInv, UnloggedUntried
  <1>7. AtMostOneDispatch'
    <2>1. Len(attempts'[a]) <= 1
      BY <1>5
    <2>2. \A b \in Action \ {a} : Len(attempts'[b]) <= 1
      BY <1>5 DEF OnceInv, AtMostOneDispatch
    <2> QED BY <2>1, <2>2 DEF AtMostOneDispatch
  <1>8. \A c \in Drainer : drainer[c].pc = "dispatch" => drainer[c].id \in Action
    BY DEF TypeInv, DrainerShape, HoldsRow, Processing
  <1>9. DispatchingUntried' /\ OneDispatcher'
    BY <1>1, <1>2, <1>4, <1>5, <1>8
       DEF OnceInv, DispatchingUntried, OneDispatcher, Dispatching
  <1> QED BY <1>6, <1>7, <1>9 DEF OnceInv

\* Every step keeps one dispatch per row.
LEMMA OnceStep == TypeInv /\ OnceInv /\ [Next]_vars => OnceInv'
  <1> SUFFICES ASSUME TypeInv, OnceInv, [Next]_vars PROVE OnceInv'
    OBVIOUS
  <1>1. CASE UNCHANGED vars
    BY <1>1, QuietKeepsOnce DEF vars, dbVars, ghostVars, Quiet
  <1>2. ASSUME NEW d \in Drainer, DrainStep(d) PROVE OnceInv'
    BY <1>2, DrainQuiet, QuietKeepsOnce, InsertKeepsOnce, DispatchKeepsOnce
  <1>3. CASE VerbStep \/ OperatorStep \/ SyncStep \/ CoolingOffTick \/ Tick
    BY <1>3, VerbQuiet, QuietKeepsOnce
  <1>4. CASE FaultStep
    BY <1>4, FaultQuiet, QuietKeepsOnce
  <1> QED BY <1>1, <1>2, <1>3, <1>4 DEF Next

\* The invariant holds of every reachable state.
LEMMA OnceInvariant == Spec => []OnceInv
  <1>1. Init => OnceInv
    BY DEF Init, OnceInv, UnloggedUntried, DispatchingUntried, OneDispatcher,
           AtMostOneDispatch, Dispatching, IdleDrainer
  <1> QED BY TypeInvariant, <1>1, OnceStep, PTL DEF Spec

\* For any number of drainers, crashes, database errors and replays, no row
\* reaches Graph twice.
THEOREM DispatchedAtMostOnce == Spec => []AtMostOneDispatch
  <1>1. OnceInv => AtMostOneDispatch
    BY DEF OnceInv
  <1> QED BY OnceInvariant, <1>1, PTL
-----------------------------------------------------------------------------
(* Ownership.  A drainer past its terminal write no longer owns its row;    *)
(* until a replay its row is closed, so nobody else can own it either.      *)

Late == {"repair", "notify", "late_error"}

Undisturbed == faults = 0 \/ replays = 0 \/ OneDrainer

LateRowsClosed ==
    replays = 0 =>
        \A d \in Drainer : drainer[d].pc \in Late =>
            row[drainer[d].id].status \in {"applied", "failed"}

LateErrorIsFault == \A d \in Drainer : drainer[d].pc = "late_error" => faults > 0

OwnInv == ClaimOwnership /\ LateRowsClosed /\ LateErrorIsFault
-----------------------------------------------------------------------------
(* Every step is one of these five, seen from the rows drainers hold. *)

\* A step of somebody else: no drainer moves, no drained row moves, and
\* unless it is a replay no closed row moves.
Outside ==
    /\ UNCHANGED drainer
    /\ faults' \in Nat /\ faults' >= faults
    /\ replays' \in Nat /\ replays' >= replays
    /\ \A a \in Action : row[a].status = "draining" => row'[a].status = "draining"
    /\ replays' = 0 => \A a \in Action :
            row[a].status \in {"applied", "failed"} => row'[a].status = row[a].status

\* Drainer d moves on, or gives up, without writing its row.
Inward(d) ==
    /\ UNCHANGED <<row, replays>>
    /\ faults' \in Nat /\ faults' >= faults
    /\ \A c \in Drainer \ {d} : drainer'[c] = drainer[c]
    /\ drainer'[d].pc \in Owning =>
            drainer[d].pc \in Owning /\ drainer'[d].id = drainer[d].id
    /\ drainer'[d].pc \in Late =>
            /\ drainer[d].pc \in Late /\ drainer'[d].id = drainer[d].id
            /\ drainer'[d].pc = "late_error" => faults' > 0

\* Drainer d claims a pending row.
Taking(d) ==
    /\ UNCHANGED <<replays, faults>>
    /\ \A c \in Drainer \ {d} : drainer'[c] = drainer[c]
    /\ drainer'[d].pc = "claimed"
    /\ \E a \in Action :
        /\ drainer'[d].id = a
        /\ row[a].status = "pending" /\ row'[a].status = "draining"
        /\ \A b \in Action \ {a} : row'[b] = row[b]

\* Drainer d writes the row it owns and lets go of it.
Leaving(d) ==
    /\ UNCHANGED replays
    /\ faults' \in Nat /\ faults' >= faults
    /\ drainer[d].pc \in Owning
    /\ \A c \in Drainer \ {d} : drainer'[c] = drainer[c]
    /\ drainer'[d].pc \notin Owning \cup {"late_error"}
    /\ \A b \in Action \ {drainer[d].id} : row'[b] = row[b]
    /\ drainer'[d].pc \in Late =>
            /\ drainer'[d].id = drainer[d].id
            /\ row'[drainer[d].id].status \in {"applied", "failed"}

\* Drainer d's catch-all fails a row it had already finished.
LateWrite(d) ==
    /\ UNCHANGED <<replays, faults>>
    /\ drainer[d].pc = "late_error"
    /\ \A c \in Drainer \ {d} : drainer'[c] = drainer[c]
    /\ drainer'[d].pc \notin Owning \cup Late
    /\ row'[drainer[d].id].status = "failed"
    /\ \A b \in Action \ {drainer[d].id} : row'[b] = row[b]

\* A step outside the owned rows keeps ownership.
LEMMA OutsideKeepsOwn ==
    ASSUME TypeInv, OwnInv, Outside
    PROVE  OwnInv'
  <1>1. /\ replays' = 0 => replays = 0
        /\ faults' = 0 => faults = 0
        /\ faults > 0 => faults' > 0
    BY DEF TypeInv, TypeOK, Outside
  <1>2. \A d \in Drainer : drainer[d].pc \in HoldsRow => drainer[d].id \in Action
    BY DEF TypeInv, DrainerShape
  <1>3. Owning \cup Late \subseteq HoldsRow
    BY DEF Owning, Late, HoldsRow, Processing
  <1>4. ClaimOwnership'
    BY <1>1, <1>2, <1>3 DEF OwnInv, ClaimOwnership, Owns, Outside, OneDrainer
  <1>5. LateRowsClosed'
    BY <1>1, <1>2, <1>3 DEF OwnInv, LateRowsClosed, Outside
  <1>6. LateErrorIsFault'
    BY <1>1 DEF OwnInv, LateErrorIsFault, Outside
  <1> QED BY <1>4, <1>5, <1>6 DEF OwnInv

\* So does a step of an owner on its own row.
LEMMA InwardKeepsOwn ==
    ASSUME TypeInv, OwnInv, NEW d \in Drainer, Inward(d)
    PROVE  OwnInv'
  <1>1. faults \in Nat /\ (faults' = 0 => faults = 0) /\ (faults > 0 => faults' > 0)
    BY DEF TypeInv, TypeOK, Inward
  <1>2. ClaimOwnership'
    BY <1>1 DEF OwnInv, ClaimOwnership, Owns, Inward, OneDrainer
  <1>3. LateRowsClosed'
    BY DEF OwnInv, LateRowsClosed, Inward
  <1>4. LateErrorIsFault'
    BY <1>1 DEF OwnInv, LateErrorIsFault, Inward, Late
  <1> QED BY <1>2, <1>3, <1>4 DEF OwnInv

\* So does a claim.
LEMMA TakingKeepsOwn ==
    ASSUME TypeInv, OwnInv, NEW d \in Drainer, Taking(d)
    PROVE  OwnInv'
  <1>1. PICK a \in Action :
            /\ drainer'[d].id = a
            /\ row[a].status = "pending" /\ row'[a].status = "draining"
            /\ \A b \in Action \ {a} : row'[b] = row[b]
    BY DEF Taking
  <1>2. \A c \in Drainer : drainer[c].pc \in HoldsRow => drainer[c].id \in Action
    BY DEF TypeInv, DrainerShape
  <1>3. Owning \cup Late \subseteq HoldsRow /\ "claimed" \notin Late
    BY DEF Owning, Late, HoldsRow, Processing
  <1>4. ClaimOwnership'
    <2>1. CASE ~Undisturbed
      BY <2>1 DEF ClaimOwnership, Undisturbed, Taking, OneDrainer
    <2>2. CASE Undisturbed
      <3>1. \A c \in Drainer \ {d} : Owns(c) =>
                drainer[c].id \in Action \ {a} /\ row[drainer[c].id].status = "draining"
        BY <1>1, <1>2, <1>3, <2>2 DEF Undisturbed, OwnInv, ClaimOwnership, Owns
      <3>2. \A b, c \in Drainer \ {d} : b # c /\ Owns(b) /\ Owns(c) =>
                drainer[b].id # drainer[c].id
        BY <2>2 DEF Undisturbed, OwnInv, ClaimOwnership
      <3> QED BY <1>1, <3>1, <3>2 DEF ClaimOwnership, Owns, Taking
    <2> QED BY <2>1, <2>2
  <1>5. LateRowsClosed'
    BY <1>1, <1>2, <1>3 DEF OwnInv, LateRowsClosed, Taking
  <1>6. LateErrorIsFault'
    BY DEF OwnInv, LateErrorIsFault, Taking
  <1> QED BY <1>4, <1>5, <1>6 DEF OwnInv

\* So does a terminal write.
LEMMA LeavingKeepsOwn ==
    ASSUME TypeInv, OwnInv, NEW d \in Drainer, Leaving(d)
    PROVE  OwnInv'
  <1>1. \A c \in Drainer : drainer[c].pc \in HoldsRow => drainer[c].id \in Action
    BY DEF TypeInv, DrainerShape
  <1>2. Owning \cup Late \subseteq HoldsRow
    BY DEF Owning, Late, HoldsRow, Processing
  <1>3. (faults' = 0 => faults = 0) /\ (faults > 0 => faults' > 0)
    BY DEF TypeInv, TypeOK, Leaving
  <1>4. ClaimOwnership'
    <2>1. CASE ~Undisturbed
      BY <1>3, <2>1 DEF ClaimOwnership, Undisturbed, Leaving, OneDrainer
    <2>2. CASE Undisturbed
      <3>1. \A c \in Drainer : Owns(c) => row[drainer[c].id].status = "draining"
        BY <2>2 DEF Undisturbed, OwnInv, ClaimOwnership
      <3>2. \A b, c \in Drainer : b # c /\ Owns(b) /\ Owns(c) =>
                drainer[b].id # drainer[c].id
        BY <2>2 DEF Undisturbed, OwnInv, ClaimOwnership
      <3>3. Owns(d) /\ ~Owns(d)'
        BY DEF Leaving, Owns
      <3> QED BY <1>1, <1>2, <3>1, <3>2, <3>3 DEF ClaimOwnership, Owns, Leaving
    <2> QED BY <2>1, <2>2
  <1>5. LateRowsClosed'
    <2> SUFFICES ASSUME replays = 0, NEW c \in Drainer, drainer'[c].pc \in Late
                 PROVE  row'[drainer'[c].id].status \in {"applied", "failed"}
      BY DEF LateRowsClosed, Leaving
    <2>1. CASE c = d
      BY <2>1 DEF Leaving
    <2>2. CASE c # d
      <3>1. drainer'[c] = drainer[c] /\ drainer[c].id \in Action
        BY <1>1, <1>2, <2>2 DEF Leaving
      <3>2. row[drainer[c].id].status \in {"applied", "failed"}
        BY <3>1 DEF OwnInv, LateRowsClosed
      <3>3. row[drainer[d].id].status = "draining"
        BY DEF OwnInv, ClaimOwnership, Owns, Leaving
      <3> QED BY <3>1, <3>2, <3>3 DEF Leaving
    <2> QED BY <2>1, <2>2
  <1>6. LateErrorIsFault'
    BY <1>3 DEF OwnInv, LateErrorIsFault, Leaving
  <1> QED BY <1>4, <1>5, <1>6 DEF OwnInv

\* A late error is a fault, so with faults = 0 there is none; with no replay
\* the row is still closed, so nobody owns it; and one drainer alone has no
\* other to disturb.
LEMMA LateWriteKeepsOwn ==
    ASSUME TypeInv, OwnInv, NEW d \in Drainer, LateWrite(d)
    PROVE  OwnInv'
  <1>1. faults # 0 /\ drainer[d].pc \in Late
    BY DEF OwnInv, LateErrorIsFault, LateWrite, TypeInv, TypeOK, Late
  <1>2. \A c \in Drainer : drainer[c].pc \in HoldsRow => drainer[c].id \in Action
    BY DEF TypeInv, DrainerShape
  <1>3. Owning \cup Late \subseteq HoldsRow /\ "late_error" \notin Owning
    BY DEF Owning, Late, HoldsRow, Processing
  <1>4. ClaimOwnership'
    <2>1. CASE OneDrainer
      <3>1. \A c \in Drainer : ~Owns(c)'
        BY <2>1 DEF OneDrainer, LateWrite, Owns
      <3> QED BY <3>1 DEF ClaimOwnership
    <2>2. CASE replays = 0
      <3>1. row[drainer[d].id].status # "draining"
        BY <1>1, <2>2 DEF OwnInv, LateRowsClosed
      <3>2. \A c \in Drainer : Owns(c) =>
                drainer[c].id \in Action /\ row[drainer[c].id].status = "draining"
        BY <1>2, <1>3, <2>2 DEF OwnInv, ClaimOwnership, Owns
      <3>3. \A b, c \in Drainer : b # c /\ Owns(b) /\ Owns(c) =>
                drainer[b].id # drainer[c].id
        BY <2>2 DEF OwnInv, ClaimOwnership
      <3>4. \A c \in Drainer : Owns(c)' =>
                c # d /\ Owns(c) /\ drainer'[c] = drainer[c]
        BY DEF Owns, LateWrite
      <3> QED BY <3>1, <3>2, <3>3, <3>4 DEF ClaimOwnership, LateWrite
    <2>3. CASE replays # 0 /\ ~OneDrainer
      BY <1>1, <2>3 DEF ClaimOwnership, LateWrite, OneDrainer
    <2> QED BY <2>1, <2>2, <2>3
  <1>5. LateRowsClosed'
    BY <1>2, <1>3 DEF OwnInv, LateRowsClosed, LateWrite
  <1>6. LateErrorIsFault'
    BY DEF OwnInv, LateErrorIsFault, LateWrite, Late
  <1> QED BY <1>4, <1>5, <1>6 DEF OwnInv
-----------------------------------------------------------------------------
(* Which step is which. *)

\* A drainer's own Goto, Fail and Resume, from the others' point of view.
LEMMA GotoOwn ==
    ASSUME TypeInv, NEW d \in Drainer, NEW pc, Goto(d, pc)
    PROVE  /\ \A c \in Drainer \ {d} : drainer'[c] = drainer[c]
           /\ drainer'[d].pc = pc /\ drainer'[d].id = drainer[d].id
  BY DEF TypeInv, TypeOK, DrainerState, Goto

\* A failure keeps the row in hand.
LEMMA FailOwn ==
    ASSUME TypeInv, NEW d \in Drainer, NEW why, Fail(d, why)
    PROVE  /\ \A c \in Drainer \ {d} : drainer'[c] = drainer[c]
           /\ drainer'[d].pc = "fail" /\ drainer'[d].id = drainer[d].id
  BY DEF TypeInv, TypeOK, DrainerState, Fail

\* A drainer between two rows owns none.
LEMMA RestOwn == \A b : Rest(b).pc \notin Owning \cup Late
  BY DEF Rest, IdleDrainer, Owning, Late, Processing

\* Nor does one that goes on with its batch.
LEMMA ResumeOwn ==
    ASSUME TypeInv, NEW d \in Drainer, Resume(d)
    PROVE  /\ \A c \in Drainer \ {d} : drainer'[c] = drainer[c]
           /\ drainer'[d].pc \notin Owning \cup Late
  <1>1. drainer' = [drainer EXCEPT ![d] = Rest(drainer[d].batch)]
    BY DEF TypeInv, TypeOK, Resume
  <1> QED BY <1>1, RestOwn DEF TypeInv, TypeOK

\* Whoever touches only rows that are still waiting is outside.
LEMMA WaitingOutside ==
    ASSUME TypeInv, UNCHANGED <<drainer, replays, faults>>,
           \A a \in Action : row[a].status \in {"draining", "applied", "failed"} =>
                row'[a] = row[a]
    PROVE  Outside
  <1>1. replays' \in Nat /\ replays' >= replays /\ faults' \in Nat /\ faults' >= faults
    BY DEF TypeInv, TypeOK
  <1> QED BY <1>1 DEF Outside

\* The verbs touch only rows that are still waiting, or failed ones.
LEMMA OutsideVerbs ==
    ASSUME TypeInv, VerbStep
    PROVE  Outside
  <1>1. UNCHANGED <<drainer, replays, faults>>
    BY DEF VerbStep, Propose, Cancel, Confirm, MintFind, MintStep, MintConsume,
           MintInsert, Revoke, dbVars, ghostVars
  <1>2. ASSUME NEW a \in Action,
               \/ Cancel(a)
               \/ \E t \in Types, e \in Email \cup {NULL}, f \in Folder \cup {NULL} :
                        Propose(a, t, e, f)
        PROVE  Outside
    <2>1. /\ row[a].status \in {"cooling_off", "absent"}
          /\ \A b \in Action \ {a} : row'[b] = row[b]
      BY <1>2 DEF Cancel, Propose, TypeInv, TypeOK
    <2>2. \A b \in Action : row[b].status \in {"draining", "applied", "failed"} =>
                row'[b] = row[b]
      BY <2>1
    <2> QED BY <1>1, <2>2, WaitingOutside
  <1>3. ASSUME NEW m \in Minter, MintInsert(m) PROVE Outside
    <2>1. \A a \in Action : row[a].status # "pending_grant" => row'[a] = row[a]
      BY <1>3 DEF MintInsert
    <2> QED BY <1>1, <2>1, WaitingOutside
  <1>4. ASSUME UNCHANGED row PROVE Outside
    BY <1>1, <1>4, WaitingOutside
  <1>5. ASSUME NEW t \in Types, NEW S \in SUBSET Email, Confirm(t, S) PROVE Outside
    BY <1>4, <1>5 DEF Confirm
  <1>6. ASSUME NEW m \in Minter, NEW t \in Types, NEW S \in SUBSET Email,
               NEW w \in GrantWindows, NEW c \in DOMAIN confirmations,
               MintFind(m, t, S, w, c)
        PROVE  Outside
    BY <1>4, <1>6 DEF MintFind, dbVars
  <1>7. ASSUME NEW m \in Minter, MintConsume(m) PROVE Outside
    BY <1>4, <1>7 DEF MintConsume
  <1>8. ASSUME NEW g \in DOMAIN grants, Revoke(g) PROVE Outside
    BY <1>4, <1>8 DEF Revoke
  <1> QED BY <1>2, <1>3, <1>5, <1>6, <1>7, <1>8 DEF VerbStep, MintStep

\* So do operator, sync worker, ticker and clock.
LEMMA OutsideOthers ==
    ASSUME TypeInv, OperatorStep \/ SyncStep \/ CoolingOffTick \/ Tick
    PROVE  Outside
  <1>1. ASSUME NEW a \in Action, ReplayReset(a) PROVE Outside
    <2>1. UNCHANGED <<drainer, faults>> /\ faults \in Nat /\ replays \in Nat
      BY <1>1 DEF ReplayReset, TypeInv, TypeOK
    <2>2. CASE row[a].status = "failed"
      <3>1. replays' = replays + 1 /\ \A b \in Action \ {a} : row'[b] = row[b]
        BY <1>1, <2>2 DEF ReplayReset, TypeInv, TypeOK
      <3> QED BY <2>1, <2>2, <3>1 DEF Outside
    <2>3. CASE row[a].status # "failed"
      <3>1. UNCHANGED <<row, replays>>
        BY <1>1, <2>3 DEF ReplayReset
      <3> QED BY <2>1, <3>1, WaitingOutside
    <2> QED BY <2>2, <2>3
  <1>2. ASSUME NEW a \in Action, ReplayCheck(a) PROVE Outside
    BY <1>2, WaitingOutside DEF ReplayCheck, dbVars, ghostVars
  <1>3. CASE CoolingOffTick
    <2>1. /\ UNCHANGED <<drainer, replays, faults>>
          /\ \A a \in Action : row[a].status # "cooling_off" => row'[a] = row[a]
      BY <1>3 DEF CoolingOffTick, Due, ghostVars
    <2> QED BY <2>1, WaitingOutside
  <1>4. CASE Pause \/ Unpause
    BY <1>4, WaitingOutside DEF Pause, Unpause, ghostVars
  <1>5. CASE SyncStep \/ Tick
    BY <1>5, WaitingOutside
       DEF SyncStep, Upsert, SoftDelete, Resurrect, Tick, dbVars, ghostVars
  <1> QED BY <1>1, <1>2, <1>3, <1>4, <1>5 DEF OperatorStep

\* A fault is outside, or the owner keeps or leaves its row.
LEMMA FaultSteps ==
    ASSUME TypeInv, FaultStep
    PROVE  Outside \/ \E d \in Drainer : Inward(d) \/ Leaving(d)
  <1>1. ASSUME NEW d \in Drainer, Crash(d) PROVE Inward(d)
    BY <1>1 DEF Crash, Inward, IdleDrainer, Owning, Late, Processing, dbVars,
                TypeInv, TypeOK
  <1>2. ASSUME NEW d \in Drainer, DbError(d) PROVE Inward(d)
    <2>1. UNCHANGED <<row, replays>> /\ faults \in Nat /\ faults' = faults + 1
      BY <1>2 DEF DbError, dbVars, TypeInv, TypeOK
    <2>2. CASE drainer[d].pc \in Owning /\ Goto(d, "error")
      BY <2>1, <2>2, GotoOwn DEF Inward, Late
    <2>3. CASE drainer[d].pc \in Late /\ Goto(d, "late_error")
      BY <2>1, <2>3, GotoOwn DEF Inward, Owning, Processing
    <2>4. CASE Resume(d)
      BY <2>1, <2>4, ResumeOwn DEF Inward
    <2> QED BY <1>2, <2>2, <2>3, <2>4 DEF DbError, Late
  <1>3. ASSUME NEW m \in Minter, ApiCrash(m) PROVE Outside
    <2>1. /\ UNCHANGED <<row, drainer, replays>> /\ faults' = faults + 1
          /\ faults \in Nat /\ replays \in Nat
      BY <1>3 DEF ApiCrash, dbVars, TypeInv, TypeOK
    <2> QED BY <2>1 DEF Outside
  <1>4. ASSUME NEW d \in Drainer, PauseUnreadable(d) PROVE Leaving(d)
    <2>1. /\ UNCHANGED replays /\ faults \in Nat /\ faults' = faults + 1
          /\ drainer[d].pc \in Owning
      BY <1>4 DEF PauseUnreadable, Owning, TypeInv, TypeOK
    <2>2. \A b \in Action \ {drainer[d].id} : row'[b] = row[b]
      BY <1>4 DEF PauseUnreadable, TypeInv, TypeOK
    <2>3. /\ \A c \in Drainer \ {d} : drainer'[c] = drainer[c]
          /\ drainer'[d].pc = "idle"
      BY <1>4 DEF PauseUnreadable, IdleDrainer, TypeInv, TypeOK
    <2> QED BY <2>1, <2>2, <2>3 DEF Leaving, Owning, Late, Processing
  <1> QED BY <1>1, <1>2, <1>3, <1>4 DEF FaultStep

\* A drainer works on its row, takes one, leaves it, or fails it late.
LEMMA DrainSteps ==
    ASSUME TypeInv, OwnInv, NEW d \in Drainer, DrainStep(d)
    PROVE  Inward(d) \/ Taking(d) \/ Leaving(d) \/ LateWrite(d)
  <1> DEFINE a == drainer[d].id
  <1>1. faults \in Nat /\ (drainer[d].pc \in HoldsRow => a \in Action)
    BY DEF TypeInv, TypeOK, DrainerShape
  <1>2. CASE TickStart(d)
    BY <1>1, <1>2, GotoOwn
       DEF TickStart, Inward, Owning, Late, Processing, dbVars, ghostVars
  <1>3. CASE Select(d)
    <2>1. PICK b : drainer' = [drainer EXCEPT ![d] = Rest(b)]
      BY <1>3 DEF Select
    <2> QED BY <1>1, <1>3, <2>1, RestOwn
            DEF Select, Inward, dbVars, ghostVars, TypeInv, TypeOK
  <1>4. CASE Claim(d)
    <2>1. PICK x \in drainer[d].batch :
            IF row[x].status = "pending"
            THEN /\ row' = [row EXCEPT ![x].status = "draining"]
                 /\ drainer' = [drainer EXCEPT ![d].pc = "claimed", ![d].id = x,
                                               ![d].batch = @ \ {x}]
            ELSE /\ drainer' = [drainer EXCEPT ![d] = Rest(@.batch \ {x})]
                 /\ UNCHANGED row
      BY <1>4 DEF Claim
    <2>2. x \in Action
      BY DEF TypeInv, TypeOK, DrainerState
    <2>3. UNCHANGED <<replays, faults>>
      BY <1>4 DEF Claim, ghostVars
    <2>4. CASE row[x].status = "pending"
      <3>1. /\ \A c \in Drainer \ {d} : drainer'[c] = drainer[c]
            /\ drainer'[d].pc = "claimed" /\ drainer'[d].id = x
        BY <2>1, <2>4 DEF TypeInv, TypeOK, DrainerState
      <3>2. /\ row'[x].status = "draining"
            /\ \A b \in Action \ {x} : row'[b] = row[b]
        BY <2>1, <2>2, <2>4 DEF TypeInv, TypeOK, Row
      <3> QED BY <2>2, <2>3, <2>4, <3>1, <3>2 DEF Taking
    <2>5. CASE row[x].status # "pending"
      <3>1. /\ drainer' = [drainer EXCEPT ![d] = Rest(drainer[d].batch \ {x})]
            /\ UNCHANGED row
        BY <2>1, <2>5 DEF TypeInv, TypeOK
      <3> QED BY <1>1, <2>3, <3>1, RestOwn DEF Inward, TypeInv, TypeOK
    <2> QED BY <2>4, <2>5
  <1>5. CASE PauseCheck(d)
    <2>1. UNCHANGED <<replays, faults>> /\ drainer[d].pc \in Owning
      BY <1>5 DEF PauseCheck, ghostVars, Owning
    <2>2. CASE paused
      <3>1. \A b \in Action \ {a} : row'[b] = row[b]
        BY <1>5, <2>2 DEF PauseCheck, TypeInv, TypeOK
      <3>2. /\ \A c \in Drainer \ {d} : drainer'[c] = drainer[c]
            /\ drainer'[d].pc = "idle"
        BY <1>5, <2>2 DEF PauseCheck, IdleDrainer, TypeInv, TypeOK
      <3> QED BY <1>1, <2>1, <3>1, <3>2 DEF Leaving, Owning, Late, Processing
    <2>3. CASE ~paused
      BY <1>1, <1>5, <2>1, <2>3, GotoOwn DEF PauseCheck, Inward, Late
    <2> QED BY <2>2, <2>3
  <1>6. CASE CheckGrant(d)
    <2>1. UNCHANGED <<row, replays, faults>> /\ drainer[d].pc \in Owning
      BY <1>6 DEF CheckGrant, dbVars, ghostVars, Owning, Processing
    <2>2. /\ \A c \in Drainer \ {d} : drainer'[c] = drainer[c]
          /\ drainer'[d].pc \in {"target", "fail", "park"} /\ drainer'[d].id = a
      BY <1>6 DEF CheckGrant, Goto, Fail, TypeInv, TypeOK, DrainerState
    <2> QED BY <1>1, <2>1, <2>2 DEF Inward, Owning, Late
  <1>7. CASE CheckTarget(d) \/ CheckSendCap(d) \/ InsertHistory(d)
    <2>1. UNCHANGED <<row, replays, faults>> /\ drainer[d].pc \in Owning
      BY <1>7 DEF CheckTarget, CheckSendCap, InsertHistory, dbVars, ghostVars,
                  Owning, Processing
    <2>2. /\ \A c \in Drainer \ {d} : drainer'[c] = drainer[c]
          /\ drainer'[d].pc \notin Late /\ drainer'[d].id = a
      BY <1>7, GotoOwn, FailOwn
         DEF CheckTarget, AfterTarget, CheckSendCap, InsertHistory, Late
    <2> QED BY <1>1, <2>1, <2>2 DEF Inward
  <1>8. CASE CapturePreState(d)
    <2>1. UNCHANGED <<row, replays, faults>> /\ drainer[d].pc \in Owning
      BY <1>8 DEF CapturePreState, dbVars, ghostVars, Owning, Processing
    <2>2. /\ \A c \in Drainer \ {d} : drainer'[c] = drainer[c]
          /\ drainer'[d].pc \in {"record", "fail"} /\ drainer'[d].id = a
      BY <1>8 DEF CapturePreState, Fail, TypeInv, TypeOK, DrainerState
    <2> QED BY <1>1, <2>1, <2>2 DEF Inward, Late
  <1>9. CASE Dispatch(d)
    <2>1. UNCHANGED <<row, replays, faults>> /\ drainer[d].pc \in Owning
      BY <1>9 DEF Dispatch, dbVars, Owning, Processing
    <2>2. /\ \A c \in Drainer \ {d} : drainer'[c] = drainer[c]
          /\ drainer'[d].pc \in {"applied", "fail"} /\ drainer'[d].id = a
      BY <1>9, GotoOwn, FailOwn DEF Dispatch
    <2> QED BY <1>1, <2>1, <2>2 DEF Inward, Late
  <1>10. CASE Repair(d) \/ NotifyFailure(d)
    BY <1>1, <1>10, ResumeOwn DEF Repair, NotifyFailure, Inward, dbVars, ghostVars
  <1>11. CASE Park(d)
    <2>1. \A b \in Action \ {a} : row'[b] = row[b]
      BY <1>11 DEF Park, TypeInv, TypeOK
    <2>2. UNCHANGED <<replays, faults>> /\ drainer[d].pc \in Owning
      BY <1>11 DEF Park, ghostVars, Owning, Processing
    <2>3. /\ \A c \in Drainer \ {d} : drainer'[c] = drainer[c]
          /\ drainer'[d].pc \notin Owning \cup Late
      BY <1>11, ResumeOwn DEF Park
    <2> QED BY <1>1, <2>1, <2>2, <2>3 DEF Leaving, Late
  <1>12. CASE MarkApplied(d) \/ MarkFailed(d)
    <2>1. /\ UNCHANGED <<replays, faults>> /\ drainer[d].pc \in Owning
          /\ a \in Action
      BY <1>1, <1>12 DEF MarkApplied, MarkFailed, ghostVars, Owning, HoldsRow,
                         Processing
    <2>2. \A b \in Action \ {a} : row'[b] = row[b]
      BY <1>12 DEF MarkApplied, MarkFailed, MarkedFailed, TypeInv, TypeOK
    <2>3. row'[a].status \in {"applied", "failed"}
      BY <1>12, <2>1 DEF MarkApplied, MarkFailed, MarkedFailed, TypeInv, TypeOK, Row
    <2>4. /\ \A c \in Drainer \ {d} : drainer'[c] = drainer[c]
          /\ drainer'[d].pc \notin Owning \cup {"late_error"}
          /\ drainer'[d].pc \in Late => drainer'[d].id = a
      BY <1>12, GotoOwn, ResumeOwn
         DEF MarkApplied, MarkFailed, Owning, Late, Processing
    <2> QED BY <1>1, <2>1, <2>2, <2>3, <2>4 DEF Leaving
  <1>13. CASE Recover(d)
    <2>1. UNCHANGED <<replays, faults>> /\ a \in Action
      BY <1>1, <1>13 DEF Recover, ghostVars, HoldsRow
    <2>2. \A b \in Action \ {a} : row'[b] = row[b]
      BY <1>13 DEF Recover, MarkedFailed, TypeInv, TypeOK
    <2>3. row'[a].status = "failed"
      BY <1>13, <2>1 DEF Recover, MarkedFailed, TypeInv, TypeOK, Row
    <2>4. /\ \A c \in Drainer \ {d} : drainer'[c] = drainer[c]
          /\ drainer'[d].pc \notin Owning \cup Late
      BY <1>13, ResumeOwn DEF Recover
    <2>5. CASE drainer[d].pc = "error"
      BY <1>1, <2>1, <2>2, <2>4, <2>5 DEF Leaving, Owning, Late
    <2>6. CASE drainer[d].pc = "late_error"
      BY <2>1, <2>2, <2>3, <2>4, <2>6 DEF LateWrite
    <2> QED BY <1>13, <2>5, <2>6 DEF Recover
  <1> QED BY <1>2, <1>3, <1>4, <1>5, <1>6, <1>7, <1>8, <1>9, <1>10, <1>11,
             <1>12, <1>13 DEF DrainStep

\* Every step keeps ownership.
LEMMA OwnStep == TypeInv /\ OwnInv /\ [Next]_vars => OwnInv'
  <1> SUFFICES ASSUME TypeInv, OwnInv, [Next]_vars PROVE OwnInv'
    OBVIOUS
  <1>1. CASE UNCHANGED vars
    BY <1>1 DEF vars, dbVars, ghostVars, OwnInv, ClaimOwnership, OneDrainer,
                LateRowsClosed, LateErrorIsFault, Owns
  <1>2. ASSUME NEW d \in Drainer, DrainStep(d) PROVE OwnInv'
    BY <1>2, DrainSteps, InwardKeepsOwn, TakingKeepsOwn, LeavingKeepsOwn,
       LateWriteKeepsOwn
  <1>3. CASE VerbStep
    BY <1>3, OutsideVerbs, OutsideKeepsOwn
  <1>4. CASE OperatorStep \/ SyncStep \/ CoolingOffTick \/ Tick
    BY <1>4, OutsideOthers, OutsideKeepsOwn
  <1>5. CASE FaultStep
    BY <1>5, FaultSteps, OutsideKeepsOwn, InwardKeepsOwn, LeavingKeepsOwn
  <1> QED BY <1>1, <1>2, <1>3, <1>4, <1>5 DEF Next

\* Ownership, late rows and late errors, in every reachable state.
LEMMA OwnInvariant == Spec => []OwnInv
  <1>1. Init => OwnInv
    BY DEF Init, OwnInv, ClaimOwnership, LateRowsClosed, LateErrorIsFault, Owns,
           Owning, Late, Processing, IdleDrainer
  <1> QED BY TypeInvariant, <1>1, OwnStep, PTL DEF Spec

\* Terminal writes are unconditional UPDATEs; this is why that is safe, for
\* any number of drainers racing verbs, ticker, mints, cancels and replays.
THEOREM ClaimsAreOwned == Spec => []ClaimOwnership
  <1>1. OwnInv => ClaimOwnership
    BY DEF OwnInv
  <1> QED BY OwnInvariant, <1>1, PTL
==============================================================================
