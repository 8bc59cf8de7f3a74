-------------------------------- MODULE Router --------------------------------
(***************************************************************************)
(* The calls to a language model: ask_router with its failure chain,       *)
(* dispatch_tool_call, dispatch_embedding, the chat boundary and the draft *)
(* orchestrator that make them, in the API and in the worker.  The gates   *)
(* read rows both processes share (pause, degraded mode, the class of an   *)
(* email); spend counters, one-shot override and provider slots live in    *)
(* the memory of a process.                                                *)
(*                                                                         *)
(* An answer costs Price; what a call spends is followed from the provider *)
(* through the audit row and the budget counter to the monthly cap.  The   *)
(* gates that look at clocks and sizes (rate, loop, price of the call,     *)
(* rendering, a missing adapter, a storm of repeated tool calls) refuse or *)
(* not.  Every step of a call ends where the code awaits.                  *)
(***************************************************************************)
EXTENDS Escalation, FiniteSetsExt

CONSTANTS
    Caller,      \* model bound: calls at a time
    Slots,       \* calls a process may have at the paid provider, _PROVIDER_LIMITS
    Cap,         \* MONTHLY_HARD_CAP_USD
    MaxOrders,   \* model bound: what the operator does
    MaxFaults    \* model bound: restarts, failed writes and entries that lapse

ASSUME RouterAssumption ==
    /\ IsFiniteSet(Caller) /\ NULL \notin Caller
    /\ Slots \in Nat \ {0} /\ Cap \in Nat \ {0}
    /\ MaxOrders \in Nat /\ MaxFaults \in Nat

VARIABLES
    paused,      \* pause_state
    degraded,    \* degraded_mode_state
    oneshot,     \* _oneshot_override of the API: a model, or NULL
    cached,      \* the models whose tone answer is in response_cache
    guard,       \* BudgetGuard of a process: month's spend, flag, spend at start
    lock,        \* who holds the guard's lock across an await
    inUse,       \* provider slots taken, per process
    ledger,      \* the sum of router_calls.cost_usd_estimated
    call,        \* the calls
    left,        \* model bound: calls of a task yet to come
    charged,     \* history variable: what the provider charged
    lost,        \* history variable: of that, what no audit row tells
    shown,       \* history variable: calls on an email that reached a paid model, by
                 \* the class their gate had read
    lifted,      \* history variable: the operator ended a degraded mode
    orders, faults

spendVars  == <<degraded, guard, lock, ledger, charged, lost, lifted>>
routerVars == <<spendVars, paused, oneshot, cached, inUse, call, left, shown, orders, faults>>
vars       == <<policyVars, escalationVars, routerVars>>
-----------------------------------------------------------------------------
Paid(m)  == m \in {"haiku", "opus"}
Price(m) == IF Paid(m) THEN 1 ELSE 0

NextTier(m) == CASE m = "qwen" -> "haiku" [] m = "haiku" -> "opus" [] OTHER -> NULL
Demoted(m)  == CASE m = "opus" -> "haiku" [] OTHER -> "qwen"

\* What a paused router still serves; of a tool call only the allowlisted tools.
PauseAllowed == {"hermes_aux", "tool_call"}
\* Who makes which calls.
OfWorker == {"summary_short", "embedding"}
OfDraft  == {"tone_style_mirror", "draft_reply"}
OfEmail  == OfWorker \cup OfDraft
IsTool(t) == t = "tool_call"

Home(t) == IF t \in OfWorker THEN "worker" ELSE "api"

IdleCall == [pc |-> "idle", task |-> NULL, mails |-> {}, todo |-> {}, token |-> NULL,
             drafting |-> FALSE, force |-> NULL, model |-> NULL, engaged |-> FALSE,
             read |-> [e \in Email |-> "none"], used |-> FALSE, retry |-> FALSE, leg |-> "only", cost |-> 0, outer |-> 0,
             ok |-> FALSE]

IdleGuard(spent, flag) == [month |-> spent, flag |-> flag, seed |-> spent]

RouterStart ==
    /\ PolicyStart /\ EscalationStart
    /\ paused = FALSE /\ degraded = FALSE /\ oneshot = NULL /\ cached = {}
    /\ guard = [p \in Process |-> IdleGuard(0, FALSE)]
    /\ lock = [p \in Process |-> NULL] /\ inUse = [p \in Process |-> 0]
    /\ ledger = 0
    /\ call = [c \in Caller |-> IdleCall] /\ left \in [Task -> Nat]
    /\ charged = 0 /\ lost = 0 /\ lifted = FALSE
    /\ shown = [s \in Email \X Task \X Class |-> 0]

RouterInit ==
    RouterStart /\ edits = 0 /\ yeses = 0 /\ labels = 0 /\ orders = 0 /\ faults = 0

Set(c, new) == call' = [call EXCEPT ![c] = new]
Goto(c, pc) == Set(c, [call[c] EXCEPT !.pc = pc])
ProcOf(c)   == Home(call[c].task)

\* The call is over.  A tone that was served is followed by its draft.
Return(c, ok) ==
    IF ok /\ call[c].drafting /\ call[c].task = "tone_style_mirror"
    THEN Set(c, [IdleCall EXCEPT !.pc = "pause", !.task = "draft_reply", !.drafting = TRUE,
                     !.mails = call[c].mails, !.todo = call[c].mails, !.token = call[c].token])
    ELSE Set(c, IdleCall)

Fault == faults < MaxFaults /\ faults' = faults + 1

ChatUnchanged  == UNCHANGED <<policyVars, escalationVars>>
StateUnchanged == UNCHANGED <<paused, cached, left, orders>>
GateKeeps      == UNCHANGED <<spendVars, oneshot, inUse, shown, faults>> /\ StateUnchanged
-----------------------------------------------------------------------------
\* A call begins.  A request of the chat whose user message says yes goes
\* through the handshake first; handle_draft_reply looks at the class itself.
Begin(c, t) ==
    /\ call[c].pc = "idle" /\ left[t] > 0
    /\ left' = [left EXCEPT ![t] = @ - 1]
    /\ \E mails \in IF IsTool(t) THEN SUBSET Email
                    ELSE IF t \in OfEmail THEN {{e} : e \in Email} ELSE {{}},
          token \in IF t \in OfDraft THEN {NULL} \cup DOMAIN minted ELSE {NULL},
          force \in IF t \in PauseAllowed THEN {NULL} \cup Wanted ELSE {NULL},
          ready \in BOOLEAN :
        LET e       == CHOOSE m \in mails : TRUE
            turned  == /\ t \in OfDraft
                       /\ \/ class[e] \in {"none", "confidential"}
                          \/ class[e] = "sensitive" /\ token = NULL
            first   == IF t \in OfDraft /\ ~ready THEN "tone_style_mirror" ELSE t
        IN  /\ t # "tone_style_mirror" /\ (ready => t = "draft_reply")
            /\ Set(c, IF turned THEN IdleCall
                      ELSE [IdleCall EXCEPT
                        !.pc = IF t \in PauseAllowed /\ saying = "yes" THEN "claim" ELSE "pause",
                        !.task = first, !.mails = mails, !.todo = mails, !.token = token,
                        !.force = force, !.drafting = t \in OfDraft])
    /\ UNCHANGED <<spendVars, oneshot, inUse, shown, faults, paused, cached, orders>>
    /\ ChatUnchanged

ClaimEscalation(c) ==
    /\ call[c].pc = "claim" /\ ClaimRefusal /\ Goto(c, "arm")
    /\ GateKeeps /\ UNCHANGED policyVars

ArmEscalation(c) ==
    /\ call[c].pc = "arm" /\ Arm /\ Goto(c, "pause")
    /\ GateKeeps /\ UNCHANGED policyVars

\* The model of a call: what its caller forces, else the one-shot override,
\* else the policy's.  A tool call borrows the override of hermes_aux.
Shot(c) == IF ProcOf(c) = "api" THEN oneshot ELSE NULL

ChosenForText(c) ==
    LET k == call[c]
    IN  CASE k.force # NULL -> k.force
          [] k.force = NULL /\ Shot(c) # NULL -> Shot(c)
          [] OTHER -> ModelOf(policy[ProcOf(c)], k.task)

ChosenForTool(c) ==
    IF call[c].force = NULL /\ oneshot = NULL /\ Overridden(policy["api"], "hermes_aux")
    THEN policy["api"].models["hermes_aux"] ELSE ChosenForText(c)

\* The pause row, then without an await the one-shot and the policy.  A paused
\* router still interprets a tool call, with the allowlisted tools.
ReadPause(c) ==
    /\ call[c].pc = "pause" /\ ~IsTool(call[c].task) /\ call[c].task # "embedding"
    /\ IF paused /\ call[c].task \notin PauseAllowed THEN Return(c, FALSE)
       ELSE Set(c, [call[c] EXCEPT !.model = ChosenForText(c), !.pc = "degraded",
                    !.engaged = call[c].force = NULL /\ Shot(c) # NULL])
    /\ GateKeeps /\ ChatUnchanged

ReadPauseTool(c) ==
    /\ call[c].pc = "pause" /\ IsTool(call[c].task)
    /\ Set(c, [call[c] EXCEPT !.model = ChosenForTool(c), !.pc = "degraded",
               !.engaged = call[c].force = NULL /\ oneshot # NULL])
    /\ GateKeeps /\ ChatUnchanged

ReadPauseEmbedding(c) ==
    /\ call[c].pc = "pause" /\ call[c].task = "embedding"
    /\ IF paused THEN Return(c, FALSE)
       ELSE Set(c, [call[c] EXCEPT !.model = ModelOf(policy[ProcOf(c)], "embedding"),
                                !.pc = "class"])
    /\ GateKeeps /\ ChatUnchanged

\* The same tool with the same arguments over and over in one turn.
StopStorm(c) ==
    /\ call[c].pc = "pause" /\ IsTool(call[c].task)
    /\ Return(c, FALSE)
    /\ GateKeeps /\ ChatUnchanged

\* Degraded mode takes every call down one tier.  A forced opus is turned away;
\* for a text call a one-shot opus is a forced one.
ReadDegraded(c) ==
    /\ call[c].pc = "degraded"
    /\ LET k == call[c]
           forced == k.force # NULL \/ (k.engaged /\ ~IsTool(k.task))
       IN  IF ~degraded THEN Goto(c, "class")
           ELSE IF forced /\ k.model = "opus" THEN Return(c, FALSE)
           ELSE Set(c, [k EXCEPT !.model = Demoted(k.model), !.pc = "class"])
    /\ GateKeeps /\ ChatUnchanged

\* The sensitivity gate, one email at a time in the order of their ids: no
\* class, no call; a paid model never gets a confidential email, and a
\* sensitive one for a token or a yes.  An embedding asks for a class only.
First(c)    == Min(call[c].todo)
Gating(c)   == call[c].pc = "class" /\ call[c].todo # {}
Forbidden(c) ==
    \/ class[First(c)] = "none"
    \/ class[First(c)] = "confidential" /\ Paid(call[c].model) /\ call[c].task # "embedding"
NeedsYes(c) ==
    class[First(c)] = "sensitive" /\ Paid(call[c].model) /\ call[c].task # "embedding"
Token(c)     == IF call[c].task = "draft_reply" THEN call[c].token ELSE NULL
TokenFits(c) == Token(c) # NULL /\ ValidToken(Token(c), <<First(c), call[c].task>>)
Cleared(c, k) == [call[c] EXCEPT !.pc = "class", !.todo = @ \ {First(c)},
                                 !.read[First(c)] = k]
Unlock(c)    == Set(c, [Cleared(c, "sensitive") EXCEPT !.used = TRUE])

ClassKeeps == GateKeeps /\ UNCHANGED <<policyVars, class, armed, confirmed, granted, minted,
                                      minting, saying, yeses, labels, evidence, opened>>

GateOpens(c) ==
    /\ call[c].pc = "class" /\ call[c].todo = {} /\ Goto(c, "admit")
    /\ ClassKeeps /\ UNCHANGED <<refusal, live>>

GateForbids(c) ==
    /\ Gating(c) /\ Forbidden(c) /\ Return(c, FALSE)
    /\ ClassKeeps /\ UNCHANGED <<refusal, live>>

GatePasses(c) ==
    /\ Gating(c) /\ ~Forbidden(c) /\ ~NeedsYes(c)
    /\ Set(c, Cleared(c, class[First(c)]))
    /\ ClassKeeps /\ UNCHANGED <<refusal, live>>

GateTakesToken(c) ==
    /\ Gating(c) /\ NeedsYes(c) /\ TokenFits(c)
    /\ live' = live \ {Token(c)} /\ Unlock(c)
    /\ ClassKeeps /\ UNCHANGED refusal

\* A tool call asks for the yes of the user, for one email.
GateAsks(c) ==
    /\ Gating(c) /\ NeedsYes(c) /\ IsTool(call[c].task) /\ ~call[c].used /\ Goto(c, "peek")
    /\ ClassKeeps /\ UNCHANGED <<refusal, live>>

GateRefusesTool(c) ==
    /\ Gating(c) /\ NeedsYes(c) /\ IsTool(call[c].task) /\ call[c].used
    /\ Return(c, FALSE) /\ RecordRefusal(First(c), call[c].task)
    /\ ClassKeeps /\ UNCHANGED live

GateRefuses(c) ==
    /\ Gating(c) /\ NeedsYes(c) /\ ~IsTool(call[c].task) /\ ~TokenFits(c)
    /\ Return(c, FALSE)
    /\ ClassKeeps /\ UNCHANGED <<refusal, live>>

ReadClass(c) ==
    \/ GateOpens(c) \/ GateForbids(c) \/ GatePasses(c) \/ GateTakesToken(c)
    \/ GateAsks(c) \/ GateRefusesTool(c) \/ GateRefuses(c)

\* authorize_sensitive_dispatch: a live grant for this email and task, else a
\* confirmation for them, else whatever is armed.
Asked(c) == <<First(c), call[c].task>>

AuthKeeps == GateKeeps /\ UNCHANGED <<policyVars, class, minted, live, minting, saying,
                                     yeses, labels, evidence>>

PeekGrant(c) ==
    /\ call[c].pc = "peek"
    /\ IF Asked(c) \in granted THEN Unlock(c) ELSE Goto(c, "confirmation")
    /\ AuthKeeps /\ UNCHANGED <<refusal, armed, confirmed, granted, opened>>

UseConfirmation(c) ==
    /\ call[c].pc = "confirmation"
    /\ IF confirmed[Asked(c)] > 0 THEN SpendConfirmation(Asked(c)) /\ Goto(c, "grant")
       ELSE Goto(c, "take") /\ UNCHANGED confirmed
    /\ AuthKeeps /\ UNCHANGED <<refusal, armed, granted, opened>>

TakeArm(c) ==
    /\ call[c].pc = "take"
    /\ IF armed THEN SpendArm /\ Goto(c, "grant") /\ UNCHANGED refusal
       ELSE /\ Return(c, FALSE) /\ RecordRefusal(Asked(c)[1], Asked(c)[2])
            /\ UNCHANGED armed
    /\ AuthKeeps /\ UNCHANGED <<confirmed, granted, opened>>

RecordGrant(c) ==
    /\ call[c].pc = "grant"
    /\ granted' = granted \cup {Asked(c)} /\ Authorize(Asked(c)) /\ Unlock(c)
    /\ AuthKeeps /\ UNCHANGED <<refusal, armed, confirmed>>
-----------------------------------------------------------------------------
\* The gates of the dispatch: missing adapter, rate, rendering, loop, price of
\* the call, cache.  A text call takes the one-shot when all of them passed, a
\* tool call before the first; whatever override is there goes.
AdmitKeeps == UNCHANGED <<spendVars, inUse, shown, faults>> /\ StateUnchanged /\ ChatUnchanged

Admit(c) ==
    /\ call[c].pc = "admit" /\ ~IsTool(call[c].task) /\ call[c].task # "embedding"
    /\ oneshot' = IF call[c].engaged THEN NULL ELSE oneshot
    /\ IF Caches(call[c].task) /\ call[c].model \in cached
       THEN Set(c, [call[c] EXCEPT !.pc = "record", !.ok = TRUE]) ELSE Goto(c, "slot")
    /\ AdmitKeeps

AdmitTool(c) ==
    /\ call[c].pc = "admit" /\ IsTool(call[c].task)
    /\ oneshot' = IF call[c].engaged THEN NULL ELSE oneshot
    /\ Goto(c, "slot") \/ Goto(c, "record")
    /\ AdmitKeeps

\* No adapter but a local one has an embed method.
AdmitEmbedding(c) ==
    /\ call[c].pc = "admit" /\ call[c].task = "embedding"
    /\ Goto(c, "record") \/ (~Paid(call[c].model) /\ Goto(c, "slot"))
    /\ AdmitKeeps /\ UNCHANGED oneshot

\* Mutant: the one-shot is taken before the gates for a text call as well.
MutAdmitFails(c) ==
    /\ call[c].pc = "admit" /\ ~IsTool(call[c].task) /\ Goto(c, "record")
    /\ oneshot' = IF call[c].engaged THEN NULL ELSE oneshot
    /\ AdmitKeeps

AdmitFails(c) ==
    /\ call[c].pc = "admit" /\ ~IsTool(call[c].task) /\ Goto(c, "record")
    /\ AdmitKeeps /\ UNCHANGED oneshot

\* The provider's semaphore; a local model has none.
Acquire(c) ==
    /\ call[c].pc = "slot"
    /\ LET k == call[c] IN
        /\ Paid(k.model) => inUse[ProcOf(c)] < Slots
        /\ inUse' = [inUse EXCEPT ![ProcOf(c)] = @ + Price(k.model)]
        /\ shown' = IF ~Paid(k.model) \/ k.retry THEN shown
                    ELSE [s \in DOMAIN shown |->
                            shown[s] + (IF s[1] \in k.mails /\ s[2] = k.task
                                           /\ s[3] = k.read[s[1]] THEN 1 ELSE 0)]
        /\ Goto(c, "ask")
    /\ UNCHANGED <<spendVars, oneshot, faults>> /\ StateUnchanged /\ ChatUnchanged

\* Mutant: the slot of a retry is kept.
MutReleaseFirst(c) ==
    inUse' = [inUse EXCEPT ![ProcOf(c)] = IF call[c].retry THEN @ ELSE @ - Price(call[c].model)]

Release(c) == inUse' = [inUse EXCEPT ![ProcOf(c)] = @ - Price(call[c].model)]

\* An answer came and was paid for, or none did.
Charge(c)  == charged' = charged + Price(call[c].model)
CostNow(c) == call[c].cost + Price(call[c].model)
Answered(c, pc) == Set(c, [call[c] EXCEPT !.cost = CostNow(c), !.ok = TRUE, !.pc = pc])
AnswerKeeps == UNCHANGED <<degraded, guard, lock, ledger, lost, lifted, oneshot, shown,
                           paused, left, orders, faults>>

\* Mutant: what the first leg cost is forgotten.
MutGiveUpForgets(c, cost) ==
    IF Escalates(call[c].task) /\ call[c].leg = "only" /\ NextTier(call[c].model) # NULL
    THEN Set(c, [call[c] EXCEPT !.pc = "admit", !.leg = "escalated",
                 !.model = NextTier(call[c].model), !.retry = FALSE, !.engaged = FALSE,
                 !.cost = 0])
    ELSE Set(c, [call[c] EXCEPT !.pc = "record", !.cost = cost])

\* The chain of a text call that has no valid answer after its retry: one tier
\* up, once, with no flag of the first leg.
GiveUp(c, cost) ==
    LET k == call[c]
        up == NextTier(k.model)
    IN  IF Escalates(k.task) /\ k.leg = "only" /\ up # NULL
        THEN Set(c, [k EXCEPT !.pc = "admit", !.leg = "escalated", !.model = up,
                     !.retry = FALSE, !.engaged = FALSE, !.outer = cost, !.cost = 0])
        ELSE Set(c, [k EXCEPT !.pc = "record", !.cost = cost])

AnswerValid(c) ==
    /\ call[c].pc = "ask" /\ ~IsTool(call[c].task) /\ call[c].task # "embedding"
    /\ Release(c) /\ Charge(c)
    /\ Answered(c, "spend")
    /\ cached' \in IF Caches(call[c].task) THEN {cached, cached \cup {call[c].model}} ELSE {cached}
    /\ AnswerKeeps /\ ChatUnchanged

AnswerTool(c) ==
    /\ call[c].pc = "ask" /\ IsTool(call[c].task)
    /\ Release(c) /\ Charge(c) /\ Answered(c, "spend")
    /\ UNCHANGED cached /\ AnswerKeeps /\ ChatUnchanged

\* The budget guard never hears of an embedding.
AnswerEmbedding(c) ==
    /\ call[c].pc = "ask" /\ call[c].task = "embedding"
    /\ Release(c) /\ Charge(c) /\ Answered(c, "record")
    /\ UNCHANGED cached /\ AnswerKeeps /\ ChatUnchanged

\* An answer the output schema refuses is paid for as well.
AnswerInvalid(c) ==
    /\ call[c].pc = "ask" /\ ~IsTool(call[c].task) /\ call[c].task # "embedding"
    /\ Release(c) /\ Charge(c)
    /\ IF call[c].retry THEN GiveUp(c, CostNow(c))
       ELSE Set(c, [call[c] EXCEPT !.pc = "slot", !.retry = TRUE, !.cost = CostNow(c)])
    /\ UNCHANGED cached /\ AnswerKeeps /\ ChatUnchanged

NoAnswer(c) ==
    /\ call[c].pc = "ask" /\ Release(c)
    /\ IF call[c].retry THEN GiveUp(c, call[c].cost) ELSE Goto(c, "record")
    /\ UNCHANGED <<charged, cached>> /\ AnswerKeeps /\ ChatUnchanged

\* add_spend, under the guard's lock: the step that takes the counter over the
\* cap goes on to write the degraded row.
Spend(c) ==
    /\ call[c].pc = "spend" /\ lock[ProcOf(c)] = NULL
    /\ LET p == ProcOf(c)
           before == guard[p].month
           now == before + call[c].cost
           crosses == before < Cap /\ now >= Cap /\ ~guard[p].flag
       IN  /\ guard' = [guard EXCEPT ![p].month = now]
           /\ lock' = [lock EXCEPT ![p] = IF crosses THEN c ELSE NULL]
           /\ Goto(c, IF crosses THEN "enter" ELSE "record")
    /\ UNCHANGED <<degraded, ledger, charged, lost, lifted, oneshot, inUse, shown, faults>>
    /\ StateUnchanged /\ ChatUnchanged

\* Mutant: the flag in memory is set and the row is not.
MutEnterDegraded(c) ==
    /\ call[c].pc = "enter"
    /\ guard' = [guard EXCEPT ![ProcOf(c)].flag = TRUE]
    /\ lock' = [lock EXCEPT ![ProcOf(c)] = NULL] /\ Goto(c, "record")
    /\ UNCHANGED <<degraded, ledger, charged, lost, lifted, oneshot, inUse, shown, faults>>
    /\ StateUnchanged /\ ChatUnchanged

EnterDegraded(c) ==
    /\ call[c].pc = "enter"
    /\ degraded' = TRUE
    /\ guard' = [guard EXCEPT ![ProcOf(c)].flag = TRUE]
    /\ lock' = [lock EXCEPT ![ProcOf(c)] = NULL]
    /\ Goto(c, "record")
    /\ UNCHANGED <<ledger, charged, lost, lifted, oneshot, inUse, shown, faults>>
    /\ StateUnchanged /\ ChatUnchanged

\* The write failed: the counter stays over the cap and the call has failed.
EnterFails(c) ==
    /\ call[c].pc = "enter" /\ Fault
    /\ lock' = [lock EXCEPT ![ProcOf(c)] = NULL]
    /\ Set(c, [call[c] EXCEPT !.pc = "record", !.ok = FALSE])
    /\ UNCHANGED <<degraded, guard, ledger, charged, lost, lifted, oneshot, inUse, shown>>
    /\ StateUnchanged /\ ChatUnchanged

\* The audit row in the finally block, of the escalated leg and then of the first.
Recorded(c) ==
    IF call[c].leg = "escalated"
    THEN Set(c, [call[c] EXCEPT !.leg = "first", !.cost = call[c].outer, !.outer = 0])
    ELSE Return(c, call[c].ok)

Record(c) ==
    /\ call[c].pc = "record"
    /\ ledger' = ledger + call[c].cost /\ Recorded(c)
    /\ UNCHANGED <<degraded, guard, lock, charged, lost, lifted, oneshot, inUse, shown, faults>>
    /\ StateUnchanged /\ ChatUnchanged

\* A row that cannot be written is lost, and the call goes on.
RecordFails(c) ==
    /\ call[c].pc = "record" /\ Fault
    /\ lost' = lost + call[c].cost /\ Recorded(c)
    /\ UNCHANGED <<degraded, guard, lock, ledger, charged, lifted, oneshot, inUse, shown>>
    /\ StateUnchanged /\ ChatUnchanged
-----------------------------------------------------------------------------
Order == orders < MaxOrders /\ orders' = orders + 1
OrderKeeps == UNCHANGED <<guard, lock, ledger, charged, lost, cached, inUse, call, left,
                          shown, faults>> /\ ChatUnchanged

PauseOrResume ==
    /\ Order /\ paused' = ~paused
    /\ UNCHANGED <<degraded, oneshot, lifted>> /\ OrderKeeps

SetModelOneShot(m) ==
    /\ Order /\ oneshot' = m
    /\ UNCHANGED <<degraded, paused, lifted>> /\ OrderKeeps

OneShotExpires ==
    /\ oneshot # NULL /\ oneshot' = NULL
    /\ UNCHANGED <<degraded, paused, lifted, orders>> /\ OrderKeeps

\* /budget reset: nothing happens unless the API itself entered degraded mode.
ResetDegraded ==
    /\ Order /\ lock["api"] = NULL
    /\ guard["api"].flag /\ degraded' = FALSE
    /\ guard' = [guard EXCEPT !["api"].flag = FALSE] /\ lifted' = TRUE
    /\ UNCHANGED <<lock, ledger, charged, lost, cached, inUse, call, left, shown, faults,
                   paused, oneshot>> /\ ChatUnchanged

\* mailbot rederive-cost, a process of its own that takes its flag from the row.
Rederive ==
    /\ Order /\ degraded /\ ledger < Cap
    /\ degraded' = FALSE /\ lifted' = TRUE
    /\ UNCHANGED <<paused, oneshot>> /\ OrderKeeps

\* The ten minutes of an entry of the handshake are over.
EntryLapses ==
    /\ Fault /\ Lapses
    /\ UNCHANGED <<policyVars, spendVars, paused, oneshot, cached, inUse, call, left, shown, orders>>

\* A process dies and starts again: its calls are gone, its counter is taken
\* from the ledger; the one-shot and the tokens were memory of the API.
Restart(p) ==
    /\ Fault /\ Reboot(p)
    /\ LET gone == {c \in Caller : call[c].pc # "idle" /\ ProcOf(c) = p}
       IN  /\ call' = [c \in Caller |-> IF c \in gone THEN IdleCall ELSE call[c]]
           /\ lost' = lost + MapThenSumSet(LAMBDA c : call[c].cost + call[c].outer, gone)
    /\ inUse' = [inUse EXCEPT ![p] = 0] /\ lock' = [lock EXCEPT ![p] = NULL]
    /\ guard' = [guard EXCEPT ![p] = IdleGuard(ledger, degraded)]
    /\ IF p = "api" THEN oneshot' = NULL /\ live' = {} /\ minting' = IdleMint
       ELSE UNCHANGED <<oneshot, live, minting>>
    /\ UNCHANGED <<degraded, ledger, charged, lifted, paused, cached, left, orders, shown,
                   class, refusal, armed, confirmed, granted, minted, saying, yeses,
                   labels, evidence, opened>>
-----------------------------------------------------------------------------
CallStep(c) ==
    \/ ClaimEscalation(c) \/ ArmEscalation(c)
    \/ ReadPause(c) \/ ReadPauseTool(c) \/ ReadPauseEmbedding(c) \/ StopStorm(c)
    \/ ReadDegraded(c) \/ ReadClass(c)
    \/ PeekGrant(c) \/ UseConfirmation(c) \/ TakeArm(c) \/ RecordGrant(c)
    \/ Admit(c) \/ AdmitTool(c) \/ AdmitEmbedding(c) \/ AdmitFails(c) \/ Acquire(c)
    \/ AnswerValid(c) \/ AnswerTool(c) \/ AnswerEmbedding(c) \/ AnswerInvalid(c) \/ NoAnswer(c)
    \/ Spend(c) \/ EnterDegraded(c) \/ Record(c)

OperatorStep ==
    \/ PauseOrResume \/ OneShotExpires \/ ResetDegraded \/ Rederive
    \/ \E m \in Wanted : SetModelOneShot(m)

RouterNext ==
    \/ \E c \in Caller :
        \/ CallStep(c) \/ EnterFails(c) \/ RecordFails(c)
        \/ \E t \in Task : Begin(c, t)
    \/ OperatorStep
    \/ \E p \in Process : Restart(p)
    \/ PolicyStep /\ UNCHANGED <<escalationVars, routerVars>>
    \/ EscalationStep /\ UNCHANGED <<policyVars, routerVars>>
    \/ EntryLapses

RouterSpec == RouterInit /\ [][RouterNext]_vars
-----------------------------------------------------------------------------
InFlight == MapThenSumSet(LAMBDA c : call[c].cost + call[c].outer, Caller)

\* Every dollar the provider charged is in an audit row, in a call under way or
\* in a row that could not be written; no counter counts one twice.
SpendAccounted ==
    /\ charged = ledger + lost + InFlight
    /\ \A p \in Process : guard[p].month <= charged

\* No slot of a provider and no budget lock outlives the call that took it,
\* through refusals, failed writes, an escalated leg on another model, a restart.
NothingLeaks ==
    \A p \in Process :
        /\ inUse[p] = Cardinality({c \in Caller : call[c].pc = "ask" /\ Paid(call[c].model)
                                               /\ ProcOf(c) = p})
        /\ lock[p] # NULL => call[lock[p]].pc = "enter" /\ ProcOf(lock[p]) = p

\* A counter that a process itself took over the cap has left the degraded row
\* set, unless a write failed or the operator lifted the mode since.
CrossingDegrades ==
    \A p \in Process :
        guard[p].seed < Cap /\ guard[p].month >= Cap /\ faults = 0 /\ ~lifted
        => degraded \/ lock[p] # NULL

\* What a paid model saw of an email had a label, was not confidential, and if
\* sensitive was opened for that task, a draft each time: so the call's gate
\* read.  A label the pattern pass or rederive writes after that, while the call
\* waits for its slot, does not stop it.
SensitiveUnderYes ==
    \A e \in Email, t \in Task :
        LET times  == Cardinality({i \in DOMAIN opened : opened[i] = <<e, t>>})
            saw(k) == shown[<<e, t, k>>]
        IN  /\ saw("none") = 0 /\ saw("confidential") = 0
            /\ saw("sensitive") > 0 => times > 0
            /\ t = "draft_reply" => saw("sensitive") <= times

\* Each authorisation spends a confirmation or an arm that a yes of the user
\* has written, and none is spent twice.
EvidenceSpentOnce ==
    Len(opened) + MapThenSumSet(LAMBDA s : confirmed[s], Scope) + (IF armed THEN 1 ELSE 0)
        + Cardinality({c \in Caller : call[c].pc = "grant"}) <= evidence

\* A text call that is refused before it is dispatched leaves the one-shot
\* override armed; it is taken by the call that goes on to a model.
RefusalKeepsOneShot ==
    [][\A c \in Caller :
        /\ call[c].pc \in {"pause", "degraded", "class", "admit"} /\ ~IsTool(call[c].task)
        /\ call'[c].pc = "idle" \/ (call'[c].pc = "record" /\ ~call'[c].ok)
        => oneshot' = oneshot \/ faults' # faults]_vars
-----------------------------------------------------------------------------
(* What the repository says of the router and the code does not do. *)

\* "WITHOUT leaking authorization to a different email": the user's yes opens
\* one email.
OneYesOneEmail == Cardinality({opened[i][1] : i \in DOMAIN opened}) <= yeses
=============================================================================
