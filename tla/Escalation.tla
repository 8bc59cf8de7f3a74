------------------------------ MODULE Escalation ------------------------------
(***************************************************************************)
(* The handshake that lets the content of a sensitive email out to an API  *)
(* model: the user's "yes, escalate" in chat leaves a confirmation for the *)
(* refusal he saw and an armed intent for whatever comes next; a tool call *)
(* or the mint verb spends one of them on an email and a task.             *)
(*                                                                         *)
(* A scope is an email with a task.  The ten minutes an entry lives are    *)
(* the action Lapses, at any time.  Refusals of ingest and of the draft    *)
(* orchestrator are recorded under caller origins nobody says yes for, so  *)
(* of pending_sensitive_refusals only the row of the chat is kept.         *)
(***************************************************************************)
EXTENDS RoutingPolicy, Sequences

CONSTANTS
    Email,       \* the ids of emails, numbers: they are gated in order
    MaxYes,      \* model bound: how often the user says yes
    MaxLabels    \* model bound: labels written

ASSUME EscalationAssumption ==
    Email \subseteq Nat /\ IsFiniteSet(Email) /\ {MaxYes, MaxLabels} \subseteq Nat

VARIABLES
    class,       \* emails.sensitivity, "none" while sensitivity_at is NULL
    refusal,     \* pending_sensitive_refusals of the chat: a scope, or NULL
    armed,       \* escalation_armed has its row
    confirmed,   \* unconsumed user_confirmations of scope sensitivity_token
    granted,     \* scopes with a live escalation_dispatch row
    minted,      \* the scopes of the tokens minted by this API process so far
    live,        \* _REGISTRY: the numbers of the tokens nobody used
    minting,     \* the mint verb: what it asks for and where it is
    saying,      \* the latest user message of the chat turn: "yes" or "other"
    yeses,       \* history variable: "yes, escalate" messages
    labels,      \* history variable: labels written
    evidence,    \* history variable: confirmations and arms written
    opened       \* history variable: the scopes authorised, in order

escalationVars == <<class, refusal, armed, confirmed, granted, minted, live, minting,
                    saying, yeses, labels, evidence, opened>>
-----------------------------------------------------------------------------
ScopedTask == {"tool_call", "draft_reply"}
Scope      == Email \X ScopedTask
Class      == {"none", "normal", "sensitive", "confidential"}

IdleMint == [pc |-> "idle", scope |-> NULL]

EscalationStart ==
    /\ class \in [Email -> Class]
    /\ refusal = NULL /\ armed = FALSE
    /\ confirmed = [s \in Scope |-> 0]
    /\ granted = {} /\ minted = <<>> /\ live = {}
    /\ minting = IdleMint /\ saying = "other"
    /\ evidence = 0 /\ opened = <<>>

ChatKeeps == UNCHANGED <<class, granted, minted, live, minting, saying, yeses, labels, opened>>

\* The row of a sensitive refusal in the chat: the newest one counts.
RecordRefusal(e, t) == refusal' = <<e, t>>

\* confirm_pending_escalation: the claim deletes the row it returns.
ClaimRefusal ==
    /\ refusal' = NULL
    /\ IF refusal = NULL THEN UNCHANGED <<confirmed, evidence>>
       ELSE confirmed' = [confirmed EXCEPT ![refusal] = @ + 1] /\ evidence' = evidence + 1
    /\ UNCHANGED armed /\ ChatKeeps

\* arm_escalation: an upsert, so a second arm adds nothing.
Arm ==
    /\ armed' = TRUE /\ evidence' = evidence + (IF armed THEN 0 ELSE 1)
    /\ UNCHANGED <<refusal, confirmed>> /\ ChatKeeps

\* Mutant: the arm is read and left where it is.
MutSpendArm == armed' = armed

\* consume_sensitivity_confirmation and consume_escalation_arm.
SpendConfirmation(s) == confirmed' = [confirmed EXCEPT ![s] = @ - 1]
SpendArm             == armed' = FALSE
Authorize(s)         == opened' = Append(opened, s)

\* Mutant: any live token opens the gate.
MutValidToken(n, s) == n \in live

\* sensitivity_tokens.consume: the token must be live and for this scope.
ValidToken(n, s) == n \in live /\ minted[n] = s
-----------------------------------------------------------------------------
MintKeeps == UNCHANGED <<class, refusal, granted, saying, yeses, labels, evidence>>

MintGoto(pc) == minting' = [minting EXCEPT !.pc = pc]

\* mint_sensitivity_token: only a sensitive email has anything to mint.
MintBegins(e, t) ==
    /\ minting.pc = "idle" /\ class[e] = "sensitive"
    /\ minting' = [pc |-> "confirmation", scope |-> <<e, t>>]
    /\ UNCHANGED <<armed, confirmed, minted, live, opened>> /\ MintKeeps

MintToken ==
    /\ minted' = Append(minted, minting.scope)
    /\ live' = live \cup {Len(minted) + 1}
    /\ Authorize(minting.scope)
    /\ minting' = IdleMint

MintOnConfirmation ==
    /\ minting.pc = "confirmation"
    /\ IF confirmed[minting.scope] > 0
       THEN SpendConfirmation(minting.scope) /\ MintToken
       ELSE MintGoto("arm") /\ UNCHANGED <<confirmed, minted, live, opened>>
    /\ UNCHANGED armed /\ MintKeeps

MintOnArm ==
    /\ minting.pc = "arm"
    /\ IF armed THEN SpendArm /\ MintToken
       ELSE minting' = IdleMint /\ UNCHANGED <<armed, minted, live, opened>>
    /\ UNCHANGED confirmed /\ MintKeeps

\* The user writes a message in chat; requests of the turn carry it on.
UserWrites(text) ==
    /\ text = "yes" => yeses < MaxYes
    /\ text = "other" => saying = "yes"
    /\ saying' = text /\ yeses' = yeses + (IF text = "yes" THEN 1 ELSE 0)
    /\ UNCHANGED <<class, refusal, armed, confirmed, granted, minted, live, minting,
                   labels, evidence, opened>>

\* The ten minutes of an entry are over.
Lapses ==
    /\ \/ refusal' = NULL /\ UNCHANGED <<armed, confirmed, granted, live>>
       \/ armed' = FALSE /\ UNCHANGED <<refusal, confirmed, granted, live>>
       \/ \E s \in Scope : confirmed[s] > 0 /\ SpendConfirmation(s)
                           /\ UNCHANGED <<refusal, armed, granted, live>>
       \/ \E s \in granted : granted' = granted \ {s}
                             /\ UNCHANGED <<refusal, armed, confirmed, live>>
       \/ \E n \in live : live' = live \ {n}
                          /\ UNCHANGED <<refusal, armed, confirmed, granted>>
    /\ <<refusal, armed, confirmed, granted, live>>' # <<refusal, armed, confirmed, granted, live>>
    /\ UNCHANGED <<class, minted, minting, saying, yeses, labels, evidence, opened>>

\* A label is written: the model's by the ingest pipeline, then the one the
\* owner's patterns force; another one of the model's by `mailbot rederive`, for
\* an email of any class.
Classify(e, c) ==
    /\ c # "none" /\ c # class[e]
    /\ labels < MaxLabels /\ labels' = labels + 1
    /\ class' = [class EXCEPT ![e] = c]
    /\ UNCHANGED <<refusal, armed, confirmed, granted, minted, live, minting, saying,
                   yeses, evidence, opened>>

EscalationStep ==
    \/ \E e \in Email : \/ \E c \in Class : Classify(e, c)
                       \/ \E t \in ScopedTask : MintBegins(e, t)
    \/ MintOnConfirmation \/ MintOnArm
    \/ \E text \in {"yes", "other"} : UserWrites(text)
=============================================================================
