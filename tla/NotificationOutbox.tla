-------------------------- MODULE NotificationOutbox --------------------------
(***************************************************************************)
(* The four-tier notification dispatcher and its delivery.  Tasks of the   *)
(* worker and the API call send_urgent / send_important, which pass the    *)
(* anti-fatigue gates and leave a row in notifications_outbox.  A cron     *)
(* script in the Hermes container pulls urgent rows, prints them and       *)
(* acknowledges them at once; Hermes posts what a script printed to        *)
(* Discord afterwards, or fails to, and tells nobody.  Important rows wait *)
(* for the daily digest.  The two sides share only the table: every        *)
(* statement is its own transaction, and scripts, calls and answers may be *)
(* lost or late.                                                           *)
(*                                                                         *)
(* Time appears as three facts about a row or a mute, each of which may    *)
(* become true at any moment: a claim is over 60 s old (stuck), a row is   *)
(* out of the one-hour dedup window (old), a bounded mute has expired.     *)
(*                                                                         *)
(* The two log-only tiers, informational and silent, change no state.      *)
(***************************************************************************)
EXTENDS Naturals, FiniteSets, Sequences

CONSTANTS
    Category,        \* notification categories
    Sender,          \* tasks that may be sending at one time
    Puller,          \* runs of the delivery script that may overlap
    NULL,
    DedupThreshold,  \* _DEDUP_THRESHOLD
    MaxAttempts,     \* the attempt cap of ack_notification
    PullLimit,       \* limit of one pull
    MaxEvents,       \* model bound: notifications sent
    MaxNoise,        \* model bound: steps of the operator and of the digest
    MaxFaults        \* model bound: lost, late or killed work

ASSUME OutboxAssumption ==
    /\ {DedupThreshold, MaxAttempts, PullLimit} \subseteq Nat \ {0}
    /\ {MaxEvents, MaxNoise, MaxFaults} \subseteq Nat
    /\ IsFiniteSet(Sender)
    /\ NULL \notin Nat

VARIABLES
    outbox,      \* notifications_outbox, in id order
    muted,       \* notification_mutes, per category
    urgentOnly,  \* posture_state.urgent_only
    sender,      \* locals of send_urgent and send_important
    puller,      \* locals of the script and of the pull it waits for
    lateAcks,    \* ack calls the script gave up on and the server still has
    digest,      \* the digest job
    printed,     \* what the scripts flushed to their stdout, for Hermes
    posted,      \* external: the printed messages Hermes posted to Discord
    dropped,     \* external: the printed messages Hermes never posted
    sent,        \* history variable: events so far
    noise,       \* history variable: steps of the operator and the digest
    reclaimed,   \* history variable: rows the recovery sweep took back
    crossed,     \* history variable: rows acked under another pull's claim
    faults       \* history variable

outboxVars == <<outbox, muted, urgentOnly, sender, puller, lateAcks, digest,
                printed, posted, dropped, sent, noise, reclaimed, crossed, faults>>
-----------------------------------------------------------------------------
Event  == 1 .. MaxEvents
Tier   == {"urgent", "important"}
Status == {"pending", "delivering", "ok", "failed_max_retries", "ok_via_digest"}

\* The message is the set of events it stands for: a collapse rewrites it to
\* "5 alerts in the last hour; latest: ...".
Row == [tier : Tier, category : Category, told : SUBSET Event,
        status : Status, attempts : Nat,
        stuck : BOOLEAN,     \* last_attempt_at is over 60 s ago
        old : BOOLEAN]       \* enqueued_at is over an hour ago

IdleSender == [pc |-> "idle", tier |-> NULL, category |-> NULL,
               event |-> NULL, target |-> NULL]
IdlePuller == [pc |-> "idle", todo |-> <<>>, held |-> <<>>]
IdleDigest == [pc |-> "idle", payload |-> {}]

Fault == faults < MaxFaults /\ faults' = faults + 1
Noise == noise < MaxNoise /\ noise' = noise + 1

\* Rows a live run of the script has claimed and not yet acknowledged.
HeldBy(p) == {puller[p].held[i].id : i \in DOMAIN puller[p].held}
    \cup (IF puller[p].pc = "fetch" THEN {Head(puller[p].todo)} ELSE {})

OutboxInit ==
    /\ outbox = <<>>
    /\ muted = [c \in Category |-> "no"]
    /\ urgentOnly = FALSE
    /\ sender = [s \in Sender |-> IdleSender]
    /\ puller = [p \in Puller |-> IdlePuller]
    /\ lateAcks = {}
    /\ digest = IdleDigest
    /\ printed = {} /\ posted = {} /\ dropped = {}
    /\ sent = 0 /\ noise = 0 /\ faults = 0
    /\ reclaimed = {} /\ crossed = {}
-----------------------------------------------------------------------------
(* Sending. *)

SenderGoto(s, pc) == sender' = [sender EXCEPT ![s].pc = pc]
SenderDone(s)     == sender' = [sender EXCEPT ![s] = IdleSender]
SenderKeeps       == UNCHANGED <<muted, urgentOnly, puller, lateAcks, digest,
                                 printed, posted, dropped, noise, reclaimed, crossed>>

\* Only important notifications consult the posture.
Send(s, tier, c) ==
    /\ sender[s].pc = "idle" /\ sent < MaxEvents
    /\ sent' = sent + 1
    /\ sender' = [sender EXCEPT ![s] =
            [pc |-> IF tier = "urgent" THEN "mute" ELSE "posture",
             tier |-> tier, category |-> c, event |-> sent + 1, target |-> NULL]]
    /\ UNCHANGED <<outbox, faults>> /\ SenderKeeps

PostureCheck(s) ==
    /\ sender[s].pc = "posture"
    /\ IF urgentOnly THEN SenderDone(s) ELSE SenderGoto(s, "mute")
    /\ UNCHANGED <<outbox, sent, faults>> /\ SenderKeeps

\* A mute silences urgent notifications too.
MuteCheck(s) ==
    /\ sender[s].pc = "mute"
    /\ IF muted[sender[s].category] # "no" THEN SenderDone(s)
                                           ELSE SenderGoto(s, "dedup")
    /\ UNCHANGED <<outbox, sent, faults>> /\ SenderKeeps

\* Rows of one tier and category that count towards a collapse.
Similar(tier, c) ==
    {i \in DOMAIN outbox : /\ outbox[i].tier = tier
                           /\ outbox[i].category = c
                           /\ outbox[i].status = "pending"
                           /\ ~outbox[i].old}

\* Mutant: one row too many before the collapse.
MutDedupCheck(s) ==
    LET similar == Similar(sender[s].tier, sender[s].category) IN
    /\ sender[s].pc = "dedup"
    /\ IF Cardinality(similar) > DedupThreshold
       THEN sender' = [sender EXCEPT ![s].pc = "collapse",
                                     ![s].target = CHOOSE i \in similar : \A j \in similar : j <= i]
       ELSE SenderGoto(s, "insert")
    /\ UNCHANGED <<outbox, sent, faults>> /\ SenderKeeps

DedupCheck(s) ==
    LET similar == Similar(sender[s].tier, sender[s].category) IN
    /\ sender[s].pc = "dedup"
    /\ IF Cardinality(similar) >= DedupThreshold
       THEN \E latest \in similar :
                /\ \A i \in similar : i <= latest
                /\ sender' = [sender EXCEPT ![s].pc = "collapse",
                                            ![s].target = latest]
       ELSE SenderGoto(s, "insert")
    /\ UNCHANGED <<outbox, sent, faults>> /\ SenderKeeps

\* Mutant: the update of the collapse has no condition on the status.
MutCollapse(s) ==
    /\ sender[s].pc = "collapse"
    /\ outbox' = [outbox EXCEPT ![sender[s].target].told = @ \cup {sender[s].event}]
    /\ SenderDone(s)
    /\ UNCHANGED <<sent, faults>> /\ SenderKeeps

\* The row may have been claimed since it was counted: then insert after all.
Collapse(s) ==
    LET i == sender[s].target IN
    /\ sender[s].pc = "collapse"
    /\ IF outbox[i].status = "pending"
       THEN /\ outbox' = [outbox EXCEPT ![i].told = @ \cup {sender[s].event}]
            /\ SenderDone(s)
       ELSE SenderGoto(s, "insert") /\ UNCHANGED outbox
    /\ UNCHANGED <<sent, faults>> /\ SenderKeeps

Insert(s) ==
    /\ sender[s].pc = "insert"
    /\ outbox' = Append(outbox,
            [tier |-> sender[s].tier, category |-> sender[s].category,
             told |-> {sender[s].event}, status |-> "pending", attempts |-> 0,
             stuck |-> FALSE, old |-> FALSE])
    /\ SenderDone(s)
    /\ UNCHANGED <<sent, faults>> /\ SenderKeeps

\* The process dies, or a statement raises to the caller.
SenderFails(s) ==
    /\ sender[s].pc # "idle" /\ Fault
    /\ SenderDone(s)
    /\ UNCHANGED <<outbox, sent>> /\ SenderKeeps
-----------------------------------------------------------------------------
(* Delivery of urgent rows. *)

PullerKeeps == UNCHANGED <<muted, urgentOnly, sender, digest, posted, dropped,
                           sent, noise, reclaimed>>

\* Mutant: a row is pulled once and never again.
MutPullable == {i \in DOMAIN outbox : /\ outbox[i].tier = "urgent" /\ outbox[i].attempts = 0
                                      /\ outbox[i].status = "pending"}

Pullable == {i \in DOMAIN outbox : outbox[i].tier = "urgent"
                                   /\ outbox[i].status = "pending"}

\* The oldest PullLimit of a set of rows, oldest first.
Oldest(rows) ==
    LET batch == {i \in rows : Cardinality({j \in rows : j < i}) < PullLimit}
    IN  {q \in [1 .. Cardinality(batch) -> batch] :
            \A j, k \in DOMAIN q : j < k => q[j] < q[k]}

Pull(p) ==
    /\ puller[p].pc = "idle" /\ Pullable # {}
    /\ \E batch \in Oldest(Pullable) :
            puller' = [puller EXCEPT ![p] =
                [pc |-> "claim", todo |-> batch, held |-> <<>>]]
    /\ UNCHANGED <<outbox, lateAcks, printed, crossed, faults>> /\ PullerKeeps

\* Mutant: the claim does not look at the status.
MutClaimOne(p) ==
    LET i == Head(puller[p].todo) IN
    /\ puller[p].pc = "claim" /\ puller[p].todo # <<>>
    /\ outbox' = [outbox EXCEPT ![i].status = "delivering", ![i].attempts = @ + 1,
                                ![i].stuck = FALSE]
    /\ puller' = [puller EXCEPT ![p].pc = "fetch"]
    /\ UNCHANGED <<lateAcks, printed, crossed, faults>> /\ PullerKeeps

\* UPDATE ... WHERE id = ? AND delivery_status = 'pending'; a row lost to
\* another pull is skipped.
ClaimOne(p) ==
    LET i == Head(puller[p].todo) IN
    /\ puller[p].pc = "claim" /\ puller[p].todo # <<>>
    /\ IF outbox[i].status = "pending"
       THEN /\ outbox' = [outbox EXCEPT ![i].status = "delivering",
                                        ![i].attempts = @ + 1, ![i].stuck = FALSE]
            /\ puller' = [puller EXCEPT ![p].pc = "fetch"]
       ELSE /\ puller' = [puller EXCEPT ![p].todo = Tail(@)]
            /\ UNCHANGED outbox
    /\ UNCHANGED <<lateAcks, printed, crossed, faults>> /\ PullerKeeps

Refetch(p) ==
    LET i == Head(puller[p].todo) IN
    /\ puller[p].pc = "fetch"
    /\ puller' = [puller EXCEPT
            ![p].pc = "claim", ![p].todo = Tail(@),
            ![p].held = Append(@, [id |-> i, told |-> outbox[i].told,
                                   attempt |-> outbox[i].attempts])]
    /\ UNCHANGED <<outbox, lateAcks, printed, crossed, faults>> /\ PullerKeeps

Responded(p) == puller[p].pc = "claim" /\ puller[p].todo = <<>>

\* The whole batch is flushed to stdout before any row is acknowledged.
WriteOut(p) ==
    /\ Responded(p)
    /\ printed' = printed \cup {puller[p].held[i] : i \in DOMAIN puller[p].held}
    /\ puller' = [puller EXCEPT ![p].pc = "ack"]
    /\ UNCHANGED <<outbox, lateAcks, crossed, faults>> /\ PullerKeeps

\* ack_notification(id, 'ok'): lands on any claim of the row.
AckOk(c) ==
    IF outbox[c.id].status = "delivering"
    THEN /\ outbox' = [outbox EXCEPT ![c.id].status = "ok"]
         /\ crossed' = IF outbox[c.id].attempts = c.attempt THEN crossed
                       ELSE crossed \cup {c.id}
    ELSE UNCHANGED <<outbox, crossed>>

Ack(p) ==
    /\ puller[p].pc = "ack" /\ puller[p].held # <<>>
    /\ AckOk(Head(puller[p].held))
    /\ puller' = [puller EXCEPT ![p].held = Tail(@)]
    /\ UNCHANGED <<lateAcks, printed, faults>> /\ PullerKeeps

\* The call times out; the server may still have it, or never got it.
AckTimesOut(p) ==
    /\ puller[p].pc = "ack" /\ puller[p].held # <<>> /\ Fault
    /\ lateAcks' = lateAcks \cup {Head(puller[p].held)}
    /\ puller' = [puller EXCEPT ![p].held = Tail(@)]
    /\ UNCHANGED <<outbox, printed, crossed>> /\ PullerKeeps

LateAck(c) ==
    /\ c \in lateAcks
    /\ AckOk(c)
    /\ lateAcks' = lateAcks \ {c}
    /\ UNCHANGED <<puller, printed, faults>> /\ PullerKeeps

PullDone(p) ==
    /\ puller[p].pc = "ack" /\ puller[p].held = <<>>
    /\ puller' = [puller EXCEPT ![p] = IdlePuller]
    /\ UNCHANGED <<outbox, lateAcks, printed, crossed, faults>> /\ PullerKeeps

\* The script or the API dies, or the pull's answer is lost.
Abandon(p) ==
    /\ puller[p].pc # "idle" /\ Fault
    /\ puller' = [puller EXCEPT ![p] = IdlePuller]
    /\ UNCHANGED <<outbox, lateAcks, printed, crossed>> /\ PullerKeeps

\* ack_notification also takes a failure, from a deliverer that knows of one
\* before it acks (the shipped script never does): the attempts are read
\* first, then one of two updates runs, each with its own predicate.
PostFails(p) ==
    /\ Responded(p) /\ puller[p].held # <<>>
    /\ puller' = [puller EXCEPT ![p].pc = "nack"]
    /\ UNCHANGED <<outbox, lateAcks, printed, crossed, faults>> /\ PullerKeeps

NackRead(p) ==
    LET held == puller[p].held
        next == IF outbox[Head(held).id].attempts >= MaxAttempts
                THEN "nackMax" ELSE "nackRetry"
    IN
    /\ puller[p].pc = "nack"
    /\ puller' = [puller EXCEPT ![p] =
            IF held = <<>> THEN IdlePuller ELSE [@ EXCEPT !.pc = next]]
    /\ UNCHANGED <<outbox, lateAcks, printed, crossed, faults>> /\ PullerKeeps

NackWrite(p) ==
    LET i == Head(puller[p].held).id
        spent == outbox[i].attempts >= MaxAttempts
        last  == puller[p].pc = "nackMax"
    IN
    /\ puller[p].pc \in {"nackMax", "nackRetry"}
    /\ outbox' = IF outbox[i].status = "delivering" /\ spent = last
                 THEN [outbox EXCEPT ![i].status =
                          IF last THEN "failed_max_retries" ELSE "pending"]
                 ELSE outbox
    /\ puller' = [puller EXCEPT ![p].pc = "nack", ![p].held = Tail(@)]
    /\ UNCHANGED <<lateAcks, printed, crossed, faults>> /\ PullerKeeps

\* reclaim_stuck_deliveries: one UPDATE over the table.
Stuck == {i \in DOMAIN outbox : outbox[i].status = "delivering" /\ outbox[i].stuck}

Reclaim ==
    /\ Stuck # {}
    /\ outbox' = [i \in DOMAIN outbox |->
            IF i \in Stuck THEN [outbox[i] EXCEPT !.status = "pending"] ELSE outbox[i]]
    /\ reclaimed' = reclaimed \cup Stuck
    /\ UNCHANGED <<muted, urgentOnly, sender, puller, lateAcks, digest, printed,
                   posted, dropped, sent, noise, crossed, faults>>

\* Hermes posts a script's output; what it fails to post nobody hears of, and
\* its row is acknowledged all the same.
Undelivered == printed \ (posted \cup dropped)

HermesKeeps == UNCHANGED <<outbox, muted, urgentOnly, sender, puller, lateAcks,
                           digest, printed, sent, noise, reclaimed, crossed>>

HermesPosts(m) ==
    /\ m \in Undelivered
    /\ posted' = posted \cup {m}
    /\ UNCHANGED <<dropped, faults>> /\ HermesKeeps

HermesDrops(m) ==
    /\ m \in Undelivered /\ Fault
    /\ dropped' = dropped \cup {m}
    /\ UNCHANGED posted /\ HermesKeeps
-----------------------------------------------------------------------------
(* Time, the operator and the digest. *)

\* A claim that a live script holds gets stuck only if the script is slow.
Sticks(i) ==
    /\ outbox[i].status = "delivering" /\ ~outbox[i].stuck
    /\ outbox' = [outbox EXCEPT ![i].stuck = TRUE]
    /\ IF \E p \in Puller : i \in HeldBy(p)
       THEN Fault ELSE UNCHANGED faults
    /\ UNCHANGED <<sent, sender>> /\ SenderKeeps

Ages(i) ==
    /\ outbox[i].status = "pending" /\ ~outbox[i].old
    /\ \A j \in 1 .. (i - 1) : outbox[j].old \/ outbox[j].status # "pending"
    /\ outbox' = [j \in DOMAIN outbox |-> [outbox[j] EXCEPT !.old = j <= i \/ @]]
    /\ Noise
    /\ UNCHANGED <<muted, urgentOnly, sender, puller, lateAcks, digest, printed,
                   posted, dropped, sent, reclaimed, crossed, faults>>

OperatorKeeps == UNCHANGED <<outbox, sender, puller, lateAcks, digest, printed,
                             posted, dropped, sent, reclaimed, crossed, faults>>

\* /mute overwrites an earlier mute; a bounded one expires by itself.
MuteCategory(c, how) ==
    /\ muted[c] # how /\ Noise
    /\ muted' = [muted EXCEPT ![c] = how]
    /\ UNCHANGED urgentOnly /\ OperatorKeeps

UnmuteCategory(c) ==
    /\ muted[c] # "no" /\ Noise
    /\ muted' = [muted EXCEPT ![c] = "no"]
    /\ UNCHANGED urgentOnly /\ OperatorKeeps

MuteExpires(c) ==
    /\ muted[c] = "bounded"
    /\ muted' = [muted EXCEPT ![c] = "no"]
    /\ UNCHANGED <<urgentOnly, noise>> /\ OperatorKeeps

SetUrgentOnly ==
    /\ ~urgentOnly /\ Noise
    /\ urgentOnly' = TRUE
    /\ UNCHANGED muted /\ OperatorKeeps

\* /resume lifts the posture.
LiftUrgentOnly ==
    /\ urgentOnly
    /\ urgentOnly' = FALSE
    /\ UNCHANGED <<muted, noise>> /\ OperatorKeeps

DigestKeeps == UNCHANGED <<muted, urgentOnly, sender, puller, lateAcks, posted,
                           dropped, sent, reclaimed, crossed>>

Queued == {i \in DOMAIN outbox : outbox[i].tier = "important"
                                 /\ outbox[i].status = "pending"}

ComposeDigest ==
    /\ digest.pc = "idle" /\ Queued # {} /\ Noise
    /\ digest' = [pc |-> "post",
                  payload |-> {[id |-> i, told |-> outbox[i].told,
                                attempt |-> outbox[i].attempts] : i \in Queued}]
    /\ UNCHANGED <<outbox, printed, faults>> /\ DigestKeeps

\* Its script's output is the prompt of the agent that posts the digest.
PrintDigest ==
    /\ digest.pc = "post"
    /\ printed' = printed \cup digest.payload
    /\ digest' = [digest EXCEPT !.pc = "finalize"]
    /\ UNCHANGED <<outbox, noise, faults>> /\ DigestKeeps

\* The sweep is over whatever is queued now, not over the payload.
FinalizeDigest ==
    /\ digest.pc = "finalize"
    /\ outbox' = [i \in DOMAIN outbox |->
            IF i \in Queued THEN [outbox[i] EXCEPT !.status = "ok_via_digest"]
            ELSE outbox[i]]
    /\ digest' = IdleDigest
    /\ UNCHANGED <<printed, noise, faults>> /\ DigestKeeps

DigestFails ==
    /\ digest.pc # "idle" /\ Fault
    /\ digest' = IdleDigest
    /\ UNCHANGED <<outbox, printed, noise>> /\ DigestKeeps
-----------------------------------------------------------------------------
SendStep(s) ==
    PostureCheck(s) \/ MuteCheck(s) \/ DedupCheck(s) \/ Collapse(s) \/ Insert(s)

DeliverStep(p) ==
    \/ Pull(p) \/ ClaimOne(p) \/ Refetch(p) \/ WriteOut(p) \/ Ack(p) \/ PullDone(p)
    \/ NackRead(p) \/ NackWrite(p)

DeliveryFault(p) == AckTimesOut(p) \/ PostFails(p) \/ Abandon(p)

HermesStep == \E m \in Undelivered : HermesPosts(m) \/ HermesDrops(m)

DigestStep == ComposeDigest \/ PrintDigest \/ FinalizeDigest \/ DigestFails

OperatorStep ==
    \/ \E c \in Category : \/ \E how \in {"bounded", "forever"} : MuteCategory(c, how)
                           \/ UnmuteCategory(c) \/ MuteExpires(c)
    \/ SetUrgentOnly \/ LiftUrgentOnly

TimeStep == \E i \in DOMAIN outbox : Sticks(i) \/ Ages(i)
-----------------------------------------------------------------------------
\* Two runs of the script never deliver the same row, unless the recovery
\* sweep took it back from a slow one.
OneDeliverer ==
    \A p, q \in Puller :
        p # q => HeldBy(p) \cap HeldBy(q) \subseteq reclaimed

\* A row acknowledged as delivered was printed for Hermes with the message it
\* holds, unless the ack was for an earlier claim of the row:
\* ack_notification does not say which claim it answers.
AckedWasPrinted ==
    \A i \in DOMAIN outbox :
        outbox[i].status = "ok" =>
            \E m \in printed : /\ m.id = i
                               /\ m.told = outbox[i].told \/ i \in crossed

\* An urgent notification that reached the table is posted to Discord, through
\* dead scripts and APIs, lost answers and collapses, unless Hermes dropped a
\* message that holds it, its deliverers reported the last attempt as failed
\* or an ack crossed claims.
Accepted(e, i) == outbox[i].tier = "urgent" /\ e \in outbox[i].told

UrgentHeard ==
    \A e \in Event :
        (\E i \in DOMAIN outbox : Accepted(e, i))
        ~> \/ \E m \in posted \cup dropped : e \in m.told
           \/ \E i \in DOMAIN outbox : /\ Accepted(e, i)
                                       /\ outbox[i].status = "failed_max_retries" \/ i \in crossed
=============================================================================
