------------------------------- MODULE MailSync -------------------------------
(***************************************************************************)
(* The delta sync of the inbox: rounds of pages read from Microsoft Graph, *)
(* each message of a page written to the emails table by itself, and the   *)
(* delta link stored when the last page of a round has been written.  The  *)
(* worker runs a round every few minutes; `mailbot sync-now` runs one in a *)
(* process of its own.                                                     *)
(*                                                                         *)
(* Graph is external.  Its changes are numbered; a delta link is the       *)
(* number up to which a round has seen them, and a message's change marker *)
(* is the number of its last change.  A page shows its messages as they    *)
(* are when it is fetched, and a link may expire.                          *)
(*                                                                         *)
(* A round that starts from a link with nothing behind it writes nothing   *)
(* and is left out; so is one that gets no access token.  The writes of    *)
(* one message (sender, thread, email) are one step.                       *)
(***************************************************************************)
EXTENDS Naturals, FiniteSets

CONSTANTS
    Msg,         \* messages; a greater number was received later
    Syncer,      \* processes that sync
    Worker,      \* the one that always does
    NULL,
    PageSize,    \* external: messages in a page
    MaxRetries,  \* _MAX_RETRIES
    MaxChanges,  \* model bound: changes of the inbox
    MaxExpiries, \* model bound: times the links expire
    MaxRounds,   \* model bound: rounds of sync-now
    MaxFaults    \* model bound: refused, malformed and lost work

ASSUME SyncAssumption ==
    /\ Msg \subseteq Nat \ {0} /\ IsFiniteSet(Msg) /\ Worker \in Syncer /\ PageSize \in Nat \ {0}
    /\ {MaxRetries, MaxChanges, MaxExpiries, MaxRounds, MaxFaults} \subseteq Nat
    /\ NULL \notin Nat

VARIABLES
    inbox,      \* external: the version of each message (0: not in the inbox)
    changed,    \* external: when it last changed, arrived or left
    head,       \* external: changes so far
    floor,      \* external: links below this have expired
    rows,       \* emails: change_marker (0: no row) and deleted_at
    link,       \* sync_state.delta_link
    syncer,     \* locals of run_once
    fired,      \* _resync_notification_fired, one per process
    notices,    \* history variable: reset notifications since a clean round
    missed,     \* history variable: live rows a resync could not see leave
    revived,    \* history variable: rows brought back by the operator
    skipped,    \* history variable: messages that came without an id
    mixed,      \* history variable: two rounds have run at one time
    rounds, expiries, faults \* history variables

graphVars == <<inbox, changed, head, floor, expiries>>
syncVars == <<graphVars, rows, link, syncer, fired, notices, missed, revived,
              skipped, mixed, rounds, faults>>
-----------------------------------------------------------------------------
NoRow == [marker |-> 0, deleted |-> FALSE]
IdleSyncer == [pc |-> "idle", from |-> NULL, target |-> 0, todo |-> {},
               page |-> {}, more |-> "none", tries |-> 0]

Live(m) == rows[m].marker # 0 /\ ~rows[m].deleted

SyncInit ==
    /\ inbox = [m \in Msg |-> 0] /\ changed = [m \in Msg |-> 0]
    /\ head = 0 /\ floor = 0
    /\ rows = [m \in Msg |-> NoRow]
    /\ link = NULL
    /\ syncer = [s \in Syncer |-> IdleSyncer]
    /\ fired = [s \in Syncer |-> FALSE]
    /\ notices = 0 /\ missed = {} /\ revived = {} /\ skipped = {} /\ mixed = FALSE
    /\ rounds = 0 /\ expiries = 0 /\ faults = 0

Fault == faults < MaxFaults /\ faults' = faults + 1
NoFault == UNCHANGED faults
-----------------------------------------------------------------------------
(* The mailbox. *)

StoreKeeps == UNCHANGED <<rows, link, syncer, fired, notices, missed, skipped,
                          mixed, rounds, faults>>

\* A message arrives, comes back or is changed (read, moved and edited
\* messages get a new change key), or it leaves the inbox.
MailChanges(m) ==
    /\ head < MaxChanges
    /\ head' = head + 1
    /\ changed' = [changed EXCEPT ![m] = head + 1]
    /\ \/ inbox' = [inbox EXCEPT ![m] = head + 1]
       \/ inbox[m] # 0 /\ inbox' = [inbox EXCEPT ![m] = 0]
    /\ UNCHANGED <<floor, expiries, revived>> /\ StoreKeeps

LinksExpire ==
    /\ expiries < MaxExpiries /\ floor < head
    /\ expiries' = expiries + 1 /\ floor' = head
    /\ UNCHANGED <<inbox, changed, head, revived>> /\ StoreKeeps

\* The operator's resurrect, or the drainer's repair after a revert.
Revive(m) ==
    /\ rows[m].deleted /\ m \notin revived
    /\ rows' = [rows EXCEPT ![m].deleted = FALSE]
    /\ revived' = revived \cup {m}
    /\ UNCHANGED <<graphVars, link, syncer, fired, notices, missed, skipped,
                   mixed, rounds, faults>>
-----------------------------------------------------------------------------
(* One round. *)

Goto(s, pc) == syncer' = [syncer EXCEPT ![s].pc = pc]
Stop(s) == syncer' = [syncer EXCEPT ![s] = IdleSyncer]
FetchKeeps == UNCHANGED <<graphVars, rows, link, fired, notices, missed, revived,
                          skipped, mixed, rounds>>

\* What a link stands for; without one Graph lists the inbox as it is, and
\* says nothing of what has left it.
Delta(from) == IF from = NULL THEN {m \in Msg : inbox[m] # 0}
               ELSE {m \in Msg : changed[m] > from}

StartRound(s) ==
    /\ syncer[s].pc = "idle" /\ link # head
    /\ s # Worker => rounds < MaxRounds
    /\ rounds' = IF s = Worker THEN rounds ELSE rounds + 1
    /\ syncer' = [syncer EXCEPT ![s] = [IdleSyncer EXCEPT
            !.pc = "fetch", !.from = link, !.target = head, !.todo = Delta(link)]]
    /\ missed' = IF link = NULL
                 THEN missed \cup {m \in Msg : inbox[m] = 0 /\ Live(m)} ELSE missed
    /\ mixed' = (mixed \/ \E o \in Syncer \ {s} : syncer[o].pc # "idle")
    /\ NoFault
    /\ UNCHANGED <<graphVars, rows, link, fired, notices, revived, skipped>>

Expired(s) == syncer[s].from # NULL /\ syncer[s].from < floor

\* A page with a next link, with the delta link, or (malformed) with neither.
FetchPage(s) ==
    /\ syncer[s].pc = "fetch" /\ ~Expired(s)
    /\ \E ms \in SUBSET syncer[s].todo :
        /\ Cardinality(ms) <= PageSize
        /\ ms = syncer[s].todo \/ Cardinality(ms) = PageSize
        /\ \E more \in {IF ms = syncer[s].todo THEN "delta" ELSE "next", "none"} :
            /\ IF more = "none" THEN Fault ELSE NoFault
            /\ syncer' = [syncer EXCEPT
                    ![s].pc = "apply", ![s].tries = 0, ![s].more = more,
                    ![s].todo = @ \ ms,
                    ![s].page = {<<m, inbox[m]>> : m \in ms}]
    /\ FetchKeeps

\* 429 and 5xx are retried; the last one ends the round.
Throttled(s) ==
    /\ syncer[s].pc = "fetch" /\ Fault
    /\ IF syncer[s].tries < MaxRetries
       THEN syncer' = [syncer EXCEPT ![s].tries = @ + 1] ELSE Stop(s)
    /\ FetchKeeps

\* Another refusal, a lost connection, a body that is no JSON object.
FetchFails(s) == syncer[s].pc = "fetch" /\ Fault /\ Stop(s) /\ FetchKeeps

\* Mutant: the dead link stays.
MutTokenDead(s) ==
    /\ syncer[s].pc = "fetch" /\ Expired(s)
    /\ Goto(s, "notify") /\ NoFault
    /\ UNCHANGED <<graphVars, rows, link, fired, notices, missed, revived,
                   skipped, mixed, rounds>>

\* 410, or 404 with syncStateNotFound: the next round starts from scratch.
TokenDead(s) ==
    /\ syncer[s].pc = "fetch" /\ Expired(s)
    /\ link' = NULL
    /\ Goto(s, "notify") /\ NoFault
    /\ UNCHANGED <<graphVars, rows, fired, notices, missed, revived, skipped,
                   mixed, rounds>>

NotifyReset(s) ==
    /\ syncer[s].pc = "notify"
    /\ notices' = IF fired[s] THEN notices ELSE notices + 1
    /\ fired' = [fired EXCEPT ![s] = TRUE]
    /\ Stop(s) /\ NoFault
    /\ UNCHANGED <<graphVars, rows, link, missed, revived, skipped, mixed, rounds>>

\* send_urgent raises out of run_once; the flag stays down.
NotifyRaises(s) == syncer[s].pc = "notify" /\ Fault /\ Stop(s) /\ FetchKeeps

\* EMAIL_UPSERT writes only a marker that differs and never deleted_at;
\* EMAIL_SOFT_DELETE writes only a live row.
Upserted(row, marker) ==
    IF marker = 0 THEN [row EXCEPT !.deleted = row.marker # 0]
    ELSE [row EXCEPT !.marker = marker]

ApplyMessage(s) ==
    /\ syncer[s].pc = "apply"
    /\ \E msg \in syncer[s].page :
        /\ rows' = [rows EXCEPT ![msg[1]] = Upserted(@, msg[2])]
        /\ syncer' = [syncer EXCEPT ![s].page = @ \ {msg}]
        /\ missed' = missed \ {msg[1]} /\ skipped' = skipped \ {msg[1]}
        /\ revived' = IF msg[2] = 0 THEN revived \ {msg[1]} ELSE revived
    /\ NoFault
    /\ UNCHANGED <<graphVars, link, fired, notices, mixed, rounds>>

\* A message without an id is logged and passed over.
SkipMessage(s) ==
    /\ syncer[s].pc = "apply" /\ Fault
    /\ \E msg \in syncer[s].page :
        /\ syncer' = [syncer EXCEPT ![s].page = @ \ {msg}]
        /\ skipped' = skipped \cup {msg[1]}
    /\ UNCHANGED <<graphVars, rows, link, fired, notices, missed, revived, mixed,
                   rounds>>

\* Mutant: every page ends the round.
MutPageDone(s) ==
    /\ syncer[s].pc = "apply" /\ syncer[s].page = {}
    /\ Goto(s, "persist")
    /\ NoFault /\ FetchKeeps

PageDone(s) ==
    /\ syncer[s].pc = "apply" /\ syncer[s].page = {}
    /\ CASE syncer[s].more = "next" -> Goto(s, "fetch")
         [] syncer[s].more = "delta" -> Goto(s, "persist")
         [] OTHER -> Stop(s)
    /\ NoFault /\ FetchKeeps

\* The link is stored when the whole round is; that also ends the episode of
\* a reset.
Persist(s) ==
    /\ syncer[s].pc = "persist"
    /\ link' = syncer[s].target
    /\ fired' = [fired EXCEPT ![s] = FALSE] /\ notices' = 0
    /\ Stop(s) /\ NoFault
    /\ UNCHANGED <<graphVars, rows, missed, revived, skipped, mixed, rounds>>

\* The process dies, or a write fails and run_once raises.
SyncDies(s) ==
    /\ syncer[s].pc # "idle" /\ Fault
    /\ Stop(s)
    /\ fired' = [fired EXCEPT ![s] = FALSE]
    /\ UNCHANGED <<graphVars, rows, link, notices, missed, revived, skipped,
                   mixed, rounds>>

RoundStep(s) ==
    \/ StartRound(s) \/ FetchPage(s) \/ TokenDead(s) \/ NotifyReset(s)
    \/ ApplyMessage(s) \/ PageDone(s) \/ Persist(s)

SyncFault(s) ==
    Throttled(s) \/ FetchFails(s) \/ NotifyRaises(s) \/ SkipMessage(s) \/ SyncDies(s)

SyncNext ==
    \/ \E m \in Msg : MailChanges(m) \/ Revive(m)
    \/ LinksExpire
    \/ \E s \in Syncer : RoundStep(s) \/ SyncFault(s)

SyncFairness == WF_syncVars(RoundStep(Worker))

SyncSpec == SyncInit /\ [][SyncNext]_syncVars /\ SyncFairness
-----------------------------------------------------------------------------
\* What the stored link says has been seen is in the table: a message that
\* has not changed since is there in its last version, and one that has left
\* is no live row.  No page, crash, refusal or dead link between two rounds
\* loses a change.  The code leaves room for what is listed: a message that
\* came without id, one that left while no link was held, one the operator
\* revived, and two rounds at one time.
StoreFollowsInbox ==
    link # NULL /\ ~mixed =>
        \A m \in Msg \ skipped : changed[m] <= link =>
            IF inbox[m] # 0 THEN rows[m].marker = inbox[m]
            ELSE Live(m) => m \in missed \cup revived

\* Once the mailbox and the faults have come to rest, the link catches up,
\* through expired links and resyncs.
CatchesUp == <>[](link = head \/ (link = NULL /\ head = 0))
=============================================================================
