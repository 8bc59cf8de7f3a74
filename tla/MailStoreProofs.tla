---------------------------- MODULE MailStoreProofs ----------------------------
(***************************************************************************)
(* What holds of the mail store for any number of messages, processes,     *)
(* changes, rounds and commands: the sync first, by itself and under the   *)
(* pipeline, then the labels and the keys of the pipeline.                 *)
(***************************************************************************)
EXTENDS Ingest, TLAPS, FiniteSetTheorems, SequenceTheorems

SyncPc == {"idle", "fetch", "apply", "persist", "notify"}

RowType == [marker : Nat, deleted : BOOLEAN]

SyncerType == [pc : SyncPc, from : Nat \cup {NULL}, target : Nat, todo : SUBSET Msg,
               page : SUBSET (Msg \X Nat), more : {"none", "next", "delta"}, tries : Nat]

\* No round has seen a change that has not happened.
SyncTyped ==
    /\ inbox \in [Msg -> Nat] /\ changed \in [Msg -> Nat] /\ head \in Nat
    /\ rows \in [Msg -> RowType]
    /\ link \in Nat \cup {NULL} /\ (link # NULL => link <= head)
    /\ syncer \in [Syncer -> SyncerType]
    /\ \A s \in Syncer : syncer[s].target <= head
    /\ mixed \in BOOLEAN

\* The row of a message says what the inbox does.
Agrees(m) ==
    IF inbox[m] # 0 THEN rows[m].marker = inbox[m]
    ELSE Live(m) => m \in missed \cup revived

InRound(s) == syncer[s].pc \in {"fetch", "apply", "persist"}

\* A round that runs alone: what it has still to fetch and to write is all
\* that may differ, among the changes up to its target.
RoundOK(s) ==
    LET r == syncer[s] IN
    /\ link # NULL => link <= r.target
    /\ \A e \in r.page : changed[e[1]] <= r.target => e[2] = inbox[e[1]]
    /\ \A m \in Msg \ skipped :
            changed[m] <= r.target /\ m \notin r.todo /\ (\A e \in r.page : e[1] # m)
                => Agrees(m)
    /\ r.pc # "apply" => r.page = {}
    /\ r.pc = "persist" \/ (r.pc = "apply" /\ r.more = "delta") => r.todo = {}

StoreInv ==
    ~mixed =>
        /\ \A s, o \in Syncer : s # o => syncer[s].pc = "idle" \/ syncer[o].pc = "idle"
        /\ \A s \in Syncer : InRound(s) => RoundOK(s)
        /\ StoreFollowsInbox

\* What a step may do to the locals of one process, and only those.
SyncerSet(s, r) ==
    /\ r \in SyncerType /\ syncer'[s] = r
    /\ syncer' \in [Syncer -> SyncerType]
    /\ \A o \in Syncer : o # s => syncer'[o] = syncer[o]

\* Replacing the locals of one process.
LEMMA SetSyncer ==
    ASSUME SyncTyped, NEW s \in Syncer, NEW r \in SyncerType,
           syncer' = [syncer EXCEPT ![s] = r]
    PROVE  SyncerSet(s, r)
  BY DEF SyncerSet, SyncTyped

\* A process that stops is idle.
LEMMA StopSets ==
    ASSUME SyncTyped, NEW s \in Syncer, Stop(s)
    PROVE  SyncerSet(s, IdleSyncer) /\ IdleSyncer.pc = "idle" /\ IdleSyncer.target = 0
  <1>1. IdleSyncer \in SyncerType /\ IdleSyncer.pc = "idle" /\ IdleSyncer.target = 0
    BY DEF IdleSyncer, SyncerType, SyncPc
  <1> QED BY <1>1, SetSyncer DEF Stop

\* A process that goes on to another step keeps its other locals.
LEMMA GotoSets ==
    ASSUME SyncTyped, NEW s \in Syncer, NEW pc \in SyncPc, Goto(s, pc)
    PROVE  \E r \in SyncerType :
                /\ SyncerSet(s, r) /\ r.pc = pc /\ r.from = syncer[s].from
                /\ r.target = syncer[s].target /\ r.todo = syncer[s].todo
                /\ r.page = syncer[s].page /\ r.more = syncer[s].more
  <1>1. syncer[s] \in SyncerType
    BY DEF SyncTyped
  <1> DEFINE r == [syncer[s] EXCEPT !.pc = pc]
  <1>2. /\ r \in SyncerType /\ r.pc = pc /\ r.from = syncer[s].from
        /\ r.target = syncer[s].target /\ r.todo = syncer[s].todo
        /\ r.page = syncer[s].page /\ r.more = syncer[s].more
    BY <1>1 DEF SyncerType
  <1>3. syncer' = [syncer EXCEPT ![s] = r]
    BY DEF Goto
  <1> HIDE DEF r
  <1> QED BY <1>2, <1>3, SetSyncer

\* What a step of the mail store does, whatever the pipeline does with it.
Untouched == UNCHANGED <<inbox, changed, head, rows, link, syncer, missed, revived,
                         skipped, mixed>>

\* The step of one process whose own locals are typed keeps the types.
LEMMA SyncerTyped ==
    ASSUME SyncTyped, NEW s \in Syncer, NEW r, SyncerSet(s, r), r.target <= head,
           UNCHANGED <<inbox, changed, head, rows>>, mixed' \in BOOLEAN,
           link' \in Nat \cup {NULL}, link' # NULL => link' <= head
    PROVE  SyncTyped'
  BY DEF SyncTyped, SyncerSet

\* What StartRound leaves in the locals of its process.
LEMMA StartSets ==
    ASSUME SyncTyped, NEW s \in Syncer, StartRound(s)
    PROVE  \E r \in SyncerType :
                /\ SyncerSet(s, r) /\ r.pc = "fetch" /\ r.from = link /\ r.target = head
                /\ r.todo = Delta(link) /\ r.page = {} /\ r.more = "none"
  <1> DEFINE r == [IdleSyncer EXCEPT !.pc = "fetch", !.from = link, !.target = head,
                                     !.todo = Delta(link)]
  <1>1. Delta(link) \in SUBSET Msg
    BY DEF Delta
  <1>2. /\ r \in SyncerType /\ r.pc = "fetch" /\ r.from = link /\ r.target = head
        /\ r.todo = Delta(link) /\ r.page = {} /\ r.more = "none"
    BY <1>1 DEF SyncTyped, IdleSyncer, SyncerType, SyncPc
  <1>3. syncer' = [syncer EXCEPT ![s] = r]
    BY DEF StartRound
  <1> HIDE DEF r
  <1> QED BY <1>2, <1>3, SetSyncer

\* What FetchPage does: the page is taken from what is still to come.
LEMMA FetchSets ==
    ASSUME SyncTyped, NEW s \in Syncer, FetchPage(s)
    PROVE  \E ms \in SUBSET syncer[s].todo : \E r \in SyncerType :
                /\ SyncerSet(s, r) /\ r.pc = "apply" /\ r.target = syncer[s].target
                /\ r.todo = syncer[s].todo \ ms
                /\ r.page = {<<m, inbox[m]>> : m \in ms}
                /\ r.more = "delta" => ms = syncer[s].todo
  <1>1. PICK ms \in SUBSET syncer[s].todo :
          \E more \in {IF ms = syncer[s].todo THEN "delta" ELSE "next", "none"} :
            syncer' = [syncer EXCEPT
                    ![s].pc = "apply", ![s].tries = 0, ![s].more = more,
                    ![s].todo = @ \ ms,
                    ![s].page = {<<m, inbox[m]>> : m \in ms}]
    BY DEF FetchPage
  <1>2. PICK more \in {IF ms = syncer[s].todo THEN "delta" ELSE "next", "none"} :
            syncer' = [syncer EXCEPT
                    ![s].pc = "apply", ![s].tries = 0, ![s].more = more,
                    ![s].todo = @ \ ms,
                    ![s].page = {<<m, inbox[m]>> : m \in ms}]
    BY <1>1
  <1> DEFINE pages == {<<m, inbox[m]>> : m \in ms}
             left == syncer[s].todo \ ms
             r == [syncer[s] EXCEPT !.pc = "apply", !.tries = 0, !.more = more,
                                    !.todo = left, !.page = pages]
  <1>3. syncer[s] \in SyncerType
    BY DEF SyncTyped
  <1>4. syncer[s].todo \subseteq Msg
    BY <1>3 DEF SyncerType
  <1>5. pages \in SUBSET (Msg \X Nat) /\ left \in SUBSET Msg
    BY <1>4 DEF SyncTyped
  <1>6. syncer' = [syncer EXCEPT ![s] = r]
    BY <1>2
  <1>7. more \in {"none", "next", "delta"} /\ (more = "delta" => ms = syncer[s].todo)
    BY <1>2
  <1> HIDE DEF pages, left
  <1>8. /\ r \in SyncerType /\ r.pc = "apply" /\ r.target = syncer[s].target
        /\ r.todo = left /\ r.page = pages /\ r.more = more
    BY <1>3, <1>5, <1>7 DEF SyncerType, SyncPc
  <1> HIDE DEF r
  <1> QED BY <1>6, <1>7, <1>8, SetSyncer DEF pages, left

\* A message that is written, or passed over, leaves the page.
LEMMA PageShrinks ==
    ASSUME SyncTyped, NEW s \in Syncer, NEW e,
           syncer' = [syncer EXCEPT ![s].page = @ \ {e}]
    PROVE  \E r \in SyncerType :
                /\ SyncerSet(s, r) /\ r.pc = syncer[s].pc /\ r.target = syncer[s].target
                /\ r.todo = syncer[s].todo /\ r.page = syncer[s].page \ {e}
                /\ r.more = syncer[s].more
  <1> DEFINE page == syncer[s].page \ {e}
             r == [syncer[s] EXCEPT !.page = page]
  <1>1. syncer[s] \in SyncerType
    BY DEF SyncTyped
  <1>2. page \in SUBSET (Msg \X Nat)
    BY <1>1 DEF SyncerType
  <1>3. syncer' = [syncer EXCEPT ![s] = r]
    OBVIOUS
  <1> HIDE DEF page
  <1>4. /\ r \in SyncerType /\ r.pc = syncer[s].pc /\ r.target = syncer[s].target
        /\ r.todo = syncer[s].todo /\ r.page = page /\ r.more = syncer[s].more
    BY <1>1, <1>2 DEF SyncerType
  <1> HIDE DEF r
  <1> QED BY <1>3, <1>4, SetSyncer DEF page

\* A refused page is asked for again, or the round ends.
LEMMA ThrottledSets ==
    ASSUME SyncTyped, NEW s \in Syncer, Throttled(s)
    PROVE  \E r \in SyncerType :
                /\ SyncerSet(s, r) /\ r.target \in {0, syncer[s].target}
                /\ \/ r.pc = "idle"
                   \/ /\ r.pc = syncer[s].pc /\ r.target = syncer[s].target
                      /\ r.todo = syncer[s].todo /\ r.page = syncer[s].page
                      /\ r.more = syncer[s].more
  <1>1. CASE Stop(s)
    <2>1. IdleSyncer \in SyncerType
      BY DEF IdleSyncer, SyncerType, SyncPc
    <2> QED BY <1>1, <2>1, StopSets
  <1>2. CASE syncer' = [syncer EXCEPT ![s].tries = @ + 1]
    <2>1. syncer[s] \in SyncerType
      BY DEF SyncTyped
    <2> DEFINE r == [syncer[s] EXCEPT !.tries = syncer[s].tries + 1]
    <2>2. syncer[s].tries + 1 \in Nat
      BY <2>1 DEF SyncerType
    <2>3. /\ r \in SyncerType /\ r.pc = syncer[s].pc /\ r.target = syncer[s].target
          /\ r.todo = syncer[s].todo /\ r.page = syncer[s].page /\ r.more = syncer[s].more
      BY <2>1, <2>2 DEF SyncerType
    <2>4. syncer' = [syncer EXCEPT ![s] = r]
      BY <1>2
    <2> HIDE DEF r
    <2> QED BY <2>3, <2>4, SetSyncer
  <1> QED BY <1>1, <1>2 DEF Throttled

\* Every step keeps the types, and no round looks past what has happened.
LEMMA SyncTypedStep ==
    ASSUME SyncTyped, SyncNext \/ Untouched
    PROVE  SyncTyped'
  <1>1. /\ head \in Nat /\ NULL \notin Nat /\ link \in Nat \cup {NULL}
        /\ (link # NULL => link <= head) /\ mixed \in BOOLEAN
        /\ \A s \in Syncer : /\ syncer[s] \in SyncerType /\ syncer[s].target \in Nat
                             /\ syncer[s].target <= head
    BY SyncAssumption DEF SyncTyped, SyncerType
  <1>2. ASSUME NEW m \in Msg, MailChanges(m) PROVE SyncTyped'
    <2>1. /\ head' \in Nat /\ \A n \in Nat : n <= head => n <= head'
      BY <1>1, <1>2 DEF MailChanges
    <2>2. inbox' \in [Msg -> Nat] /\ changed' \in [Msg -> Nat]
      BY <1>1, <1>2 DEF MailChanges, SyncTyped
    <2>3. UNCHANGED <<rows, link, syncer, mixed>>
      BY <1>2 DEF MailChanges, StoreKeeps
    <2> QED BY <1>1, <2>1, <2>2, <2>3 DEF SyncTyped
  <1>3. ASSUME NEW m \in Msg, Revive(m) PROVE SyncTyped'
    <2>1. rows' \in [Msg -> RowType]
      BY <1>3 DEF Revive, SyncTyped, RowType
    <2>2. UNCHANGED <<inbox, changed, head, link, syncer, mixed>>
      BY <1>3 DEF Revive, graphVars
    <2> QED BY <2>1, <2>2 DEF SyncTyped
  <1>4. CASE Untouched \/ LinksExpire
    <2>1. UNCHANGED <<inbox, changed, head, rows, link, syncer, mixed>>
      BY <1>4 DEF Untouched, LinksExpire, StoreKeeps
    <2> QED BY <2>1 DEF SyncTyped
  <1>5. ASSUME NEW s \in Syncer, RoundStep(s) \/ SyncFault(s) PROVE SyncTyped'
    <2>1. CASE StartRound(s)
      <3>1. UNCHANGED <<inbox, changed, head, rows, link>> /\ mixed' \in BOOLEAN
        BY <1>1, <2>1 DEF StartRound, graphVars
      <3>2. PICK r \in SyncerType : SyncerSet(s, r) /\ r.target = head
        BY <2>1, StartSets
      <3> QED BY <1>1, <3>1, <3>2, SyncerTyped
    <2>2. CASE ApplyMessage(s)
      <3>1. PICK e \in syncer[s].page :
                /\ rows' = [rows EXCEPT ![e[1]] = Upserted(@, e[2])]
                /\ syncer' = [syncer EXCEPT ![s].page = @ \ {e}]
        BY <2>2 DEF ApplyMessage
      <3>2. e \in Msg \X Nat
        BY <1>1 DEF SyncerType
      <3>3. \A row \in RowType, n \in Nat : Upserted(row, n) \in RowType
        BY DEF Upserted, RowType
      <3>4. rows' \in [Msg -> RowType]
        <4>1. rows[e[1]] \in RowType
          BY <3>2 DEF SyncTyped
        <4>2. Upserted(rows[e[1]], e[2]) \in RowType
          BY <3>2, <3>3, <4>1
        <4> QED BY <3>1, <3>2, <4>2 DEF SyncTyped
      <3>5. UNCHANGED <<inbox, changed, head, link, mixed>>
        BY <2>2 DEF ApplyMessage, graphVars
      <3>6. PICK r \in SyncerType : SyncerSet(s, r) /\ r.target = syncer[s].target
        BY <3>1, PageShrinks
      <3> QED BY <1>1, <3>4, <3>5, <3>6 DEF SyncTyped, SyncerSet
    <2>3. ASSUME NEW r, SyncerSet(s, r), r.target \in {0, syncer[s].target},
                 UNCHANGED <<inbox, changed, head, rows, mixed>>,
                 link' \in {link, NULL}
          PROVE  SyncTyped'
      <3>1. r.target <= head
        BY <1>1, <2>3
      <3> QED BY <1>1, <2>3, <3>1, SyncerTyped
    <2>4. CASE FetchPage(s)
      <3>1. UNCHANGED <<inbox, changed, head, rows, link, mixed>>
        BY <2>4 DEF FetchPage, FetchKeeps, graphVars
      <3> QED BY <2>3, <2>4, <3>1, FetchSets
    <2>5. CASE Throttled(s)
      <3>1. UNCHANGED <<inbox, changed, head, rows, link, mixed>>
        BY <2>5 DEF Throttled, FetchKeeps, graphVars
      <3> QED BY <2>3, <2>5, <3>1, ThrottledSets
    <2>6. CASE SkipMessage(s)
      <3>1. UNCHANGED <<inbox, changed, head, rows, link, mixed>>
        BY <2>6 DEF SkipMessage, graphVars
      <3>2. \E e : syncer' = [syncer EXCEPT ![s].page = @ \ {e}]
        BY <2>6 DEF SkipMessage
      <3> QED BY <2>3, <3>1, <3>2, PageShrinks
    <2>7. CASE Persist(s)
      <3>1. UNCHANGED <<inbox, changed, head, rows, mixed>> /\ link' = syncer[s].target /\ Stop(s)
        BY <2>7 DEF Persist, graphVars
      <3>2. SyncerSet(s, IdleSyncer) /\ IdleSyncer.target <= head
        BY <1>1, <3>1, StopSets
      <3> QED BY <1>1, <3>1, <3>2, SyncerTyped
    <2>8. ASSUME NEW pc \in SyncPc, Goto(s, pc), UNCHANGED <<inbox, changed, head, rows, mixed>>,
                 link' \in {link, NULL}
          PROVE  SyncTyped'
      BY <2>3, <2>8, GotoSets
    <2>9. ASSUME Stop(s), UNCHANGED <<inbox, changed, head, rows, mixed>>, link' \in {link, NULL}
          PROVE  SyncTyped'
      BY <2>3, <2>9, StopSets
    <2>10. CASE TokenDead(s)
      BY <2>8, <2>10 DEF TokenDead, graphVars, SyncPc
    <2>11. CASE PageDone(s)
      <3>1. Goto(s, "fetch") \/ Goto(s, "persist") \/ Stop(s)
        BY <2>11 DEF PageDone
      <3>2. UNCHANGED <<inbox, changed, head, rows, link, mixed>>
        BY <2>11 DEF PageDone, FetchKeeps, graphVars
      <3> QED BY <2>8, <2>9, <3>1, <3>2 DEF SyncPc
    <2>12. CASE NotifyReset(s) \/ FetchFails(s) \/ NotifyRaises(s) \/ SyncDies(s)
      <3>1. Stop(s) /\ UNCHANGED <<inbox, changed, head, rows, link, mixed>>
        BY <2>12 DEF NotifyReset, FetchFails, NotifyRaises, SyncDies, FetchKeeps, graphVars
      <3> QED BY <2>9, <3>1
    <2> QED BY <1>5, <2>1, <2>2, <2>4, <2>5, <2>6, <2>7, <2>10, <2>11, <2>12
            DEF RoundStep, SyncFault
  <1> QED BY <1>2, <1>3, <1>4, <1>5 DEF SyncNext

\* A step that leaves the table, the link and the inbox alone keeps what they
\* say of one another.
LEMMA StoreStays ==
    ASSUME StoreFollowsInbox, ~mixed,
           UNCHANGED <<inbox, changed, rows, link, missed, revived, mixed>>,
           skipped \subseteq skipped'
    PROVE  StoreFollowsInbox'
  BY DEF StoreFollowsInbox, Live

\* The step of a process that runs alone.
LEMMA AloneStep ==
    ASSUME SyncTyped, StoreInv, ~mixed, mixed' = mixed, NEW s \in Syncer, syncer[s].pc # "idle",
           NEW r, SyncerSet(s, r), StoreFollowsInbox',
           r.pc \in {"fetch", "apply", "persist"} => RoundOK(s)'
    PROVE  StoreInv'
  <1>1. \A o \in Syncer : o # s => syncer'[o].pc = "idle"
    BY DEF StoreInv, SyncerSet
  <1>2. syncer'[s] = r
    BY DEF SyncerSet
  <1>3. \A o \in Syncer : InRound(o)' => RoundOK(o)'
    <2> SUFFICES ASSUME NEW o \in Syncer, InRound(o)' PROVE RoundOK(o)'
      OBVIOUS
    <2>1. o = s
      BY <1>1 DEF InRound
    <2>2. r.pc \in {"fetch", "apply", "persist"}
      BY <1>2, <2>1 DEF InRound
    <2> QED BY <2>1, <2>2
  <1> QED BY <1>1, <1>3 DEF StoreInv

\* Every step keeps the store in line with the inbox, up to the stored link
\* and up to what a round that runs alone has seen.
LEMMA StoreStep ==
    ASSUME SyncTyped, StoreInv, SyncNext \/ Untouched
    PROVE  StoreInv'
  <1> SUFFICES ASSUME ~mixed' PROVE StoreInv'
    BY DEF StoreInv
  <1>1. /\ head \in Nat /\ NULL \notin Nat /\ link \in Nat \cup {NULL}
        /\ (link # NULL => link <= head) /\ mixed \in BOOLEAN
        /\ \A m \in Msg : changed[m] \in Nat /\ inbox[m] \in Nat /\ rows[m] \in RowType
        /\ \A s \in Syncer : /\ syncer[s] \in SyncerType /\ syncer[s].target \in Nat
                             /\ syncer[s].target <= head
    BY SyncAssumption DEF SyncTyped, SyncerType
  <1>2. ~mixed
    BY DEF SyncNext, Untouched, RoundStep, SyncFault, MailChanges, Revive, LinksExpire, StoreKeeps,
           StartRound, FetchPage, TokenDead, NotifyReset, ApplyMessage, PageDone, Persist,
           Throttled, FetchFails, NotifyRaises, SkipMessage, SyncDies, FetchKeeps
  <1>3. /\ \A s, o \in Syncer : s # o => syncer[s].pc = "idle" \/ syncer[o].pc = "idle"
        /\ \A s \in Syncer : InRound(s) => RoundOK(s)
        /\ StoreFollowsInbox
    BY <1>2 DEF StoreInv
  <1>4. CASE Untouched \/ LinksExpire
    <2>1. UNCHANGED <<inbox, changed, rows, link, syncer, missed, revived, skipped, mixed>>
      BY <1>4 DEF Untouched, LinksExpire, StoreKeeps
    <2>2. StoreFollowsInbox'
      BY <1>2, <1>3, <2>1, StoreStays
    <2>3. ASSUME NEW s \in Syncer, InRound(s)' PROVE RoundOK(s)'
      BY <1>3, <2>1, <2>3 DEF InRound, RoundOK, Agrees, Live
    <2> QED BY <1>3, <2>1, <2>2, <2>3 DEF StoreInv
  <1>5. ASSUME NEW m \in Msg, MailChanges(m) PROVE StoreInv'
    <2>1. /\ changed'[m] = head + 1
          /\ \A n \in Msg : n # m => changed'[n] = changed[n] /\ inbox'[n] = inbox[n]
          /\ UNCHANGED <<rows, link, syncer, missed, revived, skipped, mixed>>
      BY <1>5 DEF MailChanges, StoreKeeps, SyncTyped
    <2>2. \A n \in Nat : n <= head => ~(changed'[m] <= n)
      BY <1>1, <2>1
    <2>3. StoreFollowsInbox'
      <3> SUFFICES ASSUME link # NULL, NEW n \in Msg \ skipped, changed'[n] <= link
                   PROVE  IF inbox'[n] # 0 THEN rows[n].marker = inbox'[n]
                          ELSE (rows[n].marker # 0 /\ ~rows[n].deleted) => n \in missed \cup revived
        BY <2>1 DEF StoreFollowsInbox, Live
      <3>1. n # m
        BY <1>1, <2>2
      <3> QED BY <1>2, <1>3, <2>1, <3>1 DEF StoreFollowsInbox, Live
    <2>4. ASSUME NEW s \in Syncer, InRound(s)' PROVE RoundOK(s)'
      <3>1. RoundOK(s)
        BY <1>3, <2>1, <2>4 DEF InRound
      <3>2. ~(changed'[m] <= syncer[s].target)
        BY <1>1, <2>2
      <3>3. \A e \in syncer[s].page : e[1] \in Msg
        BY <1>1 DEF SyncerType
      <3>4. ASSUME NEW e \in syncer[s].page, changed'[e[1]] <= syncer[s].target
            PROVE  e[2] = inbox'[e[1]]
        BY <2>1, <3>1, <3>2, <3>3, <3>4 DEF RoundOK
      <3>5. ASSUME NEW n \in Msg \ skipped, changed'[n] <= syncer[s].target, n \notin syncer[s].todo,
                   \A e \in syncer[s].page : e[1] # n
            PROVE  Agrees(n)'
        BY <2>1, <3>1, <3>2, <3>5 DEF RoundOK, Agrees, Live
      <3> QED BY <2>1, <3>1, <3>4, <3>5 DEF RoundOK
    <2> QED BY <1>3, <2>1, <2>3, <2>4 DEF StoreInv
  <1>6. ASSUME NEW m \in Msg, Revive(m) PROVE StoreInv'
    <2>1. /\ \A n \in Msg : /\ rows'[n].marker = rows[n].marker
                            /\ n # m => rows'[n] = rows[n]
          /\ revived' = revived \cup {m}
          /\ UNCHANGED <<inbox, changed, link, syncer, missed, skipped, mixed>>
      BY <1>1, <1>6 DEF Revive, SyncTyped, RowType, graphVars
    <2>2. \A n \in Msg : Live(n)' => Live(n) \/ n \in revived'
      BY <2>1 DEF Live
    <2>3. \A n \in Msg : Agrees(n) => Agrees(n)'
      BY <2>1, <2>2 DEF Agrees
    <2>4. StoreFollowsInbox'
      BY <1>3, <1>2, <2>1, <2>2 DEF StoreFollowsInbox
    <2>5. ASSUME NEW s \in Syncer, InRound(s)' PROVE RoundOK(s)'
      BY <1>3, <2>1, <2>3, <2>5 DEF InRound, RoundOK
    <2> QED BY <1>3, <2>1, <2>4, <2>5 DEF StoreInv
  <1>7. ASSUME NEW s \in Syncer, StartRound(s) PROVE StoreInv'
    <2>1. PICK r \in SyncerType :
                /\ SyncerSet(s, r) /\ r.pc = "fetch" /\ r.from = link /\ r.target = head
                /\ r.todo = Delta(link) /\ r.page = {} /\ r.more = "none"
      BY <1>7, StartSets
    <2>2. \A o \in Syncer : o # s => syncer[o].pc = "idle"
      BY <1>7 DEF StartRound
    <2>3. \A o \in Syncer : o # s => syncer'[o].pc = "idle"
      BY <2>1, <2>2 DEF SyncerSet
    <2>4. /\ UNCHANGED <<inbox, changed, rows, link, revived, skipped>> /\ missed \subseteq missed'
          /\ link = NULL => \A m \in Msg : inbox[m] = 0 /\ Live(m) => m \in missed'
      BY <1>7 DEF StartRound, graphVars
    <2>5. StoreFollowsInbox'
      BY <1>2, <1>3, <2>4 DEF StoreFollowsInbox, Live
    <2>6. syncer'[s] = r
      BY <2>1 DEF SyncerSet
    <2>7. ASSUME NEW m \in Msg \ skipped, m \notin r.todo PROVE Agrees(m)'
      <3>1. CASE link = NULL
        BY <2>1, <2>4, <2>7, <3>1 DEF Agrees, Delta, Live
      <3>2. CASE link # NULL
        <4>1. changed[m] <= link
          BY <1>1, <2>1, <2>7, <3>2 DEF Delta
        <4> QED BY <1>2, <1>3, <2>4, <3>2, <4>1 DEF StoreFollowsInbox, Agrees, Live
      <3> QED BY <3>1, <3>2
    <2>8. RoundOK(s)'
      BY <1>1, <2>1, <2>4, <2>6, <2>7 DEF RoundOK
    <2>9. \A o \in Syncer : InRound(o)' => o = s
      BY <2>3 DEF InRound
    <2> QED BY <2>3, <2>5, <2>8, <2>9 DEF StoreInv
  \* From here on one process moves, which was not idle.
  <1>8. ASSUME NEW s \in Syncer, NEW r, syncer[s].pc # "idle", SyncerSet(s, r), r.pc \in {"idle", "notify"},
               UNCHANGED <<inbox, changed, rows, missed, revived, skipped, mixed>>,
               link' \in {link, NULL}
        PROVE  StoreInv'
    <2>1. StoreFollowsInbox'
      BY <1>2, <1>3, <1>8 DEF StoreFollowsInbox, Live
    <2> QED BY <1>2, <1>8, <2>1, AloneStep
  <1>9. ASSUME NEW s \in Syncer, NEW r, syncer[s].pc # "idle", SyncerSet(s, r),
               UNCHANGED <<inbox, changed, rows, link, missed, revived, mixed>>,
               skipped \subseteq skipped',
               r.pc \in {"fetch", "apply", "persist"} =>
                  /\ InRound(s) /\ r.target = syncer[s].target
                  /\ \A e \in r.page : changed[e[1]] <= r.target => e[2] = inbox[e[1]]
                  /\ \A m \in Msg \ skipped' : 
                        /\ changed[m] <= r.target /\ m \notin r.todo /\ \A e \in r.page : e[1] # m
                        => Agrees(m)
                  /\ r.pc # "apply" => r.page = {}
                  /\ r.pc = "persist" \/ (r.pc = "apply" /\ r.more = "delta") => r.todo = {}
        PROVE  StoreInv'
    <2>1. StoreFollowsInbox'
      BY <1>2, <1>3, <1>9, StoreStays
    <2>2. syncer'[s] = r
      BY <1>9 DEF SyncerSet
    <2>3. \A m \in Msg : Agrees(m) => Agrees(m)'
      BY <1>9 DEF Agrees, Live
    <2>4. ASSUME r.pc \in {"fetch", "apply", "persist"} PROVE RoundOK(s)'
      <3>1. RoundOK(s)
        BY <1>3, <1>9, <2>4
      <3> QED BY <1>9, <2>2, <2>3, <2>4, <3>1 DEF RoundOK
    <2> QED BY <1>2, <1>9, <2>1, <2>4, AloneStep
  <1>10. ASSUME NEW s \in Syncer, FetchPage(s) PROVE StoreInv'
    <2>1. PICK ms \in SUBSET syncer[s].todo : \E r \in SyncerType :
                /\ SyncerSet(s, r) /\ r.pc = "apply" /\ r.target = syncer[s].target
                /\ r.todo = syncer[s].todo \ ms
                /\ r.page = {<<m, inbox[m]>> : m \in ms}
                /\ r.more = "delta" => ms = syncer[s].todo
      BY <1>10, FetchSets
    <2>2. PICK r \in SyncerType :
                /\ SyncerSet(s, r) /\ r.pc = "apply" /\ r.target = syncer[s].target
                /\ r.todo = syncer[s].todo \ ms
                /\ r.page = {<<m, inbox[m]>> : m \in ms}
                /\ r.more = "delta" => ms = syncer[s].todo
      BY <2>1
    <2>3. syncer[s].pc = "fetch" /\ InRound(s) /\ RoundOK(s)
      BY <1>3, <1>10 DEF FetchPage, InRound
    <2>4. UNCHANGED <<inbox, changed, rows, link, missed, revived, skipped, mixed>>
      BY <1>10 DEF FetchPage, FetchKeeps, graphVars
    <2>5. \A e \in r.page : e[2] = inbox[e[1]]
      BY <2>2
    <2>6. ASSUME NEW m \in Msg \ skipped, changed[m] <= r.target, m \notin r.todo,
                 \A e \in r.page : e[1] # m
          PROVE  Agrees(m)
      <3>1. m \notin ms
        <4>1. m \in ms => <<m, inbox[m]>> \in r.page
          BY <2>2
        <4> QED BY <2>6, <4>1
      <3>2. m \notin syncer[s].todo /\ changed[m] <= syncer[s].target
        BY <2>2, <2>6, <3>1
      <3>3. syncer[s].page = {}
        BY <2>3 DEF RoundOK
      <3> QED BY <2>3, <2>6, <3>2, <3>3 DEF RoundOK
    <2>7. r.more = "delta" => r.todo = {}
      BY <2>2
    <2> QED BY <1>9, <2>2, <2>3, <2>4, <2>5, <2>6, <2>7
  <1>11. ASSUME NEW s \in Syncer, Throttled(s) PROVE StoreInv'
    <2>1. PICK r \in SyncerType :
                /\ SyncerSet(s, r)
                /\ \/ r.pc = "idle"
                   \/ /\ r.pc = syncer[s].pc /\ r.target = syncer[s].target
                      /\ r.todo = syncer[s].todo /\ r.page = syncer[s].page
                      /\ r.more = syncer[s].more
      BY <1>11, ThrottledSets
    <2>2. syncer[s].pc = "fetch" /\ InRound(s) /\ RoundOK(s)
      BY <1>3, <1>11 DEF Throttled, InRound
    <2>3. UNCHANGED <<inbox, changed, rows, link, missed, revived, skipped, mixed>>
      BY <1>11 DEF Throttled, FetchKeeps, graphVars
    <2>4. CASE r.pc = "idle"
      BY <1>8, <2>1, <2>2, <2>3, <2>4
    <2>5. CASE /\ r.pc = syncer[s].pc /\ r.target = syncer[s].target
               /\ r.todo = syncer[s].todo /\ r.page = syncer[s].page
               /\ r.more = syncer[s].more
      <3>1. /\ r.page = {} /\ r.pc = "fetch"
            /\ \A m \in Msg \ skipped : changed[m] <= r.target /\ m \notin r.todo => Agrees(m)
        BY <2>2, <2>5 DEF RoundOK
      <3> QED BY <1>9, <2>1, <2>2, <2>3, <2>5, <3>1
    <2> QED BY <2>1, <2>4, <2>5
  <1>12. ASSUME NEW s \in Syncer, PageDone(s) PROVE StoreInv'
    <2>1. UNCHANGED <<inbox, changed, rows, link, missed, revived, skipped, mixed>>
      BY <1>12 DEF PageDone, FetchKeeps, graphVars
    <2>2. syncer[s].pc = "apply" /\ syncer[s].page = {} /\ InRound(s) /\ RoundOK(s)
      BY <1>3, <1>12 DEF PageDone, InRound
    <2>3. CASE Stop(s)
      BY <1>8, <2>1, <2>2, <2>3, StopSets
    <2>4. ASSUME NEW pc \in {"fetch", "persist"}, Goto(s, pc), pc = "persist" => syncer[s].more = "delta"
          PROVE  StoreInv'
      <3>1. PICK r \in SyncerType :
                /\ SyncerSet(s, r) /\ r.pc = pc
                /\ r.target = syncer[s].target /\ r.todo = syncer[s].todo
                /\ r.page = syncer[s].page /\ r.more = syncer[s].more
        BY <2>4, GotoSets DEF SyncPc
      <3>2. /\ r.page = {}
            /\ \A m \in Msg \ skipped : changed[m] <= r.target /\ m \notin r.todo => Agrees(m)
            /\ r.pc = "persist" => r.todo = {}
        BY <2>2, <2>4, <3>1 DEF RoundOK
      <3> QED BY <1>9, <2>1, <2>2, <2>4, <3>1, <3>2
    <2> QED BY <1>12, <2>3, <2>4 DEF PageDone
  <1>13. ASSUME NEW s \in Syncer, SkipMessage(s) PROVE StoreInv'
    <2>1. PICK e \in syncer[s].page : /\ syncer' = [syncer EXCEPT ![s].page = @ \ {e}]
                                      /\ skipped' = skipped \cup {e[1]}
      BY <1>13 DEF SkipMessage
    <2>2. PICK r \in SyncerType :
                /\ SyncerSet(s, r) /\ r.pc = syncer[s].pc /\ r.target = syncer[s].target
                /\ r.todo = syncer[s].todo /\ r.page = syncer[s].page \ {e}
                /\ r.more = syncer[s].more
      BY <2>1, PageShrinks
    <2>3. syncer[s].pc = "apply" /\ InRound(s) /\ RoundOK(s)
      BY <1>3, <1>13 DEF SkipMessage, InRound
    <2>4. UNCHANGED <<inbox, changed, rows, link, missed, revived, mixed>>
      BY <1>13 DEF SkipMessage, graphVars
    <2>5. \A d \in r.page : changed[d[1]] <= r.target => d[2] = inbox[d[1]]
      BY <2>2, <2>3 DEF RoundOK
    <2>6. ASSUME NEW m \in Msg \ skipped', changed[m] <= r.target, m \notin r.todo,
                 \A d \in r.page : d[1] # m
          PROVE  Agrees(m)
      <3>1. m \notin skipped /\ \A d \in syncer[s].page : d[1] # m
        BY <2>1, <2>2, <2>6
      <3> QED BY <2>2, <2>3, <2>6, <3>1 DEF RoundOK
    <2>7. r.more = "delta" => r.todo = {}
      BY <2>2, <2>3 DEF RoundOK
    <2> QED BY <1>9, <2>1, <2>2, <2>3, <2>4, <2>5, <2>6, <2>7
  <1>14. ASSUME NEW s \in Syncer, ApplyMessage(s) PROVE StoreInv'
    <2>1. PICK e \in syncer[s].page :
                /\ rows' = [rows EXCEPT ![e[1]] = Upserted(@, e[2])]
                /\ syncer' = [syncer EXCEPT ![s].page = @ \ {e}]
                /\ missed' = missed \ {e[1]} /\ skipped' = skipped \ {e[1]}
                /\ revived' = IF e[2] = 0 THEN revived \ {e[1]} ELSE revived
      BY <1>14 DEF ApplyMessage
    <2>2. PICK r \in SyncerType :
                /\ SyncerSet(s, r) /\ r.pc = syncer[s].pc /\ r.target = syncer[s].target
                /\ r.todo = syncer[s].todo /\ r.page = syncer[s].page \ {e}
                /\ r.more = syncer[s].more
      BY <2>1, PageShrinks
    <2>3. syncer[s].pc = "apply" /\ RoundOK(s)
      BY <1>3, <1>14 DEF ApplyMessage, InRound
    <2>4. UNCHANGED <<inbox, changed, link, mixed>>
      BY <1>14 DEF ApplyMessage, graphVars
    <2>5. PICK m \in Msg : m = e[1]
      BY <1>1 DEF SyncerType
    <2>6. /\ rows'[m] = Upserted(rows[m], e[2])
          /\ \A n \in Msg : n # m => rows'[n] = rows[n]
      BY <2>1, <2>5 DEF SyncTyped
    <2>7. \A n \in Msg : n # m /\ Agrees(n) => Agrees(n)'
      BY <2>1, <2>4, <2>5, <2>6 DEF Agrees, Live
    \* The row of the message agrees, if the page has its last version.
    <2>8. changed[m] <= syncer[s].target => Agrees(m)'
      <3> SUFFICES ASSUME changed[m] <= syncer[s].target PROVE Agrees(m)'
        OBVIOUS
      <3>1. e[2] = inbox[m]
        BY <2>3, <2>5 DEF RoundOK
      <3>2. rows[m] \in RowType
        BY <1>1
      <3>3. CASE inbox[m] = 0
        <4>1. \A row \in RowType : /\ Upserted(row, 0).marker = row.marker
                                   /\ Upserted(row, 0).deleted <=> row.marker # 0
          BY DEF Upserted, RowType
        <4>2. rows'[m].marker = rows[m].marker /\ (rows'[m].deleted <=> rows[m].marker # 0)
          BY <2>6, <3>1, <3>2, <3>3, <4>1
        <4>3. ~Live(m)'
          BY <4>2 DEF Live
        <4> QED BY <2>4, <3>3, <4>3 DEF Agrees
      <3>4. CASE inbox[m] # 0
        <4>1. rows'[m] = [rows[m] EXCEPT !.marker = inbox[m]]
          BY <2>6, <3>1, <3>4 DEF Upserted
        <4>2. rows'[m].marker = inbox[m]
          BY <3>2, <4>1 DEF RowType
        <4> QED BY <2>4, <3>4, <4>2 DEF Agrees
      <3> QED BY <3>3, <3>4
    <2>9. link # NULL => link <= syncer[s].target
      BY <2>3 DEF RoundOK
    <2>10. StoreFollowsInbox'
      <3> SUFFICES ASSUME link # NULL, NEW n \in Msg \ skipped', changed[n] <= link
                   PROVE  Agrees(n)'
        BY <2>4 DEF StoreFollowsInbox, Agrees
      <3>1. CASE n = m
        BY <1>1, <2>8, <2>9, <3>1
      <3>2. CASE n # m
        <4>1. n \in Msg \ skipped
          BY <2>1, <2>5, <3>2
        <4>2. Agrees(n)
          BY <1>2, <1>3, <4>1 DEF StoreFollowsInbox, Agrees
        <4> QED BY <2>7, <3>2, <4>1, <4>2
      <3> QED BY <3>1, <3>2
    <2>11. syncer'[s] = r
      BY <2>2 DEF SyncerSet
    <2>12. ASSUME NEW n \in Msg \ skipped', changed[n] <= r.target, n \notin r.todo,
                  \A d \in r.page : d[1] # n
           PROVE  Agrees(n)'
      <3>1. CASE n = m
        BY <2>2, <2>8, <2>12, <3>1
      <3>2. CASE n # m
        <4>1. n \in Msg \ skipped /\ \A d \in syncer[s].page : d[1] # n
          BY <2>1, <2>2, <2>5, <2>12, <3>2
        <4>2. Agrees(n)
          BY <2>2, <2>3, <2>12, <4>1 DEF RoundOK
        <4> QED BY <2>7, <3>2, <4>1, <4>2
      <3> QED BY <3>1, <3>2
    <2>13. \A d \in r.page : changed[d[1]] <= r.target => d[2] = inbox[d[1]]
      BY <2>2, <2>3 DEF RoundOK
    <2>14. r.pc = "apply" /\ (r.more = "delta" => r.todo = {})
      BY <2>2, <2>3 DEF RoundOK
    <2>15. link' # NULL => link' <= r.target
      BY <2>2, <2>4, <2>9
    <2>16. RoundOK(s)'
      BY <2>4, <2>11, <2>12, <2>13, <2>14, <2>15 DEF RoundOK
    <2> QED BY <1>2, <2>2, <2>3, <2>4, <2>10, <2>16, AloneStep
  <1>15. ASSUME NEW s \in Syncer, Persist(s) PROVE StoreInv'
    <2>1. SyncerSet(s, IdleSyncer) /\ IdleSyncer.pc = "idle"
      BY <1>15, StopSets DEF Persist
    <2>2. syncer[s].pc = "persist" /\ RoundOK(s)
      BY <1>3, <1>15 DEF Persist, InRound
    <2>3. /\ UNCHANGED <<inbox, changed, rows, missed, revived, skipped, mixed>>
          /\ link' = syncer[s].target
      BY <1>15 DEF Persist, graphVars
    <2>4. \A m \in Msg \ skipped : changed[m] <= syncer[s].target => Agrees(m)
      BY <2>2 DEF RoundOK
    <2>5. StoreFollowsInbox'
      BY <2>3, <2>4 DEF StoreFollowsInbox, Agrees, Live
    <2> QED BY <1>2, <2>1, <2>2, <2>3, <2>5, AloneStep
  <1>16. ASSUME NEW s \in Syncer, TokenDead(s) PROVE StoreInv'
    <2>1. PICK r \in SyncerType : SyncerSet(s, r) /\ r.pc = "notify"
      BY <1>16, GotoSets DEF TokenDead, SyncPc
    <2>2. /\ UNCHANGED <<inbox, changed, rows, missed, revived, skipped, mixed>>
          /\ link' = NULL /\ syncer[s].pc # "idle"
      BY <1>16 DEF TokenDead, graphVars
    <2> QED BY <1>8, <2>1, <2>2
  <1>17. ASSUME NEW s \in Syncer,
                NotifyReset(s) \/ FetchFails(s) \/ NotifyRaises(s) \/ SyncDies(s)
         PROVE  StoreInv'
    <2>1. /\ Stop(s) /\ UNCHANGED <<inbox, changed, rows, link, missed, revived, skipped, mixed>>
          /\ syncer[s].pc # "idle"
      BY <1>17 DEF NotifyReset, FetchFails, NotifyRaises, SyncDies, FetchKeeps, graphVars
    <2> QED BY <1>8, <2>1, StopSets
  <1> QED BY <1>4, <1>5, <1>6, <1>7, <1>10, <1>11, <1>12, <1>13, <1>14, <1>15, <1>16, <1>17
          DEF SyncNext, RoundStep, SyncFault

\* At the start there is neither mail nor a link.
LEMMA StoreInit ==
    ASSUME SyncInit
    PROVE  SyncTyped /\ StoreInv
  <1>1. SyncTyped
    <2>1. IdleSyncer \in SyncerType /\ IdleSyncer.target = 0
      BY DEF IdleSyncer, SyncerType, SyncPc
    <2>2. NoRow \in RowType
      BY DEF NoRow, RowType
    <2>3. syncer \in [Syncer -> SyncerType] /\ \A s \in Syncer : syncer[s].target = 0
      BY <2>1 DEF SyncInit
    <2>4. rows \in [Msg -> RowType] /\ inbox \in [Msg -> Nat] /\ changed \in [Msg -> Nat]
      BY <2>2 DEF SyncInit
    <2>5. head = 0 /\ link = NULL /\ mixed = FALSE
      BY DEF SyncInit
    <2>6. \A s \in Syncer : syncer[s].target <= head
      BY <2>3, <2>5
    <2>7. link \in Nat \cup {NULL} /\ (link # NULL => link <= head) /\ head \in Nat
      BY <2>5
    <2>8. mixed \in BOOLEAN
      BY <2>5
    <2> QED BY <2>3, <2>4, <2>6, <2>7, <2>8 DEF SyncTyped
  <1>2. \A s \in Syncer : syncer[s].pc = "idle"
    BY DEF SyncInit, IdleSyncer
  <1> QED BY <1>1, <1>2 DEF StoreInv, InRound, StoreFollowsInbox, SyncInit

\* What the stored link says has been seen is in the table: through pages,
\* crashes, refusals, dead links and resyncs, no round that runs alone loses
\* a change of the inbox.
THEOREM SyncLosesNothing == SyncSpec => []StoreFollowsInbox
  <1> DEFINE Inv == SyncTyped /\ StoreInv
  <1>1. SyncInit => Inv
    BY StoreInit
  <1>2. Inv /\ [SyncNext]_syncVars => Inv'
    <2>1. UNCHANGED syncVars => Untouched
      BY DEF syncVars, graphVars, Untouched
    <2> QED BY <2>1, SyncTypedStep, StoreStep
  <1>3. Inv => StoreFollowsInbox
    BY DEF StoreInv, StoreFollowsInbox
  <1> QED BY <1>1, <1>2, <1>3, PTL DEF SyncSpec

\* A step of the pipeline or the operator leaves the sync alone, but for the
\* count of faults.
LEMMA PipelineIsApart ==
    ASSUME [IngestNext]_ingestVars
    PROVE  SyncNext \/ Untouched
  <1>1. SyncKeeps => Untouched
    BY DEF SyncKeeps, graphVars, Untouched
  <1>2. \A new : Command(new) => SyncKeeps
    BY DEF Command
  <1>3. ASSUME NEW a, ActorStep(a) PROVE SyncKeeps
    BY <1>3 DEF ActorStep, NextMessage, CheckLabel, Rate, Override, CheckKey, Ask, Store, Record,
                Clear, Unkey, RateFails, LocalStep, RowStep
  <1>4. CASE SelectBatch \/ NewPrompts \/ \E a \in Actor : AskFails(a) \/ ActorDies(a)
    BY <1>1, <1>4 DEF SelectBatch, NewPrompts, AskFails, ActorDies, LocalStep
  <1>5. CASE \/ \E m \in Msg : ProcessOne(m)
             \/ \E t \in Task \cup {"sensitivity_class"}, v \in 1..MaxVersion : Rederive(t, v)
    BY <1>1, <1>2, <1>5 DEF ProcessOne, Rederive
  <1>6. CASE UNCHANGED ingestVars
    BY <1>6 DEF ingestVars, syncVars, graphVars, Untouched
  <1> QED BY <1>1, <1>3, <1>4, <1>5, <1>6 DEF IngestNext, WorkerStep

\* The same for the mail store as a whole: the pipeline and the operator do
\* not come between the sync and its table.
THEOREM StoreLosesNothing == IngestSpec => []StoreFollowsInbox
  <1> DEFINE Inv == SyncTyped /\ StoreInv
  <1>1. SyncInit => Inv
    BY StoreInit
  <1>2. Inv /\ [IngestNext]_ingestVars => Inv'
    BY PipelineIsApart, SyncTypedStep, StoreStep
  <1>3. Inv => StoreFollowsInbox
    BY DEF StoreInv, StoreFollowsInbox
  <1> QED BY <1>1, <1>2, <1>3, PTL DEF IngestSpec
-----------------------------------------------------------------------------
(* The pipeline and the operator. *)

Label == {"normal", "sensitive", "confidential"}
Value == [body : Nat, version : Nat, made : Nat]
Key == [body : Nat, version : Nat]

\* Where an actor is in its job, and those places at which it has a message.
AtMessage == {"label", "rate", "override", "key", "ask", "store", "record", "clear", "unkey"}

ActorType == [pc : {"idle", "next"} \cup AtMessage,
              job : Task \cup {"sensitivity_class", "pipeline", NULL},
              queue : Seq(Msg), msg : Msg \cup {0}, body : Nat, text : Nat,
              asked : Nat, version : Nat, step : Nat, label : Label \cup {NULL}, human : BOOLEAN]

\* An actor that has no message may have one to come.
Free(r) == r.pc \in {"idle", "next"} /\ r.msg = 0 /\ (r.pc = "next" => r.queue # <<>>)
Busy(r) == r.pc \in AtMessage /\ r.msg \in Msg

PipeTyped ==
    /\ sens \in [Msg -> [class : Label \cup {NULL}, version : Nat]]
    /\ derived \in [Msg -> [Task -> Value]] /\ keys \in [Msg -> [Task -> Key]]
    /\ human \in [Msg -> BOOLEAN] /\ judged \in [Msg -> SUBSET Nat]
    /\ exposed \subseteq [msg : Msg, body : Nat]
    /\ policy \in Nat /\ booted \in Nat
    /\ actor \in [Actor -> ActorType]
    /\ \A a \in Actor : Free(actor[a]) \/ Busy(actor[a])

\* A step of one actor changes its own locals only.
ActorSet(a, r) ==
    /\ r \in ActorType /\ actor'[a] = r
    /\ actor' \in [Actor -> ActorType]
    /\ \A o \in Actor : o # a => actor'[o] = actor[o]

\* Replacing the locals of one actor.
LEMMA SetActor ==
    ASSUME PipeTyped, NEW a \in Actor, NEW r \in ActorType, Set(a, r)
    PROVE  ActorSet(a, r)
  BY DEF ActorSet, PipeTyped, Set

\* An actor that is done with a message, or gives it up, lets it go.
LEMMA FinishedIs ==
    ASSUME PipeTyped, NEW a \in Actor
    PROVE  Finished(a) \in ActorType /\ Free(Finished(a))
  <1>1. actor[a] \in ActorType
    BY DEF PipeTyped
  <1>2. Idle \in ActorType /\ Free(Idle)
    BY DEF Idle, ActorType, Free
  <1>3. actor[a].queue # <<>> => /\ [actor[a] EXCEPT !.pc = "next", !.msg = 0] \in ActorType
                                 /\ Free([actor[a] EXCEPT !.pc = "next", !.msg = 0])
    BY <1>1 DEF ActorType, Free
  <1> QED BY <1>2, <1>3 DEF Finished

\* An actor that goes on with its message keeps what it is at.
LEMMA GoesOn ==
    ASSUME PipeTyped, NEW a \in Actor, NEW pc \in AtMessage, actor[a].pc \in AtMessage
    PROVE  \E r \in ActorType :
              /\ r = [actor[a] EXCEPT !.pc = pc]
              /\ Busy(r) /\ r.pc = pc /\ r.msg = actor[a].msg /\ r.body = actor[a].body
              /\ r.text = actor[a].text /\ r.job = actor[a].job /\ r.step = actor[a].step
              /\ r.version = actor[a].version /\ r.asked = actor[a].asked
  <1>1. actor[a] \in ActorType /\ actor[a].msg \in Msg
    BY DEF PipeTyped, Free, Busy, AtMessage
  <1> DEFINE r == [actor[a] EXCEPT !.pc = pc]
  <1>2. r \in ActorType
    BY <1>1 DEF ActorType
  <1>3. /\ r.pc = pc /\ r.msg = actor[a].msg /\ r.body = actor[a].body
        /\ r.text = actor[a].text /\ r.job = actor[a].job /\ r.step = actor[a].step
        /\ r.version = actor[a].version /\ r.asked = actor[a].asked
    BY <1>1 DEF ActorType
  <1>4. r = [actor[a] EXCEPT !.pc = pc]
    OBVIOUS
  <1> HIDE DEF r
  <1> QED BY <1>1, <1>2, <1>3, <1>4 DEF Busy

\* The pipeline goes on to its next step, if there is one.
LEMMA PassedIs ==
    ASSUME PipeTyped, NEW a \in Actor, actor[a].pc \in AtMessage
    PROVE  /\ Passed(a) \in ActorType
           /\ \/ Free(Passed(a))
              \/ Busy(Passed(a)) /\ Passed(a).pc = "key" /\ Passed(a).msg = actor[a].msg
  <1>1. actor[a] \in ActorType /\ actor[a].msg \in Msg
    BY DEF PipeTyped, Free, Busy, AtMessage
  <1>2. CASE Passed(a) = Finished(a)
    BY <1>2, FinishedIs
  <1>3. CASE Passed(a) = [actor[a] EXCEPT !.pc = "key", !.step = @ + 1]
    <2>1. actor[a].step + 1 \in Nat
      BY <1>1 DEF ActorType
    <2>2. PICK n \in Nat : n = actor[a].step + 1
      BY <2>1
    <2>3. Passed(a) = [actor[a] EXCEPT !.pc = "key", !.step = n]
      BY <1>3, <2>2
    <2> QED BY <1>1, <2>3 DEF ActorType, Busy, AtMessage
  <1> QED BY <1>2, <1>3 DEF Passed

\* The actor goes on with the message, the job and the step it was at.
Same(a, r) == r.msg = actor[a].msg /\ r.body = actor[a].body /\ r.job = actor[a].job
              /\ r.step = actor[a].step /\ r.version = actor[a].version
              /\ r.asked = actor[a].asked

MoveOf(a, r) ==
    \/ NextMessage(a) /\ r.msg = actor[a].queue[1] /\ r.pc \in {"label", "clear", "ask"} /\ Busy(r)
    \/ /\ CheckLabel(a) \/ CheckKey(a) \/ RateFails(a) \/ AskFails(a) \/ ActorDies(a) \/ Record(a)
       /\ Free(r) \/ (Busy(r) /\ r.pc \in {"key", "rate", "ask"} /\ r.msg = actor[a].msg)
    \/ Rate(a) /\ Rederiving(a) /\ Free(r)
    \/ Rate(a) /\ ~Rederiving(a) /\ Busy(r) /\ r.pc = "override" /\ Same(a, r)
    \/ Override(a) /\ Busy(r) /\ r.pc = "key" /\ Same(a, r)
    \/ Ask(a) /\ (Free(r) \/ (Busy(r) /\ r.pc = "key" /\ r.msg = actor[a].msg))
    \/ /\ Ask(a) /\ Busy(r) /\ r.pc = "store" /\ Same(a, r)
       /\ Current(a) # "embedding" => r.text = r.body
    \/ Store(a) /\ Current(a) = "embedding" /\ Free(r)
    \/ Store(a) /\ Busy(r) /\ r.pc = "record" /\ Same(a, r) /\ r.text = actor[a].text
    \/ Clear(a) /\ actor[a].job = "embedding" /\ Busy(r) /\ r.pc = "ask" /\ Same(a, r)
    \/ Clear(a) /\ Busy(r) /\ r.pc = "unkey" /\ Same(a, r)
    \/ Unkey(a) /\ Busy(r) /\ r.pc = "rate" /\ Same(a, r)

\* What each step of an actor makes of its locals.
LEMMA ActorMoves ==
    ASSUME SyncTyped, PipeTyped, NEW a \in Actor, ActorStep(a) \/ AskFails(a) \/ ActorDies(a)
    PROVE  \E r \in ActorType : ActorSet(a, r) /\ MoveOf(a, r)
  <1>1. /\ actor[a] \in ActorType /\ (Free(actor[a]) \/ Busy(actor[a]))
        /\ actor[a].pc \in AtMessage => Busy(actor[a]) /\ actor[a].msg \in Msg
    BY DEF PipeTyped, Free, Busy, AtMessage
  <1>2. Idle \in ActorType /\ Free(Idle)
    BY DEF Idle, ActorType, Free
  <1>3. Finished(a) \in ActorType /\ Free(Finished(a))
    BY FinishedIs
  <1>4. ASSUME NEW pc \in AtMessage, actor[a].pc \in AtMessage, Set(a, [actor[a] EXCEPT !.pc = pc])
        PROVE  \E r \in ActorType : /\ ActorSet(a, r) /\ Busy(r) /\ r.pc = pc /\ Same(a, r)
                                    /\ r.text = actor[a].text
    BY <1>4, GoesOn, SetActor DEF Same
  <1>5. CASE NextMessage(a)
    <2> DEFINE new == actor[a].queue[1]
               pc == FirstPc(actor[a].job)
               rest == Tail(actor[a].queue)
               body == rows[new].marker
               r == [actor[a] EXCEPT !.pc = pc, !.queue = rest, !.msg = new, !.body = body,
                        !.text = body, !.step = 1, !.label = NULL, !.human = FALSE]
    <2>1. Free(actor[a]) /\ actor[a].queue # <<>> /\ actor[a].queue \in Seq(Msg)
      BY <1>1, <1>5 DEF NextMessage, At, Free, Busy, AtMessage, ActorType
    <2>2. new \in Msg /\ rest \in Seq(Msg)
      BY <2>1
    <2>3. pc \in {"label", "clear", "ask"}
      BY DEF FirstPc
    <2>4. body \in Nat
      BY <2>2 DEF SyncTyped, RowType
    <2>5. Set(a, r)
      BY <1>5 DEF NextMessage
    <2> HIDE DEF new, pc, rest, body
    <2>6. r \in ActorType /\ r.msg = new /\ r.pc = pc
      BY <1>1, <2>2, <2>3, <2>4 DEF ActorType, AtMessage
    <2> HIDE DEF r
    <2>7. ActorSet(a, r)
      BY <2>5, <2>6, SetActor
    <2>8. Busy(r)
      BY <2>2, <2>3, <2>6 DEF Busy, AtMessage
    <2> QED BY <1>5, <2>3, <2>6, <2>7, <2>8 DEF MoveOf, new
  <1>6. CASE CheckLabel(a)
    <2>1. PICK pc \in {"key", "rate"} : Set(a, [actor[a] EXCEPT !.pc = pc])
      BY <1>6 DEF CheckLabel
    <2>2. actor[a].pc \in AtMessage /\ pc \in AtMessage
      BY <1>6 DEF CheckLabel, At, AtMessage
    <2> QED BY <1>4, <1>6, <2>1, <2>2 DEF MoveOf, Same
  <1>7. CASE Rate(a)
    <2>1. actor[a].pc \in AtMessage
      BY <1>7 DEF Rate, At, AtMessage
    <2>2. CASE Set(a, Finished(a)) /\ Rederiving(a)
      BY <1>3, <1>7, <2>2, SetActor DEF MoveOf
    <2>3. CASE ~Rederiving(a)
      <3>1. PICK class \in Label : Set(a, [actor[a] EXCEPT !.pc = "override", !.label = class])
        BY <1>7, <2>3 DEF Rate, Floored, Label
      <3> DEFINE r == [actor[a] EXCEPT !.pc = "override", !.label = class]
      <3>2. r \in ActorType /\ r.pc = "override" /\ Same(a, r)
        BY <1>1 DEF ActorType, AtMessage, Same
      <3>3. Set(a, r)
        BY <3>1
      <3> HIDE DEF r
      <3>4. Busy(r)
        BY <1>1, <2>1, <3>2 DEF Busy, Same, AtMessage
      <3> QED BY <1>7, <2>3, <3>2, <3>3, <3>4, SetActor DEF MoveOf
    <2> QED BY <1>7, <2>2, <2>3 DEF Rate
  <1>8. CASE Override(a)
    <2>1. actor[a].pc \in AtMessage /\ "key" \in AtMessage
      BY <1>8 DEF Override, At, AtMessage
    <2> QED BY <1>4, <1>8, <2>1 DEF Override, MoveOf
  <1>9. CASE CheckKey(a)
    <2>1. actor[a].pc \in AtMessage
      BY <1>9 DEF CheckKey, At, AtMessage
    <2>2. Passed(a) \in ActorType /\ (Free(Passed(a)) \/ (Busy(Passed(a)) /\ Passed(a).pc = "key" /\ Passed(a).msg = actor[a].msg))
      BY <2>1, PassedIs
    <2>3. CASE Set(a, Passed(a))
      BY <1>9, <2>2, <2>3, SetActor DEF MoveOf
    <2>4. CASE Set(a, [actor[a] EXCEPT !.pc = "ask"])
      BY <1>4, <1>9, <2>1, <2>4 DEF MoveOf, Same, AtMessage
    <2>5. CASE Passed(a).pc # "idle" /\ Set(a, [Passed(a) EXCEPT !.human = human[actor[a].msg]])
      <3> DEFINE p == Passed(a)
                 h == human[actor[a].msg]
                 r == [p EXCEPT !.human = h]
      <3>1. h \in BOOLEAN
        BY <1>1, <2>1 DEF PipeTyped
      <3>2. p \in ActorType
        BY <2>2
      <3> HIDE DEF p, h
      <3>3. r \in ActorType /\ r.pc = p.pc /\ r.msg = p.msg /\ r.queue = p.queue
        BY <3>1, <3>2 DEF ActorType
      <3>4. Set(a, r)
        BY <2>5 DEF p, h
      <3> HIDE DEF r
      <3>5. Free(r) \/ (Busy(r) /\ r.pc = "key" /\ r.msg = actor[a].msg)
        BY <2>2, <3>3 DEF Free, Busy, p
      <3> QED BY <1>9, <3>3, <3>4, <3>5, SetActor DEF MoveOf
    <2> QED BY <1>9, <2>3, <2>4, <2>5 DEF CheckKey
  <1>10. CASE Ask(a)
    <2>1. actor[a].pc \in AtMessage
      BY <1>10 DEF Ask, At, AtMessage
    <2>2. Passed(a) \in ActorType /\ (Free(Passed(a)) \/ (Busy(Passed(a)) /\ Passed(a).pc = "key" /\ Passed(a).msg = actor[a].msg))
      BY <2>1, PassedIs
    <2>3. CASE Set(a, Passed(a))
      BY <1>10, <2>2, <2>3, SetActor DEF MoveOf
    <2>4. CASE Set(a, Finished(a))
      BY <1>3, <1>10, <2>4, SetActor DEF MoveOf
    <2>5. CASE Set(a, [actor[a] EXCEPT !.pc = "store",
                        !.text = IF Current(a) = "embedding" THEN rows[actor[a].msg].marker
                                 ELSE actor[a].body])
      <3> DEFINE text == IF Current(a) = "embedding" THEN rows[actor[a].msg].marker
                         ELSE actor[a].body
                 r == [actor[a] EXCEPT !.pc = "store", !.text = text]
      <3>1. text \in Nat /\ (Current(a) # "embedding" => text = actor[a].body)
        BY <1>1, <2>1 DEF SyncTyped, RowType, ActorType
      <3>2. Set(a, r)
        BY <2>5
      <3> HIDE DEF text
      <3>3. r \in ActorType /\ r.pc = "store" /\ r.text = text /\ Same(a, r)
        BY <1>1, <3>1 DEF ActorType, AtMessage, Same
      <3> HIDE DEF r
      <3>4. Busy(r) /\ (Current(a) # "embedding" => r.text = r.body)
        BY <1>1, <2>1, <3>1, <3>3 DEF Busy, Same, AtMessage
      <3> QED BY <1>10, <3>2, <3>3, <3>4, SetActor DEF MoveOf
    <2> QED BY <1>10, <2>3, <2>4, <2>5 DEF Ask
  <1>11. CASE Store(a)
    <2>1. actor[a].pc \in AtMessage
      BY <1>11 DEF Store, At, AtMessage
    <2>2. CASE Current(a) = "embedding" /\ Set(a, Finished(a))
      BY <1>3, <1>11, <2>2, SetActor DEF MoveOf
    <2>3. ASSUME NEW h \in BOOLEAN, Set(a, [actor[a] EXCEPT !.pc = "record", !.human = @ \/ h])
          PROVE  \E r \in ActorType : ActorSet(a, r) /\ MoveOf(a, r)
      <3> DEFINE b == actor[a].human \/ h
                 r == [actor[a] EXCEPT !.pc = "record", !.human = b]
      <3>1. b \in BOOLEAN
        OBVIOUS
      <3>2. Set(a, r)
        BY <2>3
      <3> HIDE DEF b
      <3>3. r \in ActorType /\ r.pc = "record" /\ r.text = actor[a].text /\ Same(a, r)
        BY <1>1, <3>1 DEF ActorType, AtMessage, Same
      <3> HIDE DEF r
      <3>4. Busy(r)
        BY <1>1, <2>1, <3>3 DEF Busy, Same, AtMessage
      <3> QED BY <1>11, <3>2, <3>3, <3>4, SetActor DEF MoveOf
    <2> QED BY <1>11, <2>2, <2>3 DEF Store
  <1>12. CASE Record(a)
    <2>1. actor[a].pc \in AtMessage
      BY <1>12 DEF Record, At, AtMessage
    <2>2. Passed(a) \in ActorType /\ (Free(Passed(a)) \/ (Busy(Passed(a)) /\ Passed(a).pc = "key" /\ Passed(a).msg = actor[a].msg))
      BY <2>1, PassedIs
    <2> QED BY <1>12, <2>2, SetActor DEF Record, MoveOf
  <1>13. CASE Clear(a)
    <2>1. actor[a].pc \in AtMessage
      BY <1>13 DEF Clear, At, AtMessage
    <2>2. CASE actor[a].job = "embedding" /\ Set(a, [actor[a] EXCEPT !.pc = "ask"])
      BY <1>4, <1>13, <2>1, <2>2 DEF MoveOf, AtMessage
    <2>3. CASE Set(a, [actor[a] EXCEPT !.pc = "unkey"])
      BY <1>4, <1>13, <2>1, <2>3 DEF MoveOf, AtMessage
    <2> QED BY <1>13, <2>2, <2>3 DEF Clear
  <1>14. CASE Unkey(a)
    <2>1. actor[a].pc \in AtMessage /\ "rate" \in AtMessage
      BY <1>14 DEF Unkey, At, AtMessage
    <2> QED BY <1>4, <1>14, <2>1 DEF Unkey, MoveOf
  <1>15. CASE RateFails(a) \/ AskFails(a)
    <2>1. Set(a, Finished(a))
      BY <1>15 DEF RateFails, AskFails
    <2> QED BY <1>3, <1>15, <2>1, SetActor DEF MoveOf
  <1>16. CASE ActorDies(a)
    <2>1. Set(a, Idle)
      BY <1>16 DEF ActorDies
    <2> QED BY <1>2, <1>16, <2>1, SetActor DEF MoveOf
  <1> DEFINE Goal == \E r \in ActorType : ActorSet(a, r) /\ MoveOf(a, r)
  <1> HIDE DEF Goal
  <1> QED BY <1>5, <1>6, <1>7, <1>8, <1>9, <1>10, <1>11, <1>12, <1>13, <1>14, <1>15, <1>16
          DEF ActorStep, Goal

\* The batch and the plan name messages that are there, and at least one.
LEMMA QueuesNameMessages ==
    ASSUME NEW ms \in SUBSET Msg, ms # {}
    PROVE  /\ \A q \in NewestFirst(ms) : q \in Seq(Msg) /\ q # <<>>
           /\ \A q \in Batch(ms) : q \in Seq(Msg) /\ q # <<>>
  <1>1. IsFiniteSet(ms)
    BY SyncAssumption, FS_Subset
  <1>2. Cardinality(ms) \in Nat /\ Cardinality(ms) # 0
    BY <1>1, FS_CardinalityType, FS_EmptySet
  <1>3. ASSUME NEW q \in NewestFirst(ms)
        PROVE  q \in Seq(Msg) /\ q # <<>> /\ Len(q) = Cardinality(ms)
    <2>1. q \in [1 .. Cardinality(ms) -> Msg]
      BY <1>3 DEF NewestFirst
    <2>2. q \in Seq(Msg)
      BY <1>2, <2>1, SeqDef
    <2>3. Len(q) = Cardinality(ms)
      BY <1>2, <2>1, <2>2, LenProperties
    <2> QED BY <1>2, <2>2, <2>3
  <1>4. ASSUME NEW b \in Batch(ms) PROVE b \in Seq(Msg) /\ b # <<>>
    <2>1. PICK q \in NewestFirst(ms) :
              b = SubSeq(q, 1, IF Len(q) < BatchSize THEN Len(q) ELSE BatchSize)
      BY <1>4 DEF Batch
    <2> DEFINE n == IF Len(q) < BatchSize THEN Len(q) ELSE BatchSize
    <2>2. q \in Seq(Msg) /\ Len(q) \in Nat /\ Len(q) # 0
      BY <1>2, <1>3
    <2>3. n \in 1 .. Len(q) /\ b = SubSeq(q, 1, n)
      BY <2>1, <2>2, IngestAssumption
    <2> HIDE DEF n
    <2>4. b \in Seq(Msg) /\ Len(b) = n
      <3>1. 1 \in 1 .. (Len(q) + 1)
        BY <2>2
      <3>2. SubSeq(q, 1, n) \in Seq(Msg) /\ Len(SubSeq(q, 1, n)) = IF 1 <= n THEN n - 1 + 1 ELSE 0
        BY <2>2, <2>3, <3>1, SubSeqProperties
      <3>3. n \in Nat /\ 1 <= n
        BY <2>2, <2>3
      <3> QED BY <2>3, <3>2, <3>3
    <2>5. b # <<>>
      BY <2>2, <2>3, <2>4
    <2> QED BY <2>4, <2>5
  <1> QED BY <1>3, <1>4

\* Only rederive asks with a prompt that is not the one it stamps.
Marked(r) == r.asked # r.version => r.job \notin {NULL, "pipeline"}

\* An idle actor gets a job, and nothing else changes.
Starts(a) ==
    /\ actor[a].pc = "idle"
    /\ \E r \in ActorType : ActorSet(a, r) /\ Free(r) /\ Marked(r)
    /\ UNCHANGED <<sens, derived, human, keys, policy, booted, histories>>

\* A job that starts leaves everything but its actor's locals alone.
LEMMA JobsStart ==
    ASSUME SyncTyped, PipeTyped,
           \/ SelectBatch \/ \E m \in Msg : ProcessOne(m)
           \/ \E t \in Task \cup {"sensitivity_class"}, v \in 1..MaxVersion : Rederive(t, v)
    PROVE  \E a \in Actor : Starts(a)
  <1>1. ASSUME NEW a \in Actor, NEW j \in Task \cup {"sensitivity_class", "pipeline"},
               NEW q \in Seq(Msg), q # <<>>, NEW v \in Nat, NEW w \in Nat,
               v # w => j \notin {NULL, "pipeline"},
               Set(a, [Idle EXCEPT !.pc = "next", !.job = j, !.queue = q, !.asked = w,
                                   !.version = v])
        PROVE  \E r \in ActorType : ActorSet(a, r) /\ Free(r) /\ Marked(r)
    <2> DEFINE r == [Idle EXCEPT !.pc = "next", !.job = j, !.queue = q, !.asked = w,
                                 !.version = v]
    <2>1. r \in ActorType /\ Free(r) /\ Marked(r)
      BY <1>1 DEF Idle, ActorType, Free, Marked
    <2>2. Set(a, r)
      BY <1>1
    <2> HIDE DEF r
    <2> QED BY <2>1, <2>2, SetActor
  <1>2. policy \in Nat /\ booted \in Nat /\ Worker \in Actor /\ Operator \in Actor
    BY DEF PipeTyped, Actor
  <1>3. CASE SelectBatch
    <2>1. Unprocessed \in SUBSET Msg /\ Unprocessed # {}
      BY <1>3 DEF SelectBatch, Unprocessed
    <2>2. PICK q \in Batch(Unprocessed) :
            Set(Worker, [Idle EXCEPT !.pc = "next", !.job = "pipeline", !.queue = q,
                                     !.asked = booted, !.version = booted])
      BY <1>3 DEF SelectBatch
    <2>3. q \in Seq(Msg) /\ q # <<>>
      BY <2>1, QueuesNameMessages
    <2>4. \E r \in ActorType : ActorSet(Worker, r) /\ Free(r) /\ Marked(r)
      BY <1>1, <1>2, <2>2, <2>3
    <2>5. Starts(Worker)
      BY <1>3, <2>4 DEF SelectBatch, Starts, At, LocalStep, histories
    <2> QED BY <1>2, <2>5
  <1>4. ASSUME NEW m \in Msg, ProcessOne(m) PROVE Starts(Operator)
    <2>1. <<m>> \in Seq(Msg) /\ <<m>> # <<>>
      OBVIOUS
    <2>a. Set(Operator, [Idle EXCEPT !.pc = "next", !.job = "pipeline", !.queue = <<m>>,
                                     !.asked = policy, !.version = policy])
      BY <1>4 DEF ProcessOne, Command, Idle
    <2>2. \E r \in ActorType : ActorSet(Operator, r) /\ Free(r) /\ Marked(r)
      BY <1>1, <1>2, <2>1, <2>a
    <2> QED BY <1>4, <2>2 DEF ProcessOne, Command, Starts, At
  <1>5. ASSUME NEW t \in Task \cup {"sensitivity_class"}, NEW vv \in 1..MaxVersion, Rederive(t, vv)
        PROVE  Starts(Operator)
    <2>1. Selected(t, vv) \in SUBSET Msg /\ Selected(t, vv) # {}
      BY <1>5 DEF Rederive, Selected
    <2>2. PICK q \in NewestFirst(Selected(t, vv)) :
            Command([Idle EXCEPT !.pc = "next", !.job = t, !.queue = q,
                !.version = IF t = "sensitivity_class" THEN policy ELSE vv])
      BY <1>5 DEF Rederive
    <2>3. q \in Seq(Msg) /\ q # <<>>
      BY <2>1, QueuesNameMessages
    <2>4. (IF t = "sensitivity_class" THEN policy ELSE vv) \in Nat
      BY <1>2, IngestAssumption
    <2>a. PICK v \in Nat : v = IF t = "sensitivity_class" THEN policy ELSE vv
      BY <2>4
    <2>b. Set(Operator, [Idle EXCEPT !.pc = "next", !.job = t, !.queue = q, !.asked = policy,
                                     !.version = v])
      BY <2>2, <2>a DEF Command, Idle
    <2>c. v # policy => t \notin {NULL, "pipeline"}
      BY <2>a, IngestAssumption
    <2>5. \E r \in ActorType : ActorSet(Operator, r) /\ Free(r) /\ Marked(r)
      BY <1>1, <1>2, <2>3, <2>b, <2>c
    <2> QED BY <2>2, <2>5 DEF Command, Starts, At
  <1> QED BY <1>2, <1>3, <1>4, <1>5

\* The pipeline's tables keep their types.
LEMMA PipeTypedStep ==
    ASSUME SyncTyped, PipeTyped, [IngestNext]_ingestVars
    PROVE  PipeTyped'
  <1>1. /\ \A a \in Actor : actor[a] \in ActorType /\ (Free(actor[a]) \/ Busy(actor[a]))
        /\ \A a \in Actor : actor[a].pc \in AtMessage => actor[a].msg \in Msg
    BY DEF PipeTyped, Free, Busy, AtMessage
  <1>2. ASSUME NEW a \in Actor, NEW r, ActorSet(a, r), Free(r) \/ Busy(r)
        PROVE  /\ actor' \in [Actor -> ActorType]
               /\ \A o \in Actor : Free(actor'[o]) \/ Busy(actor'[o])
    BY <1>1, <1>2 DEF ActorSet
  <1>3. CASE UNCHANGED pipeVars
    BY <1>3 DEF pipeVars, histories, PipeTyped
  <1>4. CASE NewPrompts
    <2>1. policy' \in Nat
      BY <1>4 DEF NewPrompts, PipeTyped
    <2> QED BY <1>4, <2>1 DEF NewPrompts, histories, PipeTyped
  <1>5. ASSUME NEW a \in Actor, Starts(a) PROVE PipeTyped'
    BY <1>2, <1>5 DEF Starts, histories, PipeTyped
  <1>6. ASSUME NEW a \in Actor, ActorStep(a) \/ AskFails(a) \/ ActorDies(a) PROVE PipeTyped'
    <2>1. PICK r \in ActorType : ActorSet(a, r) /\ MoveOf(a, r)
      BY <1>6, ActorMoves
    <2>2. Free(r) \/ Busy(r)
      BY <2>1 DEF MoveOf
    <2>3. /\ actor' \in [Actor -> ActorType]
          /\ \A o \in Actor : Free(actor'[o]) \/ Busy(actor'[o])
      BY <1>2, <2>1, <2>2
    <2>4. policy' \in Nat /\ booted' \in Nat
      BY <1>6 DEF ActorStep, NextMessage, CheckLabel, Rate, Override, CheckKey, Ask, Store, Record,
             Clear, Unkey, RateFails, LocalStep, RowStep, AskFails, ActorDies, PipeTyped
    <2>j. judged' \in [Msg -> SUBSET Nat]
      <3>1. judged \in [Msg -> SUBSET Nat]
        BY DEF PipeTyped
      <3>2. CASE Override(a)
        <4>1. actor[a].msg \in Msg
          BY <1>1, <3>2 DEF Override, At, AtMessage
        <4>2. rows[actor[a].msg].marker \in Nat
          BY <4>1 DEF SyncTyped, RowType
        <4>3. judged' = [judged EXCEPT ![actor[a].msg] = @ \cup {rows[actor[a].msg].marker}]
          BY <3>2 DEF Override
        <4> QED BY <3>1, <4>2, <4>3
      <3>3. CASE UNCHANGED judged
        BY <3>1, <3>3
      <3> QED BY <1>6, <3>2, <3>3
              DEF ActorStep, NextMessage, CheckLabel, Rate, CheckKey, Ask, Store, Record, Clear,
                  Unkey, RateFails, LocalStep, histories, AskFails, ActorDies
    <2>e. exposed' \subseteq [msg : Msg, body : Nat]
      <3>1. exposed \subseteq [msg : Msg, body : Nat]
        BY DEF PipeTyped
      <3>2. CASE Ask(a)
        <4>1. actor[a].msg \in Msg /\ actor[a].body \in Nat
          BY <1>1, <3>2 DEF Ask, At, AtMessage, ActorType
        <4> QED BY <3>1, <3>2, <4>1 DEF Ask
      <3>3. CASE UNCHANGED exposed
        BY <3>1, <3>3
      <3> QED BY <1>6, <3>2, <3>3
              DEF ActorStep, NextMessage, CheckLabel, Rate, Override, CheckKey, Store, Record,
                  Clear, Unkey, RateFails, LocalStep, histories, AskFails, ActorDies
    <2>5. ASSUME UNCHANGED <<sens, derived, keys, human>> PROVE PipeTyped'
      BY <2>3, <2>4, <2>j, <2>e, <2>5 DEF PipeTyped
    <2> DEFINE m == actor[a].msg
               t == Current(a)
    <2>6. /\ sens \in [Msg -> [class : Label \cup {NULL}, version : Nat]]
          /\ derived \in [Msg -> [Task -> Value]] /\ keys \in [Msg -> [Task -> Key]]
          /\ human \in [Msg -> BOOLEAN] /\ actor[a].asked \in Nat
          /\ actor[a].version \in Nat /\ actor[a].text \in Nat /\ actor[a].body \in Nat
      BY <1>1 DEF PipeTyped, ActorType
    <2>7. /\ \A v \in Value : [derived EXCEPT ![m][t] = v] \in [Msg -> [Task -> Value]]
          /\ \A k \in Key : [keys EXCEPT ![m][t] = k] \in [Msg -> [Task -> Key]]
      <3> HIDE DEF m, t
      <3> QED BY <2>6
    <2>8. CASE Rate(a)
      <3>1. PICK class \in Label :
              sens' = [sens EXCEPT ![m] = [class |-> class, version |-> actor[a].version]]
        BY <2>8 DEF Rate, Floored, Label
      <3>2. sens' \in [Msg -> [class : Label \cup {NULL}, version : Nat]]
        BY <2>6, <3>1
      <3>3. UNCHANGED <<derived, keys, human>>
        BY <2>8 DEF Rate
      <3> QED BY <2>3, <2>4, <2>j, <2>e, <3>2, <3>3 DEF PipeTyped
    <2>9. CASE Override(a)
      <3>1. actor[a].msg \in Msg
        BY <1>1, <2>9 DEF Override, At, AtMessage
      <3>2. Forced(m, rows[m].marker, actor[a].label) \in Label \cup {NULL}
        BY <1>1, <3>1 DEF Forced, Forces, PipeTyped, ActorType, Label
      <3>3. PICK class \in Label \cup {NULL} : class = Forced(m, rows[m].marker, actor[a].label)
        BY <3>2
      <3>4. sens' = [sens EXCEPT ![m].class = class] \/ sens' = sens
        BY <2>9, <3>3 DEF Override
      <3>5. sens' \in [Msg -> [class : Label \cup {NULL}, version : Nat]]
        BY <2>6, <3>1, <3>4
      <3>6. UNCHANGED <<derived, keys, human>>
        BY <2>9 DEF Override
      <3> QED BY <2>3, <2>4, <2>j, <2>e, <3>5, <3>6 DEF PipeTyped
    <2>10. CASE Store(a)
      <3> DEFINE v == IF t = "embedding" THEN [body |-> actor[a].text, version |-> 1, made |-> 1]
                      ELSE [body |-> actor[a].text, version |-> actor[a].version,
                            made |-> actor[a].asked]
      <3>1. v \in Value
        BY <2>6 DEF Value
      <3>2. derived' = [derived EXCEPT ![m][t] = v] /\ UNCHANGED <<sens, keys>>
        BY <2>10 DEF Store
      <3>3. human' \in [Msg -> BOOLEAN]
        BY <2>6, <2>10 DEF Store
      <3> HIDE DEF v
      <3> QED BY <2>3, <2>4, <2>j, <2>e, <2>7, <3>1, <3>2, <3>3 DEF PipeTyped
    <2>11. CASE Record(a)
      <3>1. KeyOf(a) \in Key
        BY <2>6 DEF KeyOf, Key
      <3>2. keys' = [keys EXCEPT ![m][t] = KeyOf(a)] /\ UNCHANGED <<sens, derived, human>>
        BY <2>11 DEF Record
      <3> QED BY <2>3, <2>4, <2>j, <2>e, <2>7, <3>1, <3>2 DEF PipeTyped
    <2>12. Nothing \in [Task -> Value] /\ NoKeys \in [Task -> Key]
      BY DEF Nothing, NoValue, Value, NoKeys, NoKey, Key
    <2>13. CASE Clear(a)
      <3>1. CASE derived' = [derived EXCEPT ![m]["embedding"].body = 0] /\ UNCHANGED human
        <4>1. derived' \in [Msg -> [Task -> Value]]
          <5> HIDE DEF m
          <5>1. ASSUME NEW n \in Msg, NEW u \in Task
                PROVE  [derived[n][u] EXCEPT !.body = 0] \in Value
            <6>1. PICK v \in Value : v = derived[n][u]
              BY <2>6
            <6>2. [v EXCEPT !.body = 0] \in Value
              BY DEF Value
            <6> QED BY <6>1, <6>2
          <5>2. ASSUME NEW n \in Msg
                PROVE  [derived[n] EXCEPT !["embedding"].body = 0] \in [Task -> Value]
            BY <2>6, <5>1
          <5> QED BY <2>6, <3>1, <5>2
        <4>2. UNCHANGED <<sens, keys>>
          BY <2>13 DEF Clear
        <4> QED BY <2>3, <2>4, <2>j, <2>e, <3>1, <4>1, <4>2 DEF PipeTyped
      <3>2. CASE /\ derived' = [derived EXCEPT ![m] = Nothing]
                 /\ human' = [human EXCEPT ![m] = FALSE]
        <4>1. derived' \in [Msg -> [Task -> Value]] /\ human' \in [Msg -> BOOLEAN]
          BY <2>6, <2>12, <3>2
        <4>2. UNCHANGED <<sens, keys>>
          BY <2>13 DEF Clear
        <4> QED BY <2>3, <2>4, <2>j, <2>e, <4>1, <4>2 DEF PipeTyped
      <3> QED BY <2>13, <3>1, <3>2 DEF Clear
    <2>14. CASE Unkey(a)
      <3>1. keys' = [keys EXCEPT ![m] = NoKeys] /\ UNCHANGED <<sens, derived, human>>
        BY <2>14 DEF Unkey
      <3>2. keys' \in [Msg -> [Task -> Key]]
        BY <2>6, <2>12, <3>1
      <3> QED BY <2>3, <2>4, <2>j, <2>e, <3>1, <3>2 DEF PipeTyped
    <2>15. CASE NextMessage(a) \/ CheckLabel(a) \/ CheckKey(a) \/ Ask(a) \/ RateFails(a)
                \/ AskFails(a) \/ ActorDies(a)
      BY <2>5, <2>15 DEF NextMessage, CheckLabel, CheckKey, Ask, RateFails, AskFails, ActorDies,
                         LocalStep
    <2> QED BY <1>6, <2>8, <2>9, <2>10, <2>11, <2>13, <2>14, <2>15 DEF ActorStep
  <1>7. Worker \in Actor /\ Operator \in Actor
    BY DEF Actor
  <1>8. CASE UNCHANGED ingestVars
    BY <1>3, <1>8 DEF ingestVars
  <1> QED BY <1>3, <1>4, <1>5, <1>6, <1>7, <1>8, JobsStart DEF IngestNext, WorkerStep

\* Of two actors at work on one message the history tells.
Alone ==
    \A m \in Msg \ overlapped : \A a, o \in Actor :
        actor[a].msg = m /\ actor[o].msg = m => a = o

\* An actor that stamps another version than it asks with is at what the
\* history tells of.
AskedInv ==
    \A a \in Actor : actor[a].asked # actor[a].version =>
        /\ Rederiving(a)
        /\ actor[a].pc \in AtMessage => <<actor[a].msg, actor[a].job>> \in foreign

\* The value of a task and its key are of one body and one version, and the
\* value was made with that version's prompt.
Fits(m, t, v, k) ==
    v.body = k.body /\ v.version = k.version /\ (<<m, t>> \notin foreign => v.made = k.version)

\* A value and its key differ while an actor is between the two writes, and
\* at no other time; what the actor will write as key is what it wrote as value.
Parted(m, t) ==
    \E a \in Actor :
        /\ actor[a].msg = m
        /\ actor[a].pc = "unkey" \/ (actor[a].pc = "record" /\ Current(a) = t)

KeyReady(a) ==
    Current(a) # "embedding" =>
        /\ actor[a].pc \in {"store", "record"} => actor[a].text = actor[a].body
        /\ actor[a].pc = "record" /\ actor[a].msg \notin overlapped \cup torn /\ Current(a) \in Task
                => Fits(actor[a].msg, Current(a), derived[actor[a].msg][Current(a)], KeyOf(a))

Backed(m, t) ==
    keys[m][t] = NoKey \/ Fits(m, t, derived[m][t], keys[m][t]) \/ Parted(m, t)

KeyInv ==
    /\ Alone /\ AskedInv
    /\ \A a \in Actor : KeyReady(a)
    /\ \A m \in Msg \ (overlapped \cup torn) : \A t \in Task \ {"embedding"} : Backed(m, t)

\* The label holds what the patterns force on a body, or an actor is about to
\* see to it when that is the body it reads.
Holds(m, body) ==
    /\ Forces(m, body) = "confidential" => sens[m].class = "confidential"
    /\ Forces(m, body) = "sensitive" => sens[m].class # "normal"

Fires(a, m, body) ==
    Forces(m, body) = "confidential" \/ Forced(m, body, actor[a].label) # actor[a].label

Pending(m, body) ==
    \E a \in Actor : actor[a].msg = m /\ actor[a].pc = "override" /\ Fires(a, m, body)

\* So it is for every body, as long as the patterns have met no other one.
PatternInv ==
    \A m \in Msg \ (torn \cup relabelled) : Classified(m) =>
        \A body \in Nat : JudgedBy(m, body) => Holds(m, body) \/ Pending(m, body)

\* The histories only grow.
LEMMA HistoriesGrow ==
    ASSUME PipeTyped, [IngestNext]_ingestVars
    PROVE  /\ overlapped \subseteq overlapped' /\ torn \subseteq torn'
           /\ relabelled \subseteq relabelled' /\ foreign \subseteq foreign'
           /\ \A m \in Msg : judged[m] \subseteq judged'[m]
  <1> DEFINE Grow == /\ overlapped \subseteq overlapped' /\ torn \subseteq torn'
                     /\ relabelled \subseteq relabelled' /\ foreign \subseteq foreign'
                     /\ \A m \in Msg : judged[m] \subseteq judged'[m]
  <1>1. ASSUME NEW a, ActorStep(a) \/ AskFails(a) \/ ActorDies(a) PROVE Grow
    <2>1. CASE Override(a)
      <3>1. judged' = [judged EXCEPT ![actor[a].msg] = @ \cup {rows[actor[a].msg].marker}]
        BY <2>1 DEF Override
      <3>2. \A m \in Msg : judged[m] \subseteq judged'[m]
        BY <3>1 DEF PipeTyped
      <3> QED BY <2>1, <3>2 DEF Override, RowStep
    <2>2. CASE ~Override(a)
      BY <1>1, <2>2
         DEF ActorStep, NextMessage, CheckLabel, Rate, CheckKey, Ask, Store, Record,
             Clear, Unkey, RateFails, AskFails, ActorDies, LocalStep, RowStep, histories
    <2> QED BY <2>1, <2>2
  <1>2. UNCHANGED histories => Grow
    BY DEF histories
  <1>3. \A new : Command(new) => UNCHANGED histories
    BY DEF Command
  <1> HIDE DEF Grow
  <1>4. Grow
    BY <1>1, <1>2, <1>3 DEF IngestNext, WorkerStep, SelectBatch, LocalStep, ProcessOne, Rederive,
               NewPrompts, pipeVars, ingestVars
  <1> QED BY <1>4 DEF Grow

\* Two actors get to one message only through the second one's choice of it.
LEMMA AloneStays ==
    ASSUME SyncTyped, PipeTyped, Alone, [IngestNext]_ingestVars
    PROVE  Alone'
  <1>1. overlapped \subseteq overlapped' /\ 0 \notin Msg
    BY HistoriesGrow, SyncAssumption
  <1>2. ASSUME NEW a \in Actor, NEW r, ActorSet(a, r), r.msg \in {0, actor[a].msg} PROVE Alone'
    BY <1>1, <1>2 DEF Alone, ActorSet
  <1>3. ASSUME NEW a \in Actor, Starts(a) PROVE Alone'
    <2>1. PICK r : ActorSet(a, r) /\ Free(r)
      BY <1>3 DEF Starts
    <2>2. r.msg = 0
      BY <2>1 DEF Free
    <2> QED BY <1>2, <2>1, <2>2
  <1>4. ASSUME NEW a \in Actor, ActorStep(a) \/ AskFails(a) \/ ActorDies(a) PROVE Alone'
    <2>1. PICK r : ActorSet(a, r) /\ MoveOf(a, r)
      BY <1>4, ActorMoves
    <2>2. CASE r.msg \in {0, actor[a].msg}
      BY <1>2, <2>1, <2>2
    <2>3. CASE NextMessage(a) /\ r.msg = actor[a].queue[1]
      <3>1. overlapped' = IF \E o \in Actor \ {a} : actor[o].msg = r.msg
                          THEN overlapped \cup {r.msg} ELSE overlapped
        BY <2>3 DEF NextMessage
      <3> QED BY <1>1, <2>1, <3>1 DEF Alone, ActorSet
    <2> QED BY <2>1, <2>2, <2>3 DEF MoveOf, Free, Same
  <1>5. CASE UNCHANGED actor
    BY <1>1, <1>5 DEF Alone
  <1>6. Worker \in Actor /\ Operator \in Actor
    BY DEF Actor
  <1> QED BY <1>3, <1>4, <1>5, <1>6, JobsStart
          DEF IngestNext, WorkerStep, NewPrompts, pipeVars, ingestVars

\* Where an actor is tells what it can do; only what it dies or fails of is a fault.
LEMMA StepsFrom ==
    ASSUME SyncTyped, NEW a
    PROVE  /\ NextMessage(a) => actor[a].pc = "next" /\ NoFault
           /\ CheckLabel(a) => actor[a].pc = "label" /\ NoFault
           /\ Rate(a) => actor[a].pc = "rate" /\ NoFault
           /\ Override(a) => actor[a].pc = "override" /\ NoFault
           /\ CheckKey(a) => actor[a].pc = "key" /\ NoFault
           /\ Ask(a) => actor[a].pc = "ask" /\ NoFault
           /\ Store(a) => actor[a].pc = "store" /\ NoFault
           /\ Record(a) => actor[a].pc = "record" /\ NoFault
           /\ Clear(a) => actor[a].pc = "clear" /\ NoFault
           /\ Unkey(a) => actor[a].pc = "unkey" /\ NoFault
           /\ RateFails(a) => actor[a].pc = "rate"
           /\ AskFails(a) => actor[a].pc = "ask" /\ ~NoFault
           /\ ActorDies(a) => ~NoFault
  <1>1. Fault => ~NoFault
    BY DEF Fault, NoFault, SyncTyped
  <1> QED BY <1>1 DEF NextMessage, CheckLabel, Rate, Override, CheckKey, Ask, Store, Record, Clear,
               Unkey, RateFails, AskFails, ActorDies, At

\* No step but the choice of a message changes the job and the versions.
LEMMA AskedStays ==
    ASSUME PipeTyped, NEW a \in Actor, NEW r, ActorSet(a, r),
           ActorStep(a) \/ AskFails(a) \/ ActorDies(a)
    PROVE  \/ r.asked = r.version
           \/ r.asked = actor[a].asked /\ r.version = actor[a].version /\ r.job = actor[a].job
  <1> DEFINE Kept(x) == \/ x.asked = x.version
                        \/ /\ x.asked = actor[a].asked /\ x.version = actor[a].version
                           /\ x.job = actor[a].job
  <1>1. actor[a] \in ActorType
    BY DEF PipeTyped
  <1>2. \A x : Set(a, x) => r = x
    BY DEF ActorSet, Set, PipeTyped
  <1>3. Kept(Idle)
    BY DEF Idle
  <1>4. Kept(Finished(a))
    BY <1>1, <1>3 DEF Finished, ActorType
  <1>5. Kept(Passed(a))
    BY <1>1, <1>4 DEF Passed, ActorType
  <1>6. Kept([Passed(a) EXCEPT !.human = human[actor[a].msg]])
    <2>1. CASE Passed(a) = Idle
      BY <2>1 DEF Idle
    <2>2. CASE Passed(a) = [actor[a] EXCEPT !.pc = "next", !.msg = 0]
      BY <1>1, <2>2 DEF ActorType
    <2>3. CASE Passed(a) = [actor[a] EXCEPT !.pc = "key", !.step = @ + 1]
      BY <1>1, <2>3 DEF ActorType
    <2> QED BY <2>1, <2>2, <2>3 DEF Passed, Finished
  <1>7. CASE NextMessage(a)
    BY <1>1, <1>2, <1>7 DEF NextMessage, ActorType
  <1>8. CASE CheckLabel(a) \/ Override(a) \/ Clear(a) \/ Unkey(a)
    BY <1>1, <1>2, <1>8 DEF CheckLabel, Override, Clear, Unkey, ActorType
  <1>9. CASE Rate(a)
    BY <1>1, <1>2, <1>4, <1>9 DEF Rate, ActorType
  <1>10. CASE CheckKey(a)
    <2>1. \/ Set(a, Passed(a)) \/ Set(a, [actor[a] EXCEPT !.pc = "ask"])
          \/ Set(a, [Passed(a) EXCEPT !.human = human[actor[a].msg]])
      BY <1>10 DEF CheckKey
    <2>2. Kept([actor[a] EXCEPT !.pc = "ask"])
      BY <1>1 DEF ActorType
    <2> HIDE DEF Kept
    <2>3. Kept(r)
      BY <1>2, <1>5, <1>6, <2>1, <2>2
    <2> QED BY <2>3 DEF Kept
  <1>11. CASE Ask(a)
    BY <1>1, <1>2, <1>4, <1>5, <1>11 DEF Ask, ActorType
  <1>12. CASE Store(a)
    BY <1>1, <1>2, <1>4, <1>12 DEF Store, ActorType
  <1>13. CASE Record(a)
    BY <1>2, <1>5, <1>13 DEF Record
  <1>14. CASE RateFails(a) \/ AskFails(a) \/ ActorDies(a)
    BY <1>2, <1>3, <1>4, <1>14 DEF RateFails, AskFails, ActorDies
  <1> QED BY <1>7, <1>8, <1>9, <1>10, <1>11, <1>12, <1>13, <1>14 DEF ActorStep

\* What rederive asks with a prompt that it does not stamp, it told of when it
\* came to the message.
LEMMA AskedStep ==
    ASSUME SyncTyped, PipeTyped, AskedInv, [IngestNext]_ingestVars
    PROVE  AskedInv'
  <1>1. foreign \subseteq foreign' /\ 0 \notin Msg
    BY HistoriesGrow, SyncAssumption
  <1>2. ASSUME NEW o \in Actor, actor'[o] = actor[o], actor'[o].asked # actor'[o].version
        PROVE  /\ Rederiving(o)'
               /\ actor'[o].pc \in AtMessage => <<actor'[o].msg, actor'[o].job>> \in foreign'
    BY <1>1, <1>2 DEF AskedInv, Rederiving
  <1>3. CASE UNCHANGED actor
    BY <1>2, <1>3 DEF AskedInv
  <1>4. ASSUME NEW a \in Actor, Starts(a) PROVE AskedInv'
    <2>1. PICK r \in ActorType : ActorSet(a, r) /\ Free(r) /\ Marked(r)
      BY <1>4 DEF Starts
    <2>2. ASSUME actor'[a].asked # actor'[a].version
          PROVE  Rederiving(a)' /\ actor'[a].pc \notin AtMessage
      BY <2>1, <2>2 DEF Marked, Free, ActorSet, Rederiving, AtMessage
    <2> QED BY <1>2, <2>1, <2>2 DEF AskedInv, ActorSet
  <1>5. ASSUME NEW a \in Actor, ActorStep(a) \/ AskFails(a) \/ ActorDies(a) PROVE AskedInv'
    <2>1. PICK r \in ActorType : ActorSet(a, r) /\ MoveOf(a, r)
      BY <1>5, ActorMoves
    <2>2. \/ r.asked = r.version
          \/ r.asked = actor[a].asked /\ r.version = actor[a].version /\ r.job = actor[a].job
      BY <1>5, <2>1, AskedStays
    <2>3. ASSUME r.asked # r.version
          PROVE  Rederiving(a)' /\ (r.pc \in AtMessage => <<r.msg, r.job>> \in foreign')
      <3>1. /\ actor[a].asked # actor[a].version /\ r.job = actor[a].job
            /\ Rederiving(a)
        BY <2>2, <2>3 DEF AskedInv
      <3>2. Rederiving(a)'
        BY <2>1, <3>1 DEF Rederiving, ActorSet
      <3>3. CASE NextMessage(a) /\ r.msg = actor[a].queue[1]
        BY <3>1, <3>2, <3>3 DEF NextMessage
      <3>4. ASSUME r.pc \in AtMessage, ~(NextMessage(a) /\ r.msg = actor[a].queue[1])
            PROVE  <<r.msg, r.job>> \in foreign'
        <4>1. r.msg = actor[a].msg /\ r.msg \in Msg
          BY <2>1, <3>4 DEF MoveOf, Free, Busy, Same, AtMessage
        <4>2. actor[a].pc \in AtMessage
          BY <1>1, <4>1 DEF PipeTyped, Free, Busy
        <4> QED BY <1>1, <3>1, <4>1, <4>2 DEF AskedInv
      <3> QED BY <3>2, <3>3, <3>4
    <2>4. actor'[a] = r /\ \A o \in Actor : o # a => actor'[o] = actor[o]
      BY <2>1 DEF ActorSet
    <2> QED BY <1>2, <2>3, <2>4 DEF AskedInv
  <1>6. Worker \in Actor /\ Operator \in Actor
    BY DEF Actor
  <1> QED BY <1>3, <1>4, <1>5, <1>6, JobsStart
          DEF IngestNext, WorkerStep, NewPrompts, pipeVars, ingestVars

\* Every step keeps values and keys together, but for the windows between the
\* two writes.
LEMMA KeyStep ==
    ASSUME SyncTyped, PipeTyped, KeyInv, [IngestNext]_ingestVars
    PROVE  KeyInv'
  <1>1. Alone' /\ AskedInv'
    BY AloneStays, AskedStep DEF KeyInv
  <1>2. /\ overlapped \subseteq overlapped' /\ torn \subseteq torn' /\ 0 \notin Msg
        /\ foreign \subseteq foreign'
        /\ \A a \in Actor : Free(actor[a]) \/ Busy(actor[a])
        /\ derived \in [Msg -> [Task -> Value]] /\ keys \in [Msg -> [Task -> Key]]
    BY HistoriesGrow, SyncAssumption DEF PipeTyped
  \* What an actor that does not move is owed.
  <1>3. ASSUME NEW o \in Actor, actor'[o] = actor[o],
               \/ UNCHANGED derived
               \/ \E n \in Msg : /\ \A x \in Msg \ {n} : derived'[x] = derived[x]
                                 /\ actor[o].msg = n => n \in overlapped
        PROVE  KeyReady(o)'
    <2>1. Current(o)' = Current(o) /\ KeyOf(o)' = KeyOf(o)
      BY <1>3 DEF Current, Rederiving, KeyOf
    <2>2. KeyReady(o)
      BY DEF KeyInv
    <2>3. actor[o].pc = "record" => actor[o].msg \in Msg
      BY <1>2 DEF Free, Busy
    <2>4. ASSUME actor[o].pc = "record", actor[o].msg \notin overlapped' \cup torn'
          PROVE  derived'[actor[o].msg] = derived[actor[o].msg]
      BY <1>2, <1>3, <2>3, <2>4
    <2> QED BY <1>2, <1>3, <2>1, <2>2, <2>4 DEF KeyReady, Fits
  \* A step that changes neither values nor keys.
  <1>4. ASSUME UNCHANGED <<derived, keys>>,
               \A a \in Actor : KeyReady(a)',
               \A m \in Msg \ (overlapped' \cup torn'), t \in Task : Parted(m, t) => Parted(m, t)'
        PROVE  KeyInv'
    BY <1>1, <1>2, <1>4 DEF KeyInv, Backed, Fits
  <1>5. ASSUME NEW a \in Actor, NEW r, ActorSet(a, r), UNCHANGED <<derived, keys>>,
               actor[a].pc \in {"record", "unkey"} => actor[a].msg \in torn',
               r.pc \notin {"store", "record"}
        PROVE  KeyInv'
    <2>1. \A o \in Actor : o # a => KeyReady(o)'
      BY <1>3, <1>5 DEF ActorSet
    <2>2. KeyReady(a)'
      BY <1>5 DEF ActorSet, KeyReady
    <2>3. ASSUME NEW m \in Msg \ (overlapped' \cup torn'), NEW t \in Task, Parted(m, t)
          PROVE  Parted(m, t)'
      <3>1. PICK o \in Actor : /\ actor[o].msg = m
                               /\ actor[o].pc = "unkey" \/ (actor[o].pc = "record" /\ Current(o) = t)
        BY <2>3 DEF Parted
      <3>2. o # a
        BY <1>5, <3>1
      <3>3. actor'[o] = actor[o] /\ Current(o)' = Current(o)
        BY <1>5, <3>2 DEF ActorSet, Current, Rederiving
      <3> QED BY <3>1, <3>3 DEF Parted
    <2>4. \A o \in Actor : KeyReady(o)'
      BY <2>1, <2>2
    <2> QED BY <1>4, <1>5, <2>3, <2>4
  <1>6. CASE UNCHANGED <<derived, keys, actor>>
    <2>1. \A a \in Actor : KeyReady(a)'
      BY <1>3, <1>6
    <2>2. \A m \in Msg, t \in Task : Parted(m, t) => Parted(m, t)'
      BY <1>6 DEF Parted, Current, Rederiving
    <2> QED BY <1>4, <1>6, <2>1, <2>2
  <1>7. ASSUME NEW a \in Actor, Starts(a) PROVE KeyInv'
    <2>1. PICK r : ActorSet(a, r) /\ Free(r)
      BY <1>7 DEF Starts
    <2>2. r.pc \notin {"store", "record"} /\ actor[a].pc \notin {"record", "unkey"}
      BY <1>7, <2>1 DEF Starts, Free
    <2> QED BY <1>5, <1>7, <2>1, <2>2 DEF Starts
  <1>8. ASSUME NEW a \in Actor, ActorStep(a) \/ AskFails(a) \/ ActorDies(a) PROVE KeyInv'
    <2>1. PICK r \in ActorType : ActorSet(a, r) /\ MoveOf(a, r)
      BY <1>8, ActorMoves
    <2>2. actor[a].pc \in AtMessage => actor[a].msg \in Msg
      BY <1>2 DEF Free, Busy, AtMessage
    <2>3. CASE \/ NextMessage(a) \/ CheckLabel(a) \/ CheckKey(a) \/ RateFails(a) \/ AskFails(a)
               \/ Rate(a) \/ Override(a)
      <3>1. UNCHANGED <<derived, keys>> /\ actor[a].pc \notin {"record", "unkey"}
        BY <2>3 DEF NextMessage, CheckLabel, CheckKey, RateFails, AskFails, Rate, Override, At,
                    LocalStep
      <3>2. r.pc \notin {"store", "record"}
        BY <2>1, <2>3, StepsFrom DEF MoveOf, Free
      <3> QED BY <1>5, <2>1, <3>1, <3>2
    <2>4. CASE ActorDies(a)
      <3>1. UNCHANGED <<derived, keys>> /\ (actor[a].pc \in {"record", "unkey"} => actor[a].msg \in torn')
            /\ Set(a, Idle)
        BY <2>4 DEF ActorDies
      <3>2. r = Idle
        BY <2>1, <3>1 DEF ActorSet, Set, PipeTyped
      <3>3. r.pc \notin {"store", "record"}
        BY <3>2 DEF Idle
      <3> QED BY <1>5, <2>1, <3>1, <3>3
    <2>5. CASE Ask(a)
      <3>1. UNCHANGED <<derived, keys>> /\ actor[a].pc = "ask"
        BY <2>5 DEF Ask, At
      <3>2. CASE r.pc \notin {"store", "record"}
        BY <1>5, <2>1, <3>1, <3>2
      <3>3. CASE r.pc = "store" /\ Same(a, r) /\ (Current(a) # "embedding" => r.text = r.body)
        <4>1. actor'[a] = r /\ Current(a)' = Current(a)
          BY <2>1, <3>3 DEF ActorSet, Current, Rederiving, Same
        <4>2. KeyReady(a)'
          BY <3>3, <4>1 DEF KeyReady
        <4>3. \A o \in Actor : KeyReady(o)'
          BY <1>3, <2>1, <3>1, <4>2 DEF ActorSet
        <4>4. ASSUME NEW m \in Msg, NEW t \in Task, Parted(m, t) PROVE Parted(m, t)'
          <5>1. PICK o \in Actor : /\ actor[o].msg = m
                                   /\ actor[o].pc = "unkey" \/ (actor[o].pc = "record" /\ Current(o) = t)
            BY <4>4 DEF Parted
          <5>2. o # a
            BY <3>1, <5>1
          <5>3. actor'[o] = actor[o] /\ Current(o)' = Current(o)
            BY <2>1, <5>2 DEF ActorSet, Current, Rederiving
          <5> QED BY <5>1, <5>3 DEF Parted
        <4> QED BY <1>4, <3>1, <4>3, <4>4
      <3> QED BY <2>1, <2>5, <3>2, <3>3, StepsFrom DEF MoveOf, Free
    \* The steps that write: of the message at hand, and nobody else is at it.
    <2>m. PICK m : m = actor[a].msg
      OBVIOUS
    <2>t. PICK t : t = Current(a)
      OBVIOUS
    <2>6. ASSUME NEW o \in Actor, o # a, actor[a].pc \in AtMessage,
                 \A x \in Msg \ {m} : derived'[x] = derived[x]
          PROVE  KeyReady(o)'
      <3>1. actor'[o] = actor[o]
        BY <2>1, <2>6 DEF ActorSet
      <3>2. m \in Msg
        BY <2>m, <2>2, <2>6
      <3>3. actor[o].msg = m => m \in overlapped
        BY <2>m, <2>6, <3>2 DEF KeyInv, Alone
      <3> QED BY <1>3, <2>6, <3>1, <3>2, <3>3
    <2>7. ASSUME actor[a].pc \in AtMessage,
                 \A x \in Msg \ {m} : derived'[x] = derived[x] /\ keys'[x] = keys[x],
                 KeyReady(a)',
                 m \notin overlapped' \cup torn' =>
                    \A u \in Task \ {"embedding"} : Backed(m, u)'
          PROVE  KeyInv'
      <3>1. \A o \in Actor : KeyReady(o)'
        BY <2>6, <2>7
      <3>2. ASSUME NEW x \in Msg \ (overlapped' \cup torn'), NEW u \in Task \ {"embedding"}
            PROVE  Backed(x, u)'
        <4>1. CASE x = m
          BY <2>7, <3>2, <4>1
        <4>2. CASE x # m
          <5>1. Backed(x, u)
            BY <1>2, <3>2 DEF KeyInv
          <5>2. Parted(x, u) => Parted(x, u)'
            <6>1. ASSUME NEW o \in Actor, actor[o].msg = x,
                         actor[o].pc = "unkey" \/ (actor[o].pc = "record" /\ Current(o) = u)
                  PROVE  Parted(x, u)'
              <7>1. actor'[o] = actor[o] /\ Current(o)' = Current(o)
                BY <2>m, <2>1, <4>2, <6>1 DEF ActorSet, Current, Rederiving
              <7> QED BY <6>1, <7>1 DEF Parted
            <6> QED BY <6>1 DEF Parted
          <5> QED BY <1>2, <2>7, <3>2, <4>2, <5>1, <5>2 DEF Backed, Fits
        <4> QED BY <4>1, <4>2
      <3> QED BY <1>1, <3>1, <3>2 DEF KeyInv
    <2>8. ASSUME actor[a].pc \in AtMessage, m \notin overlapped' \cup torn',
                 actor[a].pc \notin {"record", "unkey"}, NEW u \in Task \ {"embedding"}
          PROVE  keys[m][u] = NoKey \/ Fits(m, u, derived[m][u], keys[m][u])
      <3>1. m \in Msg \ (overlapped \cup torn)
        BY <2>m, <1>2, <2>2, <2>8
      <3>2. Backed(m, u)
        BY <3>1 DEF KeyInv
      <3>3. \A o \in Actor : actor[o].msg = m => o = a
        BY <2>m, <3>1 DEF KeyInv, Alone
      <3>4. ~Parted(m, u)
        BY <2>8, <3>3 DEF Parted
      <3> QED BY <3>2, <3>4 DEF Backed
    <2>9. CASE Store(a)
      <3> DEFINE v == IF t = "embedding" THEN [body |-> actor[a].text, version |-> 1, made |-> 1]
                      ELSE [body |-> actor[a].text, version |-> actor[a].version,
                            made |-> actor[a].asked]
      <3>1. /\ actor[a].pc = "store" /\ actor[a].pc \in AtMessage /\ m \in Msg
            /\ derived' = [derived EXCEPT ![m][t] = v] /\ UNCHANGED keys
        BY <2>m, <2>t, <2>2, <2>9 DEF Store, At, AtMessage
      <3>2. /\ \A x \in Msg \ {m} : derived'[x] = derived[x] /\ keys'[x] = keys[x]
            /\ \A u \in Task : derived'[m][u] = IF u = t THEN v ELSE derived[m][u]
        <4> HIDE DEF v
        <4> QED BY <1>2, <3>1
      <3>3. CASE Free(r) /\ t = "embedding"
        <4>1. KeyReady(a)'
          BY <2>1, <3>3 DEF ActorSet, KeyReady, Free
        <4>2. ASSUME m \notin overlapped' \cup torn', NEW u \in Task \ {"embedding"}
              PROVE  Backed(m, u)'
          <5>1. keys[m][u] = NoKey \/ Fits(m, u, derived[m][u], keys[m][u])
            BY <2>8, <3>1, <4>2
          <5>2. keys'[m][u] = keys[m][u] /\ derived'[m][u] = derived[m][u]
            BY <3>1, <3>2, <3>3
          <5> QED BY <1>2, <5>1, <5>2 DEF Backed, Fits
        <4> QED BY <2>7, <3>1, <3>2, <4>1, <4>2
      <3>4. CASE r.pc = "record" /\ Same(a, r) /\ r.text = actor[a].text
        <4>1. actor'[a] = r /\ Current(a)' = Current(a)
          BY <2>1, <3>4 DEF ActorSet, Current, Rederiving, Same
        <4>2. t # "embedding" => actor[a].text = actor[a].body
          BY <2>t, <3>1 DEF KeyInv, KeyReady
        <4>3. t # "embedding" => Fits(m, t, v, KeyOf(a))
          <5>1. ASSUME t # "embedding", actor[a].asked # actor[a].version
                PROVE  <<m, t>> \in foreign
            BY <2>m, <2>t, <3>1, <5>1 DEF KeyInv, AskedInv, Current
          <5> QED BY <4>2, <5>1 DEF KeyOf, Fits
        <4>4. KeyOf(a)' = KeyOf(a)
          BY <3>4, <4>1 DEF KeyOf, Same
        <4>5. KeyReady(a)'
          <5> HIDE DEF v
          <5> QED BY <1>2, <2>m, <2>t, <3>2, <3>4, <4>1, <4>2, <4>3, <4>4
                  DEF KeyReady, Same, Fits
        <4>6. ASSUME m \notin overlapped' \cup torn', NEW u \in Task \ {"embedding"}
              PROVE  Backed(m, u)'
          <5>1. CASE u = t
            <6>1. Parted(m, u)'
              BY <2>m, <2>t, <3>4, <4>1, <5>1 DEF Parted, Same
            <6> QED BY <6>1 DEF Backed
          <5>2. CASE u # t
            <6>1. keys[m][u] = NoKey \/ Fits(m, u, derived[m][u], keys[m][u])
              BY <2>8, <3>1, <4>6
            <6>2. keys'[m][u] = keys[m][u] /\ derived'[m][u] = derived[m][u]
              BY <3>1, <3>2, <5>2
            <6> QED BY <1>2, <6>1, <6>2 DEF Backed, Fits
          <5> QED BY <5>1, <5>2
        <4> QED BY <2>7, <3>1, <3>2, <4>5, <4>6
      <3> QED BY <2>t, <2>1, <2>9, <3>3, <3>4, StepsFrom DEF MoveOf
    <2>10. CASE Record(a)
      <3>1. /\ actor[a].pc = "record" /\ actor[a].pc \in AtMessage /\ m \in Msg
            /\ keys' = [keys EXCEPT ![m][t] = KeyOf(a)] /\ UNCHANGED derived
        BY <2>m, <2>t, <2>2, <2>10 DEF Record, At, AtMessage
      <3>2. /\ \A x \in Msg \ {m} : derived'[x] = derived[x] /\ keys'[x] = keys[x]
            /\ \A u \in Task : keys'[m][u] = IF u = t THEN KeyOf(a) ELSE keys[m][u]
        <4> QED BY <1>2, <3>1
      <3>3. r.pc \notin {"store", "record"}
        BY <2>1, <2>10, StepsFrom DEF MoveOf, Free
      <3>4. KeyReady(a)'
        BY <2>1, <3>3 DEF ActorSet, KeyReady
      <3>5. ASSUME m \notin overlapped' \cup torn', NEW u \in Task \ {"embedding"}
            PROVE  Backed(m, u)'
        <4>1. m \in Msg \ (overlapped \cup torn)
          BY <1>2, <3>1, <3>5
        <4>2. CASE u = t
          <5>1. Fits(m, u, derived[m][u], KeyOf(a))
            BY <2>m, <2>t, <3>1, <3>5, <4>1, <4>2 DEF KeyInv, KeyReady
          <5>2. keys'[m][u] = KeyOf(a) /\ derived'[m][u] = derived[m][u]
            BY <3>1, <3>2, <4>2
          <5> QED BY <1>2, <5>1, <5>2 DEF Backed, Fits
        <4>3. CASE u # t
          <5>1. Backed(m, u)
            BY <4>1 DEF KeyInv
          <5>2. \A o \in Actor : actor[o].msg = m => o = a
            BY <2>m, <4>1 DEF KeyInv, Alone
          <5>3. ~Parted(m, u)
            BY <2>t, <3>1, <4>3, <5>2 DEF Parted
          <5>4. keys'[m][u] = keys[m][u] /\ derived'[m][u] = derived[m][u]
            BY <3>1, <3>2, <4>3
          <5>5. keys[m][u] = NoKey \/ Fits(m, u, derived[m][u], keys[m][u])
            BY <5>1, <5>3 DEF Backed
          <5> QED BY <1>2, <5>4, <5>5 DEF Backed, Fits
        <4> QED BY <4>2, <4>3
      <3> QED BY <2>7, <3>1, <3>2, <3>4, <3>5
    <2>11. CASE Clear(a)
      <3>1. actor[a].pc = "clear" /\ actor[a].pc \in AtMessage /\ m \in Msg /\ UNCHANGED keys
        BY <2>m, <2>2, <2>11 DEF Clear, At, AtMessage
      <3>2. \A x \in Msg \ {m} : derived'[x] = derived[x] /\ keys'[x] = keys[x]
        <4> QED BY <2>m, <1>2, <2>11, <3>1 DEF Clear
      <3>3. r.pc \in {"ask", "unkey"}
        BY <2>1, <2>11, StepsFrom DEF MoveOf
      <3>4. KeyReady(a)'
        BY <2>1, <3>3 DEF ActorSet, KeyReady
      <3>5. ASSUME m \notin overlapped' \cup torn', NEW u \in Task \ {"embedding"}
            PROVE  Backed(m, u)'
        <4>1. CASE actor[a].job = "embedding"
          <5>1. derived' = [derived EXCEPT ![m]["embedding"].body = 0]
            BY <2>m, <2>11, <4>1 DEF Clear
          <5>2. derived'[m][u] = derived[m][u]
            <6> QED BY <1>2, <3>1, <5>1
          <5>3. keys[m][u] = NoKey \/ Fits(m, u, derived[m][u], keys[m][u])
            BY <2>8, <3>1, <3>5
          <5>4. keys'[m][u] = keys[m][u]
            BY <3>1
          <5> QED BY <1>2, <5>2, <5>3, <5>4 DEF Backed, Fits
        <4>2. CASE actor[a].job # "embedding"
          <5>1. Set(a, [actor[a] EXCEPT !.pc = "unkey"])
            BY <2>11, <4>2 DEF Clear
          <5>2. actor'[a].pc = "unkey" /\ actor'[a].msg = m
            BY <2>m, <5>1 DEF Set, PipeTyped, ActorType
          <5>3. Parted(m, u)'
            BY <5>2 DEF Parted
          <5> QED BY <5>3 DEF Backed
        <4> QED BY <4>1, <4>2
      <3> QED BY <2>7, <3>1, <3>2, <3>4, <3>5
    <2>12. CASE Unkey(a)
      <3>1. /\ actor[a].pc \in AtMessage /\ m \in Msg /\ UNCHANGED derived
            /\ keys' = [keys EXCEPT ![m] = NoKeys]
        BY <2>m, <2>2, <2>12 DEF Unkey, At, AtMessage
      <3>2. /\ \A x \in Msg \ {m} : derived'[x] = derived[x] /\ keys'[x] = keys[x]
            /\ \A u \in Task : keys'[m][u] = NoKey
        BY <1>2, <3>1 DEF NoKeys
      <3>3. r.pc \notin {"store", "record"}
        BY <2>1, <2>12, StepsFrom DEF MoveOf, Free
      <3>4. KeyReady(a)'
        BY <2>1, <3>3 DEF ActorSet, KeyReady
      <3>5. ASSUME NEW u \in Task PROVE Backed(m, u)'
        <4>1. keys'[m][u] = NoKey
          BY <3>2
        <4> QED BY <4>1 DEF Backed
      <3> QED BY <2>7, <3>1, <3>2, <3>4, <3>5
    <2> QED BY <1>8, <2>3, <2>4, <2>5, <2>9, <2>10, <2>11, <2>12 DEF ActorStep
  <1>9. Worker \in Actor /\ Operator \in Actor
    BY DEF Actor
  <1>10. CASE UNCHANGED pipeVars \/ NewPrompts \/ UNCHANGED ingestVars
    BY <1>6, <1>10 DEF pipeVars, NewPrompts, ingestVars
  <1> QED BY <1>7, <1>8, <1>9, <1>10, JobsStart DEF IngestNext, WorkerStep

\* A label that the model gives waits for the patterns, one that they force
\* stays until rederive takes it away.
LEMMA PatternStep ==
    ASSUME SyncTyped, PipeTyped, PatternInv, [IngestNext]_ingestVars
    PROVE  PatternInv'
  <1>1. /\ torn \subseteq torn' /\ relabelled \subseteq relabelled'
        /\ \A m \in Msg : judged[m] \subseteq judged'[m]
        /\ judged \in [Msg -> SUBSET Nat]
        /\ sens \in [Msg -> [class : Label \cup {NULL}, version : Nat]]
        /\ actor \in [Actor -> ActorType]
    BY HistoriesGrow DEF PipeTyped
  \* A message whose label stays, and whose pattern pass was not the step.
  <1>2. ASSUME NEW x \in Msg \ (torn' \cup relabelled'), sens'[x] = sens[x],
               NEW b \in Nat, JudgedBy(x, b)',
               \A o \in Actor : actor[o].msg = x /\ actor[o].pc = "override" /\ Fires(o, x, b)
                                    => actor'[o] = actor[o]
        PROVE  Classified(x)' => Holds(x, b)' \/ Pending(x, b)'
    <2>1. x \in Msg \ (torn \cup relabelled) /\ JudgedBy(x, b)
      BY <1>1, <1>2 DEF JudgedBy
    <2>2. Classified(x) => Holds(x, b) \/ Pending(x, b)
      BY <1>2, <2>1 DEF PatternInv
    <2>3. (Classified(x)' => Classified(x)) /\ (Holds(x, b) => Holds(x, b)')
      BY <1>1, <1>2 DEF Classified, Holds, Forces
    <2>4. ASSUME NEW o \in Actor, actor[o].msg = x, actor[o].pc = "override", Fires(o, x, b)
          PROVE  Pending(x, b)'
      <3>1. actor'[o] = actor[o]
        BY <1>2, <2>4
      <3>2. Fires(o, x, b)'
        BY <1>1, <2>4, <3>1 DEF Fires, Forced, Forces
      <3> QED BY <2>4, <3>1, <3>2 DEF Pending
    <2> QED BY <2>2, <2>3, <2>4 DEF Pending
  <1>3. ASSUME UNCHANGED sens,
               \A o \in Actor : actor[o].pc = "override" =>
                    actor'[o] = actor[o] \/ actor[o].msg \in torn'
        PROVE  PatternInv'
    <2>1. ASSUME NEW x \in Msg \ (torn' \cup relabelled'), NEW b \in Nat, JudgedBy(x, b)'
          PROVE  Classified(x)' => Holds(x, b)' \/ Pending(x, b)'
      BY <1>2, <1>3, <2>1
    <2> QED BY <2>1 DEF PatternInv
  <1>4. ASSUME NEW a \in Actor, Starts(a) PROVE PatternInv'
    BY <1>3, <1>4 DEF Starts, ActorSet
  <1>5. ASSUME NEW a \in Actor, ActorStep(a) \/ AskFails(a) \/ ActorDies(a) PROVE PatternInv'
    <2>1. PICK r \in ActorType : ActorSet(a, r) /\ MoveOf(a, r)
      BY <1>5, ActorMoves
    <2>2. actor[a].pc \in AtMessage => actor[a].msg \in Msg
      BY DEF PipeTyped, Free, Busy, AtMessage
    <2>3. PICK m : m = actor[a].msg
      OBVIOUS
    <2>4. CASE Rate(a)
      <3>1. actor[a].pc = "rate" /\ m \in Msg
        BY <2>2, <2>3, <2>4 DEF Rate, At, AtMessage
      <3>2. PICK class \in Label :
              /\ sens' = [sens EXCEPT ![m] = [class |-> class, version |-> actor[a].version]]
              /\ \/ Rederiving(a) /\ relabelled' = relabelled \cup {m}
                 \/ Set(a, [actor[a] EXCEPT !.pc = "override", !.label = class])
        BY <2>3, <2>4 DEF Rate, Floored, Label
      <3>3. sens'[m].class = class /\ \A x \in Msg \ {m} : sens'[x] = sens[x]
        BY <1>1, <3>1, <3>2
      <3>4. ASSUME NEW x \in Msg \ (torn' \cup relabelled'), NEW b \in Nat, JudgedBy(x, b)'
            PROVE  Classified(x)' => Holds(x, b)' \/ Pending(x, b)'
        <4>1. CASE x # m
          BY <1>2, <2>1, <3>1, <3>3, <3>4, <4>1 DEF ActorSet
        <4>2. CASE x = m
          <5>1. Set(a, [actor[a] EXCEPT !.pc = "override", !.label = class])
            BY <3>2, <3>4, <4>2
          <5>2. actor'[a].pc = "override" /\ actor'[a].label = class /\ actor'[a].msg = m
            BY <1>1, <2>3, <5>1 DEF Set, ActorType
          <5>3. Holds(m, b)' \/ Fires(a, m, b)'
            BY <1>1, <3>1, <3>3, <5>2 DEF Holds, Fires, Forced, Forces, Label
          <5> QED BY <4>2, <5>2, <5>3 DEF Pending
        <4> QED BY <4>1, <4>2
      <3> QED BY <3>4 DEF PatternInv
    <2>5. CASE Override(a)
      <3>1. actor[a].pc = "override" /\ m \in Msg
        BY <2>2, <2>3, <2>5 DEF Override, At, AtMessage
      <3>2. PICK c : c = rows[m].marker
        OBVIOUS
      <3>3. PICK final : final = Forced(m, c, actor[a].label)
        OBVIOUS
      <3>4. /\ sens' = IF Forces(m, c) = "confidential" \/ final # actor[a].label
                       THEN [sens EXCEPT ![m].class = final] ELSE sens
            /\ judged' = [judged EXCEPT ![m] = @ \cup {c}]
        BY <2>3, <2>5, <3>2, <3>3 DEF Override
      <3>5. Fires(a, m, c) => sens'[m].class = final
        BY <1>1, <3>1, <3>3, <3>4 DEF Fires
      <3>6. /\ \A x \in Msg \ {m} : sens'[x] = sens[x]
            /\ ~Fires(a, m, c) => sens'[m] = sens[m]
            /\ c \in judged'[m]
        BY <1>1, <3>1, <3>3, <3>4 DEF Fires
      <3>7. ASSUME NEW x \in Msg \ (torn' \cup relabelled'), NEW b \in Nat, JudgedBy(x, b)'
            PROVE  Classified(x)' => Holds(x, b)' \/ Pending(x, b)'
        <4>1. CASE x # m
          BY <1>2, <2>1, <2>3, <3>6, <3>7, <4>1 DEF ActorSet
        <4>2. x = m => b = c
          BY <3>6, <3>7 DEF JudgedBy
        <4>3. CASE x = m /\ ~Fires(a, m, c)
          BY <1>2, <2>1, <3>6, <3>7, <4>2, <4>3 DEF ActorSet
        <4>4. CASE x = m /\ Fires(a, m, c)
          <5>1. Holds(m, c)'
            BY <1>1, <3>1, <3>3, <3>5, <4>4 DEF Holds, Fires, Forced, Forces
          <5> QED BY <4>2, <4>4, <5>1
        <4> QED BY <4>1, <4>3, <4>4
      <3> QED BY <3>7 DEF PatternInv
    <2>6. CASE ActorDies(a)
      <3>1. UNCHANGED sens /\ (actor[a].pc = "override" => actor[a].msg \in torn')
        BY <2>6 DEF ActorDies
      <3> QED BY <1>3, <2>1, <3>1 DEF ActorSet
    <2>7. CASE \/ NextMessage(a) \/ CheckLabel(a) \/ CheckKey(a) \/ Ask(a) \/ Store(a)
               \/ Record(a) \/ Clear(a) \/ Unkey(a) \/ RateFails(a) \/ AskFails(a)
      <3>1. UNCHANGED sens
        BY <2>7 DEF NextMessage, CheckLabel, CheckKey, Ask, Store, Record, Clear, Unkey,
                    RateFails, AskFails, LocalStep
      <3>2. actor[a].pc # "override"
        BY <2>7, StepsFrom
      <3> QED BY <1>3, <2>1, <3>1, <3>2 DEF ActorSet
    <2> QED BY <1>5, <2>4, <2>5, <2>6, <2>7 DEF ActorStep
  <1>6. Worker \in Actor /\ Operator \in Actor
    BY DEF Actor
  <1>7. CASE UNCHANGED pipeVars \/ NewPrompts \/ UNCHANGED ingestVars
    BY <1>3, <1>7 DEF pipeVars, NewPrompts, ingestVars
  <1> QED BY <1>4, <1>5, <1>6, <1>7, JobsStart DEF IngestNext, WorkerStep

\* An API model gets a message by a task that is asked while its label is
\* normal; nobody is then between that message's label and its patterns but
\* an actor the history tells of.
LEMMA ExposedStep ==
    ASSUME SyncTyped, PipeTyped, Alone, PatternInv, ForcedNotExposed, [IngestNext]_ingestVars
    PROVE  ForcedNotExposed'
  <1>1. /\ overlapped \subseteq overlapped' /\ torn \subseteq torn'
        /\ relabelled \subseteq relabelled' /\ exposed \subseteq [msg : Msg, body : Nat]
        /\ \A m \in Msg : judged[m] \subseteq judged'[m]
    BY HistoriesGrow DEF PipeTyped
  <1>2. CASE exposed' = exposed
    BY <1>1, <1>2 DEF ForcedNotExposed, JudgedBy, Forces
  <1>3. ASSUME NEW a \in Actor, Ask(a) PROVE ForcedNotExposed'
    <2>1. PICK m, b : m = actor[a].msg /\ b = actor[a].body
      OBVIOUS
    <2>2. actor[a].pc = "ask" /\ m \in Msg /\ b \in Nat
      BY <1>3, <2>1 DEF Ask, At, PipeTyped, Free, Busy, AtMessage, ActorType
    <2>3. \/ exposed' = exposed
          \/ /\ exposed' = exposed \cup {[msg |-> m, body |-> b]}
             /\ Classified(m) /\ sens[m].class = "normal"
      BY <1>3, <2>1 DEF Ask, Blocked
    <2>4. ASSUME Classified(m), sens[m].class = "normal", JudgedBy(m, b),
                 m \notin overlapped \cup torn \cup relabelled
          PROVE  Forces(m, b) = "none"
      <3>1. Holds(m, b) \/ Pending(m, b)
        BY <2>2, <2>4 DEF PatternInv
      <3>2. ~Pending(m, b)
        BY <2>1, <2>2, <2>4 DEF Pending, Alone
      <3>3. Forces(m, b) \in {"none", "sensitive", "confidential"}
        BY DEF Forces
      <3> QED BY <2>4, <3>1, <3>2, <3>3 DEF Holds
    <2>5. ASSUME NEW x \in exposed', Forces(x.msg, x.body)' # "none", JudgedBy(x.msg, x.body)'
          PROVE  x.msg \in (overlapped \cup torn \cup relabelled)'
      <3>1. CASE x \in exposed
        BY <1>1, <2>5, <3>1 DEF ForcedNotExposed, JudgedBy, Forces
      <3>2. CASE x \notin exposed
        <4>1. x.msg = m /\ x.body = b /\ Classified(m) /\ sens[m].class = "normal"
          BY <2>3, <2>5, <3>2
        <4>2. JudgedBy(m, b) /\ Forces(m, b) # "none"
          BY <1>1, <2>2, <2>5, <4>1 DEF JudgedBy, Forces
        <4> QED BY <1>1, <2>4, <4>1, <4>2
      <3> QED BY <3>1, <3>2
    <2> QED BY <2>5 DEF ForcedNotExposed
  <1>4. ASSUME NEW a, ActorStep(a) \/ AskFails(a) \/ ActorDies(a)
        PROVE  exposed' = exposed \/ Ask(a)
    BY <1>4 DEF ActorStep, NextMessage, CheckLabel, Rate, Override, CheckKey, Store, Record,
                Clear, Unkey, RateFails, AskFails, ActorDies, LocalStep, histories
  <1>5. \A a : Starts(a) => exposed' = exposed
    BY DEF Starts, histories
  <1>6. UNCHANGED pipeVars \/ NewPrompts \/ UNCHANGED ingestVars => exposed' = exposed
    BY DEF pipeVars, NewPrompts, ingestVars, histories
  <1>7. Worker \in Actor /\ Operator \in Actor
    BY DEF Actor
  <1> QED BY <1>2, <1>3, <1>4, <1>5, <1>6, <1>7, JobsStart DEF IngestNext, WorkerStep

\* Before the first sync nobody is at work and no message has a label.
LEMMA PipeInit ==
    ASSUME IngestInit
    PROVE  PipeTyped /\ KeyInv /\ PatternInv /\ ForcedNotExposed
  <1>1. /\ NoLabel \in [class : Label \cup {NULL}, version : Nat]
        /\ Nothing \in [Task -> Value] /\ NoKeys \in [Task -> Key]
        /\ Idle \in ActorType /\ Free(Idle)
    BY DEF NoLabel, Nothing, NoValue, Value, NoKeys, NoKey, Key, Idle, ActorType, Free
  <1>2. actor = [a \in Actor |-> Idle] /\ sens = [m \in Msg |-> NoLabel]
    BY DEF IngestInit
  <1>3. PipeTyped
    <2>1. /\ sens \in [Msg -> [class : Label \cup {NULL}, version : Nat]]
          /\ derived \in [Msg -> [Task -> Value]] /\ keys \in [Msg -> [Task -> Key]]
          /\ actor \in [Actor -> ActorType] /\ \A a \in Actor : Free(actor[a])
      BY <1>1 DEF IngestInit
    <2> QED BY <2>1 DEF PipeTyped, IngestInit
  <1>4. KeyInv
    <2>1. \A m \in Msg : \A a \in Actor : actor[a].msg # m
      BY <1>2, SyncAssumption DEF Idle
    <2>2. \A a \in Actor : KeyReady(a)
      BY <1>2 DEF KeyReady, Idle
    <2>3. \A m \in Msg, t \in Task : keys[m][t] = NoKey
      BY DEF IngestInit, NoKeys
    <2>4. AskedInv
      BY <1>2 DEF AskedInv, Idle
    <2> QED BY <2>1, <2>2, <2>3, <2>4 DEF KeyInv, Alone, Backed
  <1>5. PatternInv
    BY <1>2 DEF PatternInv, Classified, NoLabel
  <1>6. ForcedNotExposed
    BY DEF ForcedNotExposed, IngestInit
  <1> QED BY <1>3, <1>4, <1>5, <1>6

\* What every invariant of the pipeline starts from.
LEMMA PipeAlways == IngestSpec => [](SyncTyped /\ PipeTyped)
  <1>1. SyncInit /\ IngestInit => SyncTyped /\ PipeTyped
    BY StoreInit, PipeInit
  <1>2. SyncTyped /\ PipeTyped /\ [IngestNext]_ingestVars => SyncTyped' /\ PipeTyped'
    BY PipelineIsApart, SyncTypedStep, PipeTypedStep
  <1> QED BY <1>1, <1>2, PTL DEF IngestSpec

\* A key of the pipeline stands for the value beside it, whatever the sync,
\* the other actor, faults and restarts do between the two writes: what the
\* pipeline passes over was made from that body with that prompt, but for what
\* rederive went through under a --prompt-v that is not its policy's.
THEOREM KeysStandForValues == IngestSpec => []KeysBacked
  <1>1. SyncInit /\ IngestInit => KeyInv
    BY PipeInit
  <1>2. SyncTyped /\ PipeTyped /\ KeyInv /\ [IngestNext]_ingestVars => KeyInv'
    BY KeyStep
  <1>3. KeyInv => KeysBacked
    <2> SUFFICES ASSUME KeyInv, NEW m \in Msg \ (overlapped \cup torn), ~AtWork(m),
                        NEW t \in Task \ {"embedding"}, keys[m][t] # NoKey
                 PROVE  Fits(m, t, derived[m][t], keys[m][t])
      BY DEF KeysBacked, Fits
    <2>1. ~Parted(m, t)
      BY DEF Parted, AtWork
    <2> QED BY <2>1 DEF KeyInv, Backed
  <1> QED BY <1>1, <1>2, <1>3, PipeAlways, PTL DEF IngestSpec

\* The owner's patterns stick to the body they were held to, whatever the model
\* said and in whatever order the worker, the operator and the sync write, but
\* for what rederive labels and what an actor died on.
THEOREM PatternsPrevail == IngestSpec => []PatternsStick
  <1>1. SyncInit /\ IngestInit => PatternInv
    BY PipeInit
  <1>2. SyncTyped /\ PipeTyped /\ PatternInv /\ [IngestNext]_ingestVars => PatternInv'
    BY PatternStep
  <1>3. SyncTyped /\ PatternInv => PatternsStick
    <2> SUFFICES ASSUME SyncTyped, PatternInv, NEW m \in Msg, Classified(m), ~AtWork(m),
                        m \notin torn \cup relabelled, JudgedBy(m, rows[m].marker)
                 PROVE  Holds(m, rows[m].marker)
      BY DEF PatternsStick, Holds
    <2>1. ~Pending(m, rows[m].marker) /\ rows[m].marker \in Nat
      BY DEF Pending, AtWork, SyncTyped, RowType
    <2> QED BY <2>1 DEF PatternInv
  <1> QED BY <1>1, <1>2, <1>3, PipeAlways, PTL DEF IngestSpec

\* A body that the patterns force never reaches an API model, unless two runs
\* met on the message, one died before the patterns, rederive took the label
\* away, or the patterns were held to another body of the message.
THEOREM ForcedStaysLocal == IngestSpec => []ForcedNotExposed
  <1> DEFINE Inv == Alone /\ PatternInv /\ ForcedNotExposed
  <1>1. SyncInit /\ IngestInit => Inv
    BY PipeInit DEF KeyInv
  <1>2. SyncTyped /\ PipeTyped /\ Inv /\ [IngestNext]_ingestVars => Inv'
    BY AloneStays, PatternStep, ExposedStep
  <1> QED BY <1>1, <1>2, PipeAlways, PTL DEF IngestSpec
=============================================================================
