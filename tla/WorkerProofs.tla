----------------------------- MODULE WorkerProofs -----------------------------
(***************************************************************************)
(* What holds of the worker for any number of tasks, runs of the delivery  *)
(* script, rows, retries, calls and tokens: the retry chain of the write   *)
(* adapter first, then the notification outbox.                            *)
(***************************************************************************)
EXTENDS Worker, TLAPS, FiniteSetTheorems, SequenceTheorems

CallOK(c) ==
    /\ c \in [pc : {"idle", "request", "backoff", "hook", "done"},
              attempt : 0 .. MaxRetries, refreshed : BOOLEAN,
              result : {"none", "ok"} \cup Error]

\* The locals of a call keep their type.
LEMMA CallTyped ==
    ASSUME GTypeOK, GraphNext \/ UNCHANGED graphVars
    PROVE  CallOK(call')
  <1> USE GraphAssumption DEF CallOK
  <1>1. CallOK(call)
    BY DEF GTypeOK
  <1>2. ASSUME NEW r \in Error \cup {"ok"}, Finish(r) PROVE CallOK(call')
    BY <1>1, <1>2 DEF Finish
  <1>3. ASSUME NEW n \in {1, MaxRetries}, NEW r \in Error, RetryOr(n, r)
        PROVE  CallOK(call')
    <2>1. CASE call.attempt < n
      <3>1. call.attempt + 1 \in 0 .. MaxRetries
        BY <1>1, <2>1
      <3>2. call' = [call EXCEPT !.pc = "backoff", !.attempt = call.attempt + 1]
        BY <1>1, <1>3, <2>1 DEF RetryOr
      <3> QED BY <1>1, <3>1, <3>2
    <2>2. CASE ~(call.attempt < n)
      BY <1>2, <1>3, <2>2 DEF RetryOr
    <2> QED BY <2>1, <2>2
  <1>4. CASE Apply
    <2>1. CallOK(Fresh("request", "none")) /\ CallOK(Fresh("done", "ok"))
      BY DEF Fresh
    <2>2. CallOK(Fresh("done", "unsendable"))
      BY DEF Fresh, Error
    <2> QED BY <1>4, <2>1, <2>2 DEF Apply
  <1>5. CASE RequestStep
    <2>1. CASE Unauthorized
      BY <1>1, <1>2, <2>1 DEF Unauthorized, Error
    <2> QED BY <1>2, <1>3, <1>5, <2>1
            DEF RequestStep, Succeeds, TimesOut, Throttled, ServerError, Refused, Error
  <1>6. CASE Backoff \/ AuthHook \/ Return \/ StartAgain
    <2>1. CASE Backoff \/ AuthHook
      BY <1>1, <2>1 DEF Backoff, AuthHook
    <2>2. CASE Return \/ StartAgain
      <3>1. CallOK(Fresh("idle", "none"))
        BY DEF Fresh
      <3> QED BY <2>2, <3>1 DEF Return, StartAgain, IdleCall
    <2> QED BY <1>6, <2>1, <2>2
  <1>7. CASE AuthHookRaises
    BY <1>2, <1>7 DEF AuthHookRaises, Error
  <1>8. CASE TokenStep \/ UNCHANGED graphVars
    BY <1>1, <1>8 DEF TokenStep, RefreshCell, StoreToken, Expire, graphVars
  <1> QED BY <1>4, <1>5, <1>6, <1>7, <1>8 DEF GraphNext, CallStep

\* The variables keep their types.
THEOREM GraphTypeCorrect == GraphSpec => []GTypeOK
  <1>1. GraphInit => GTypeOK
    BY GraphAssumption DEF GraphInit, GTypeOK, IdleCall, Fresh
  <1>2. GTypeOK /\ [GraphNext]_graphVars => GTypeOK'
    <2> SUFFICES ASSUME GTypeOK, [GraphNext]_graphVars PROVE GTypeOK'
      OBVIOUS
    <2> USE GraphAssumption
    <2>1. CASE UNCHANGED graphVars
      BY <2>1 DEF graphVars, GTypeOK
    <2>2. CallOK(call')
      BY CallTyped
    <2>3. CASE Apply
      BY <2>2, <2>3 DEF Apply, TokensKeep, GTypeOK, CallOK
    <2>4. CASE RequestStep
      <3>1. Requesting
        BY <2>4 DEF RequestStep, Succeeds, TimesOut, Throttled, ServerError,
                    Refused, Unauthorized
      <3>2. executed' \in Nat /\ lost' \in Nat
        BY <2>4 DEF RequestStep, Succeeds, TimesOut, Throttled, ServerError,
                    Refused, Unauthorized, TakesEffect, NoEffect, GTypeOK
      <3> QED BY <2>2, <3>1, <3>2 DEF Requesting, TokensKeep, GTypeOK, CallOK
    <2>5. CASE Backoff \/ Return \/ StartAgain
      BY <2>2, <2>5 DEF Backoff, Return, StartAgain, EffectsKeep, TokensKeep, GTypeOK, CallOK
    <2>6. CASE AuthHook \/ AuthHookRaises
      BY <2>2, <2>6 DEF AuthHook, AuthHookRaises, Refilled, EffectsKeep, GTypeOK, CallOK
    <2>7. CASE RefreshCell
      BY <2>2, <2>7 DEF RefreshCell, Refilled, EffectsKeep, GTypeOK, CallOK
    <2>9. CASE StoreToken
      BY <2>2, <2>9 DEF StoreToken, EffectsKeep, GTypeOK, CallOK
    <2>8. ASSUME NEW t \in live, Expire(t) PROVE GTypeOK'
      BY <2>2, <2>8 DEF Expire, EffectsKeep, GTypeOK, CallOK
    <2> QED BY <2>1, <2>3, <2>4, <2>5, <2>6, <2>7, <2>8, <2>9
            DEF GraphNext, CallStep, TokenStep
  <1> QED BY <1>1, <1>2, PTL DEF GraphSpec
-----------------------------------------------------------------------------
(* The chain counts its requests in the attempts, plus one for the refresh;  *)
(* while it goes on, no effect has been answered.                            *)

Trying == call.pc \in {"request", "backoff", "hook"}

ChainCounted ==
    Trying => requests <= call.attempt + (IF call.refreshed THEN 1 ELSE 0)

ChainUnanswered == Trying => executed <= lost /\ call.result = "none"

HookOnce == call.pc = "hook" => call.refreshed

ChainInv == ChainCounted /\ ChainUnanswered /\ HookOnce /\ RepeatsOnlyLostAnswers

\* A request either ends the call or goes on with one more attempt or with
\* the refresh.
LEMMA RequestKeepsChain ==
    ASSUME GTypeOK, ChainInv, RequestStep
    PROVE  ChainInv'
  <1> USE GraphAssumption
  <1>1. /\ call.pc = "request" /\ requests' = requests + 1
        /\ requests \in Nat /\ executed \in Nat /\ lost \in Nat
        /\ call.attempt \in 0 .. MaxRetries /\ call.refreshed \in BOOLEAN
        /\ executed <= lost /\ call.result = "none"
        /\ requests <= call.attempt + (IF call.refreshed THEN 1 ELSE 0)
    BY DEF RequestStep, Succeeds, TimesOut, Throttled, ServerError, Refused,
           Unauthorized, Requesting, GTypeOK, ChainInv, ChainCounted,
           ChainUnanswered, Trying
  <1>2. requests' <= MaxRetries + 2
    BY <1>1
  <1>3. \/ executed' = executed /\ lost' = lost
        \/ executed' = executed + 1 /\ lost' \in {lost, lost + 1}
    BY DEF RequestStep, Succeeds, TimesOut, Throttled, ServerError, Refused,
           Unauthorized, TakesEffect, NoEffect
  <1>4. executed' <= 1 + lost'
    BY <1>1, <1>3
  <1>5. CASE Succeeds
    <2>1. call'.pc = "done" /\ executed' = executed + 1
      BY <1>5 DEF Succeeds, Finish, TakesEffect, GTypeOK
    <2> QED BY <1>1, <1>2, <1>4, <2>1
            DEF ChainInv, ChainCounted, ChainUnanswered, HookOnce, Trying,
                RepeatsOnlyLostAnswers
  <1>6. CASE TimesOut \/ Throttled \/ ServerError \/ Refused \/ Unauthorized
    <2>1. executed' <= lost'
      BY <1>1, <1>6
         DEF TimesOut, Throttled, ServerError, Refused, Unauthorized, TakesEffect,
             NoEffect
    <2>2. \/ call'.pc = "done" /\ call'.result # "ok"
          \/ /\ call'.pc = "backoff" /\ call'.attempt = call.attempt + 1
             /\ call'.refreshed = call.refreshed /\ call'.result = "none"
          \/ /\ call'.pc = "hook" /\ call'.attempt = call.attempt
             /\ ~call.refreshed /\ call'.refreshed /\ call'.result = "none"
      BY <1>1, <1>6
         DEF TimesOut, Throttled, ServerError, Refused, Unauthorized, RetryOr,
             Finish, GTypeOK
    <2>3. ChainCounted'
      BY <1>1, <2>2 DEF ChainCounted, Trying
    <2> QED BY <1>2, <1>4, <2>1, <2>2, <2>3
            DEF ChainInv, ChainUnanswered, HookOnce, Trying, RepeatsOnlyLostAnswers
  <1> QED BY <1>5, <1>6 DEF RequestStep

\* The invariant holds of every reachable state.
LEMMA ChainInvariant == GraphSpec => []ChainInv
  <1>1. GraphInit => ChainInv
    BY GraphAssumption
       DEF GraphInit, ChainInv, ChainCounted, ChainUnanswered, HookOnce, Trying,
           RepeatsOnlyLostAnswers, IdleCall, Fresh
  <1>2. GTypeOK /\ ChainInv /\ [GraphNext]_graphVars => ChainInv'
    <2> SUFFICES ASSUME GTypeOK, ChainInv, [GraphNext]_graphVars PROVE ChainInv'
      OBVIOUS
    <2> USE GraphAssumption
    <2>1. ASSUME UNCHANGED <<call, executed, lost, requests>> PROVE ChainInv'
      BY <2>1 DEF ChainInv, ChainCounted, ChainUnanswered, HookOnce, Trying,
                  RepeatsOnlyLostAnswers
    <2>2. CASE Apply
      <3>1. /\ executed' = 0 /\ lost' = 0 /\ requests' = 0
            /\ call'.pc = "request" \/ call'.pc = "done"
            /\ call'.attempt = 0 /\ ~call'.refreshed
            /\ call'.pc = "request" => call'.result = "none"
        BY <2>2 DEF Apply, Fresh
      <3> QED BY <3>1 DEF ChainInv, ChainCounted, ChainUnanswered, HookOnce, Trying,
                          RepeatsOnlyLostAnswers
    <2>3. CASE RequestStep
      BY <2>3, RequestKeepsChain
    <2>4. CASE Backoff \/ AuthHook
      <3>1. /\ Trying /\ call' = [call EXCEPT !.pc = "request"]
            /\ UNCHANGED <<executed, lost, requests>>
        BY <2>4 DEF Backoff, AuthHook, EffectsKeep, Trying
      <3> QED BY <3>1
              DEF GTypeOK, ChainInv, ChainCounted, ChainUnanswered, HookOnce,
                  Trying, RepeatsOnlyLostAnswers
    <2>5. CASE AuthHookRaises \/ Return \/ StartAgain
      <3>1. /\ call'.pc \in {"done", "idle"} /\ call'.result # "ok"
            /\ UNCHANGED <<executed, lost, requests>>
        <4>1. CASE AuthHookRaises
          BY <4>1 DEF AuthHookRaises, Finish, EffectsKeep, GTypeOK
        <4>2. CASE Return \/ StartAgain
          BY <4>2 DEF Return, StartAgain, IdleCall, Fresh, EffectsKeep
        <4> QED BY <2>5, <4>1, <4>2
      <3> QED BY <3>1
              DEF ChainInv, ChainCounted, ChainUnanswered, HookOnce, Trying,
                  RepeatsOnlyLostAnswers
    <2>6. CASE TokenStep \/ UNCHANGED graphVars
      BY <2>1, <2>6 DEF TokenStep, RefreshCell, StoreToken, Expire, EffectsKeep,
                        graphVars
    <2> QED BY <2>2, <2>3, <2>4, <2>5, <2>6 DEF GraphNext, CallStep
  <1> QED BY GraphTypeCorrect, <1>1, <1>2, PTL DEF GraphSpec

\* A call takes effect twice only if an answer was lost, and makes at most
\* MaxRetries + 2 requests, in whatever order 429s, timeouts, 5xx and the
\* token refresh come.
THEOREM RepeatsAreLostAnswers == GraphSpec => []RepeatsOnlyLostAnswers
  <1>1. ChainInv => RepeatsOnlyLostAnswers
    BY DEF ChainInv
  <1> QED BY ChainInvariant, <1>1, PTL
-----------------------------------------------------------------------------
(* Tokens expire in the order of issue, so the live ones are the newest; a   *)
(* call that has been to the hook uses what oauth_state held, or newer.      *)

NewestLive == \A t \in live : t <= stored /\ \A u \in t .. stored : u \in live

CellBehind == cell <= stored

HookedCell ==
    call.pc \in {"request", "backoff"} /\ call.refreshed =>
        offered <= cell \/ offered = 0

TokenInv == NewestLive /\ CellBehind /\ HookedCell

\* The invariant holds of every reachable state.
LEMMA TokenInvariant == GraphSpec => []TokenInv
  <1>1. GraphInit => TokenInv
    BY DEF GraphInit, TokenInv, NewestLive, CellBehind, HookedCell, IdleCall, Fresh
  <1>2. GTypeOK /\ ChainInv /\ TokenInv /\ [GraphNext]_graphVars => TokenInv'
    <2> SUFFICES ASSUME GTypeOK, ChainInv, TokenInv, [GraphNext]_graphVars
                 PROVE  TokenInv'
      OBVIOUS
    <2> USE GraphAssumption
    <2>1. ASSUME UNCHANGED <<stored, cell, live, offered>>,
                 call'.pc \in {"request", "backoff"} /\ call'.refreshed =>
                    call.pc \in {"request", "backoff"} /\ call.refreshed
          PROVE  TokenInv'
      BY <2>1 DEF TokenInv, NewestLive, CellBehind, HookedCell
    <2>2. CASE Apply
      <3>1. /\ UNCHANGED <<stored, cell, live>> /\ ~call'.refreshed
        BY <2>2 DEF Apply, Fresh, TokensKeep
      <3> QED BY <3>1 DEF TokenInv, NewestLive, CellBehind, HookedCell
    <2>3. CASE RequestStep
      <3>1. /\ call.pc = "request" /\ UNCHANGED <<stored, cell, live, offered>>
        BY <2>3 DEF RequestStep, Succeeds, TimesOut, Throttled, ServerError, Refused,
                    Unauthorized, Requesting, TokensKeep
      <3>2. call'.pc = "hook" \/ call'.refreshed = call.refreshed
        BY <2>3 DEF RequestStep, Succeeds, TimesOut, Throttled, ServerError, Refused,
                    Unauthorized, RetryOr, Finish, GTypeOK
      <3> QED BY <2>1, <3>1, <3>2
    <2>4. CASE Backoff \/ AuthHookRaises \/ Return
      <3>1. UNCHANGED <<stored, cell, live, offered>>
        BY <2>4 DEF Backoff, AuthHookRaises, Return, EffectsKeep, TokensKeep
      <3>2. \/ call'.pc \in {"done", "idle"}
            \/ call.pc = "backoff" /\ call'.refreshed = call.refreshed
        <4>1. CASE Backoff
          BY <4>1 DEF Backoff, GTypeOK
        <4>2. CASE AuthHookRaises
          BY <4>2 DEF AuthHookRaises, Finish, GTypeOK
        <4>3. CASE Return
          BY <4>3 DEF Return, IdleCall, Fresh
        <4> QED BY <2>4, <4>1, <4>2, <4>3
      <3> QED BY <2>1, <3>1, <3>2
    <2>5. CASE AuthHook
      BY <2>5 DEF AuthHook, Refilled, GTypeOK, TokenInv, NewestLive, CellBehind,
                  HookedCell
    <2>6. CASE RefreshCell
      BY <2>6 DEF RefreshCell, Refilled, EffectsKeep, GTypeOK, TokenInv, NewestLive,
                  CellBehind, HookedCell
    <2>7. CASE StoreToken
      <3>1. NewestLive'
        BY <2>7 DEF StoreToken, GTypeOK, TokenInv, NewestLive
      <3>2. CellBehind' /\ HookedCell'
        BY <2>7 DEF StoreToken, EffectsKeep, GTypeOK, TokenInv, CellBehind, HookedCell
      <3> QED BY <3>1, <3>2 DEF TokenInv
    <2>8. ASSUME NEW t \in live, Expire(t) PROVE TokenInv'
      <3>1. NewestLive'
        BY <2>8 DEF Expire, GTypeOK, TokenInv, NewestLive
      <3>2. CellBehind' /\ HookedCell'
        BY <2>8 DEF Expire, EffectsKeep, TokenInv, CellBehind, HookedCell
      <3> QED BY <3>1, <3>2 DEF TokenInv
    <2>9. CASE StartAgain
      <3>1. UNCHANGED <<stored, live, offered>> /\ cell' = stored /\ call'.pc = "idle"
        BY <2>9 DEF StartAgain, EffectsKeep, IdleCall, Fresh
      <3> QED BY <3>1 DEF GTypeOK, TokenInv, NewestLive, CellBehind, HookedCell
    <2>10. CASE UNCHANGED graphVars
      BY <2>1, <2>10 DEF graphVars
    <2> QED BY <2>2, <2>3, <2>4, <2>5, <2>6, <2>7, <2>8, <2>9, <2>10
            DEF GraphNext, CallStep, TokenStep
  <1> QED BY GraphTypeCorrect, ChainInvariant, <1>1, <1>2, PTL DEF GraphSpec

\* A call that fails for its credential was refused with the token oauth_state
\* held when the hook ran, or that token had expired by then: no stale cell,
\* and no refresh racing the hook, fails a call that had a good token.
THEOREM StaleTokensDoNotFail == GraphSpec => NoStaleTokenFailure
  <1>1. GTypeOK /\ TokenInv /\ ChainInv /\ [GraphNext]_graphVars =>
            [call.pc = "request" /\ call'.result = "provider_4xx_401"
                => offered \notin live]_graphVars
    <2> SUFFICES ASSUME GTypeOK, TokenInv, ChainInv, GraphNext, call.pc = "request",
                        call'.result = "provider_4xx_401", offered \in live
                 PROVE  FALSE
      OBVIOUS
    <2>1. call.result = "none"
      BY DEF ChainInv, ChainUnanswered, Trying
    <2>2. RequestStep
      <3>1. ASSUME TokenStep PROVE FALSE
        BY <2>1, <3>1 DEF TokenStep, RefreshCell, StoreToken, Expire
      <3>2. ~StartAgain
        BY DEF StartAgain, IdleCall, Fresh
      <3>3. CallStep => RequestStep
        BY DEF CallStep, Apply, Backoff, AuthHook, AuthHookRaises, Return
      <3> QED BY <3>1, <3>2, <3>3 DEF GraphNext
    <2>3. Unauthorized
      BY <2>1, <2>2 DEF RequestStep, Succeeds, TimesOut, Throttled, ServerError,
                        Refused, RetryOr, Finish, GTypeOK
    <2>4. call.refreshed /\ cell \notin live
      BY <2>1, <2>3 DEF Unauthorized, GTypeOK
    <2>5. offered \in 1 .. stored /\ \A u \in offered .. stored : u \in live
      BY DEF GTypeOK, TokenInv, NewestLive
    <2>6. cell \in offered .. stored
      BY <2>4, <2>5 DEF GTypeOK, TokenInv, HookedCell, CellBehind
    <2> QED BY <2>4, <2>5, <2>6
  <1> QED BY GraphTypeCorrect, TokenInvariant, ChainInvariant, <1>1, PTL
          DEF GraphSpec, NoStaleTokenFailure
-----------------------------------------------------------------------------
(* In the worker, with its outbox, alarm and restarts. *)

\* Every behaviour of the worker is one of the adapter, seen from its variables.
THEOREM WorkerDrivesAdapter == WorkerSpec => GraphSpec
  <1>1. WorkerInit => GraphInit
    BY DEF WorkerInit
  <1>2. [WorkerNext]_allVars => [GraphNext]_graphVars
    <2> SUFFICES ASSUME [WorkerNext]_allVars PROVE [GraphNext]_graphVars
      OBVIOUS
    <2>1. CASE UNCHANGED graphVars
      BY <2>1
    <2>2. CASE WorkerStep
      BY <2>1, <2>2
         DEF WorkerStep, RunSync, SyncBeat, CheckAlarm, AlarmSent, AlarmRaises,
             WrapBeat, DrainerBeat, DrainerEnds, Restart, QueuesKeep, GraphNext
    <2> QED BY <2>1, <2>2 DEF WorkerNext, WorkerKeeps, GraphStep, GraphNext, allVars
  <1> QED BY <1>1, <1>2, PTL DEF WorkerSpec, GraphSpec

\* So the worker inherits what is proved of the adapter.
COROLLARY WorkerCalls ==
    WorkerSpec => [](GTypeOK /\ RepeatsOnlyLostAnswers) /\ NoStaleTokenFailure
  BY WorkerDrivesAdapter, GraphTypeCorrect, RepeatsAreLostAnswers,
     StaleTokensDoNotFail, PTL

-----------------------------------------------------------------------------
(* The outbox: what its rows and its users look like. *)

\* What a run of the script remembers of a row it claimed.
Claim == [id : Nat, told : SUBSET Event, attempt : Nat]

SenderPc == {"idle", "posture", "mute", "dedup", "collapse", "insert"}
PullerPc == {"idle", "claim", "fetch", "ack", "nack", "nackMax", "nackRetry"}

OutboxTyped ==
    /\ outbox \in Seq(Row)
    /\ sender \in [Sender -> [pc : SenderPc, tier : Tier \cup {NULL},
                              category : Category \cup {NULL},
                              event : Event \cup {NULL}, target : Nat \cup {NULL}]]
    /\ puller \in [Puller -> [pc : PullerPc, todo : Seq(Nat), held : Seq(Claim)]]
    /\ lateAcks \subseteq Claim
    /\ sent \in Nat

\* A task that is sending knows what; one about to collapse has a row of its
\* tier; the sync task sends alarms only.
SenderShape ==
    \A s \in Sender :
        /\ sender[s].pc # "idle" =>
                /\ sender[s].tier \in Tier /\ sender[s].category \in Category
                /\ sender[s].event \in Event
                /\ sender[s].tier = "important" => s # SyncTask
        /\ sender[s].pc = "collapse" =>
                /\ sender[s].target \in DOMAIN outbox
                /\ outbox[sender[s].target].tier = sender[s].tier

\* A run of the script works through rows of the table in their order, each of
\* them once; what it holds it has taken off its list.
TodoShape(p) ==
    LET todo == puller[p].todo IN
    /\ \A k \in DOMAIN todo : /\ todo[k] \in DOMAIN outbox
                              /\ outbox[todo[k]].tier = "urgent"
    /\ \A k, l \in DOMAIN todo : k < l => todo[k] < todo[l]
    /\ puller[p].pc = "fetch" => todo # <<>>
    /\ puller[p].pc \notin {"claim", "fetch"} => todo = <<>>

HeldShape(p) ==
    LET held == puller[p].held IN
    /\ \A k \in DOMAIN held : held[k].id \in DOMAIN outbox
    /\ \A k, l \in DOMAIN held : held[k].id = held[l].id => k = l
    /\ \A k \in DOMAIN held, l \in DOMAIN puller[p].todo :
            held[k].id # puller[p].todo[l]
    /\ puller[p].pc \in {"nackMax", "nackRetry"} => held # <<>>

PullerShape ==
    /\ \A p \in Puller : TodoShape(p) /\ HeldShape(p)
    /\ \A c \in lateAcks : c.id \in DOMAIN outbox

OutboxShape == OutboxTyped /\ SenderShape /\ PullerShape

\* What one statement does to a row that is there: claims it, or leaves its
\* attempts alone; only a waiting message is rewritten.
Claimed(r, q) ==
    /\ r.status = "pending" /\ q.status = "delivering" /\ q.attempts = r.attempts + 1
    /\ q.tier = r.tier /\ q.category = r.category /\ q.told = r.told
    /\ r.old => q.old

Kept(r, q) ==
    /\ q.tier = r.tier /\ q.category = r.category /\ q.attempts = r.attempts
    /\ q.told = r.told \/ (r.status = "pending" /\ q.status = "pending")
    /\ r.old => q.old
    /\ \/ q.status = r.status
       \/ r.status = "delivering"
       \/ r.tier = "important" /\ r.status = "pending" /\ q.status = "ok_via_digest"

RowsMoved ==
    /\ outbox' \in Seq(Row) /\ Len(outbox) <= Len(outbox')
    /\ \A i \in DOMAIN outbox : \/ Kept(outbox[i], outbox'[i])
                                \/ Claimed(outbox[i], outbox'[i])

\* A statement that rewrites one row leaves the others and their number alone.
LEMMA UpdateRow ==
    ASSUME outbox \in Seq(Row), NEW i \in DOMAIN outbox, NEW r \in Row,
           outbox' = [outbox EXCEPT ![i] = r]
    PROVE  /\ outbox' \in Seq(Row) /\ Len(outbox') = Len(outbox)
           /\ DOMAIN outbox' = DOMAIN outbox
           /\ outbox'[i] = r /\ \A j \in DOMAIN outbox : j # i => outbox'[j] = outbox[j]
  BY ExceptSeq

\* A statement over the whole table keeps its rows in place.
LEMMA MapRows ==
    ASSUME outbox \in Seq(Row), DOMAIN outbox' = DOMAIN outbox,
           outbox' = [i \in DOMAIN outbox |-> outbox'[i]],
           \A i \in DOMAIN outbox : outbox'[i] \in Row
    PROVE  outbox' \in Seq(Row) /\ Len(outbox') = Len(outbox)
  <1>1. DOMAIN outbox = 1 .. Len(outbox) /\ Len(outbox) \in Nat
    OBVIOUS
  <1>2. outbox' \in [1 .. Len(outbox) -> Row]
    BY <1>1
  <1>3. outbox' \in Seq(Row)
    BY <1>1, <1>2, SeqDef
  <1>4. Len(outbox') = Len(outbox)
    BY <1>1, <1>3
  <1> QED BY <1>3, <1>4

\* What a step of the worker may be, for the outbox.
Calm ==
    /\ UNCHANGED <<outbox, sender, puller, lateAcks, reclaimed, crossed, sent>>
    /\ printed \subseteq printed'

Sending(s) ==
    \/ \E t \in Tier, c \in Category : (s = SyncTask => t = "urgent") /\ Send(s, t, c)
    \/ PostureCheck(s) \/ MuteCheck(s) \/ DedupCheck(s) \/ SenderFails(s)

Moves ==
    \/ Calm
    \/ \E s \in Sender : Sending(s) \/ Collapse(s) \/ Insert(s)
    \/ \E p \in Puller : DeliverStep(p) \/ DeliveryFault(p)
    \/ \E c \in lateAcks : LateAck(c)
    \/ Reclaim \/ FinalizeDigest \/ Restart
    \/ \E i \in DOMAIN outbox : Sticks(i) \/ Ages(i)

\* For the outbox, the worker's own steps are sends, a restart or nothing.
LEMMA WorkerMoves ==
    ASSUME [WorkerNext]_allVars
    PROVE  Moves
  <1>1. CASE UNCHANGED outboxVars
    BY <1>1 DEF outboxVars, Calm, Moves
  <1>2. CASE WorkerStep
    <2>1. CASE CheckAlarm
      <3>1. CASE UNCHANGED outboxVars
        BY <3>1, <1>1
      <3>2. CASE Send(SyncTask, "urgent", AlarmCategory)
        BY <3>2, WorkerAssumption DEF Sending, Moves, Tier
      <3> QED BY <2>1, <3>1, <3>2 DEF CheckAlarm
    <2>2. CASE AlarmRaises
      BY <2>2, WorkerAssumption DEF AlarmRaises, Sending, Moves
    <2>3. CASE DrainerEnds
      BY <2>3 DEF DrainerEnds, SenderKeeps, Calm, Moves
    <2>4. CASE Restart
      BY <2>4 DEF Moves
    <2>5. CASE RunSync \/ SyncBeat \/ AlarmSent \/ WrapBeat \/ DrainerBeat
      BY <1>1, <2>5 DEF RunSync, SyncBeat, AlarmSent, WrapBeat, DrainerBeat, QueuesKeep
    <2> QED BY <1>2, <2>1, <2>2, <2>3, <2>4, <2>5 DEF WorkerStep
  <1>3. CASE OutboxStep
    <2>1. CASE OperatorStep
      BY <2>1 DEF OperatorStep, MuteCategory, UnmuteCategory, MuteExpires,
                  SetUrgentOnly, LiftUrgentOnly, OperatorKeeps, Calm, Moves
    <2>2. CASE DigestStep
      BY <2>2 DEF DigestStep, ComposeDigest, PrintDigest, DigestFails, DigestKeeps, Calm, Moves
    <2>3. CASE \E s \in Sender : SendStep(s)
      BY <2>3 DEF SendStep, Sending, Moves
    <2>4. CASE \E s \in Other : \/ SenderFails(s)
                                \/ \E t \in Tier, c \in Category : Send(s, t, c)
      BY <2>4 DEF Other, Sending, Moves
    <2>5. CASE HermesStep
      BY <2>5 DEF HermesStep, HermesPosts, HermesDrops, HermesKeeps, Calm, Moves
    <2> QED BY <1>3, <2>1, <2>2, <2>3, <2>4, <2>5 DEF OutboxStep, TimeStep, Moves
  <1> QED BY <1>1, <1>2, <1>3 DEF WorkerNext, allVars

\* A statement on one row moves that row and no other.
LEMMA OneRowMoves ==
    ASSUME outbox \in Seq(Row), NEW i \in DOMAIN outbox, NEW r \in Row,
           outbox' = [outbox EXCEPT ![i] = r],
           Kept(outbox[i], r) \/ Claimed(outbox[i], r)
    PROVE  RowsMoved
  <1>1. /\ outbox' \in Seq(Row) /\ Len(outbox') = Len(outbox) /\ outbox'[i] = r
        /\ \A j \in DOMAIN outbox : j # i => outbox'[j] = outbox[j]
    BY UpdateRow
  <1>2. \A j \in DOMAIN outbox : j # i => Kept(outbox[j], outbox'[j])
    BY <1>1 DEF Kept
  <1> QED BY <1>1, <1>2 DEF RowsMoved

\* A step that leaves the table alone moves no row.
LEMMA RowsStay ==
    ASSUME outbox \in Seq(Row), UNCHANGED outbox
    PROVE  RowsMoved
  BY DEF RowsMoved, Kept

\* The acknowledgement of a row that is there.
LEMMA AckMovesRow ==
    ASSUME outbox \in Seq(Row), NEW c \in Claim, c.id \in DOMAIN outbox, AckOk(c)
    PROVE  RowsMoved
  <1>1. CASE outbox[c.id].status = "delivering"
    <2> DEFINE r == [outbox[c.id] EXCEPT !.status = "ok"]
    <2>1. outbox[c.id] \in Row
      BY ElementOfSeq
    <2>2. r \in Row /\ Kept(outbox[c.id], r)
      BY <1>1, <2>1 DEF Row, Status, Kept
    <2>3. outbox' = [outbox EXCEPT ![c.id] = r]
      BY <1>1 DEF AckOk
    <2> QED BY <2>2, <2>3, OneRowMoves
  <1>2. CASE outbox[c.id].status # "delivering"
    BY <1>2, RowsStay DEF AckOk
  <1> QED BY <1>1, <1>2

\* Every step either keeps or claims each row that is there.
LEMMA RowsMove ==
    ASSUME OutboxShape, Moves
    PROVE  RowsMoved
  <1>1. /\ outbox \in Seq(Row) /\ DOMAIN outbox = 1 .. Len(outbox) /\ Len(outbox) \in Nat
        /\ \A i \in DOMAIN outbox : outbox[i] \in Row
    BY ElementOfSeq DEF OutboxShape, OutboxTyped
  <1>2. ASSUME UNCHANGED outbox PROVE RowsMoved
    BY <1>1, <1>2, RowsStay
  <1>3. ASSUME NEW s \in Sender, Sending(s) PROVE RowsMoved
    BY <1>2, <1>3 DEF Sending, Send, PostureCheck, MuteCheck, DedupCheck, SenderFails
  <1>4. ASSUME NEW s \in Sender, Collapse(s) PROVE RowsMoved
    <2> DEFINE i == sender[s].target
    <2>1. i \in DOMAIN outbox /\ sender[s].event \in Event
      BY <1>4 DEF OutboxShape, SenderShape, Collapse
    <2>2. CASE outbox[i].status = "pending"
      <3> DEFINE r == [outbox[i] EXCEPT !.told = outbox[i].told \cup {sender[s].event}]
      <3>1. r \in Row /\ Kept(outbox[i], r)
        BY <1>1, <2>1, <2>2 DEF Row, Kept
      <3>2. outbox' = [outbox EXCEPT ![i] = r]
        BY <1>4, <2>2 DEF Collapse
      <3> QED BY <1>1, <2>1, <3>1, <3>2, OneRowMoves
    <2>3. CASE outbox[i].status # "pending"
      BY <1>2, <1>4, <2>3 DEF Collapse
    <2> QED BY <2>2, <2>3
  <1>5. ASSUME NEW s \in Sender, Insert(s) PROVE RowsMoved
    <2> DEFINE r == [tier |-> sender[s].tier, category |-> sender[s].category,
                     told |-> {sender[s].event}, status |-> "pending", attempts |-> 0,
                     stuck |-> FALSE, old |-> FALSE]
    <2>1. r \in Row /\ outbox' = Append(outbox, r)
      BY <1>5 DEF OutboxShape, SenderShape, Insert, Row, Status
    <2> HIDE DEF r
    <2>2. /\ outbox' \in Seq(Row) /\ Len(outbox') = Len(outbox) + 1
          /\ \A i \in 1 .. Len(outbox) : outbox'[i] = outbox[i]
      BY <1>1, <2>1, AppendProperties
    <2> QED BY <1>1, <2>2 DEF RowsMoved, Kept
  <1>6. ASSUME NEW p \in Puller, DeliverStep(p) \/ DeliveryFault(p) PROVE RowsMoved
    <2>1. /\ puller[p].todo \in Seq(Nat) /\ puller[p].held \in Seq(Claim)
          /\ TodoShape(p) /\ HeldShape(p)
      BY DEF OutboxShape, OutboxTyped, PullerShape
    <2>2. puller[p].todo # <<>> => Head(puller[p].todo) \in DOMAIN outbox
      BY <2>1 DEF TodoShape
    <2>3. puller[p].held # <<>> => /\ Head(puller[p].held) \in Claim
                                   /\ Head(puller[p].held).id \in DOMAIN outbox
      BY <2>1 DEF HeldShape
    <2>4. CASE ClaimOne(p)
      <3> DEFINE i == Head(puller[p].todo)
                 r == [outbox[i] EXCEPT !.status = "delivering",
                            !.attempts = outbox[i].attempts + 1, !.stuck = FALSE]
      <3>1. i \in DOMAIN outbox
        BY <2>2, <2>4 DEF ClaimOne
      <3>2. CASE outbox[i].status = "pending"
        <4>1. outbox[i] \in Row
          BY <1>1, <3>1
        <4> HIDE DEF i
        <4>3. r \in Row /\ Claimed(outbox[i], r)
          <5>1. outbox[i].attempts + 1 \in Nat
            BY <4>1 DEF Row
          <5>2. r \in Row
            BY <4>1, <5>1 DEF Row, Status
          <5> QED BY <3>2, <4>1, <5>2 DEF Row, Claimed
        <4>2. outbox' = [outbox EXCEPT ![i] = r]
          BY <2>4, <3>2 DEF ClaimOne, i
        <4> QED BY <1>1, <3>1, <4>3, <4>2, OneRowMoves
      <3>3. CASE outbox[i].status # "pending"
        BY <1>2, <2>4, <3>3 DEF ClaimOne
      <3> QED BY <3>2, <3>3
    <2>5. CASE Ack(p)
      BY <1>1, <2>3, <2>5, AckMovesRow DEF Ack
    <2>6. CASE NackWrite(p)
      <3> DEFINE i == Head(puller[p].held).id
                 last == puller[p].pc = "nackMax"
                 r == [outbox[i] EXCEPT !.status =
                            IF last THEN "failed_max_retries" ELSE "pending"]
      <3>1. i \in DOMAIN outbox
        BY <2>1, <2>3, <2>6 DEF NackWrite, HeldShape
      <3>2. CASE outbox[i].status = "delivering" /\ outbox' # outbox
        <4>1. outbox[i] \in Row
          BY <1>1, <3>1
        <4> HIDE DEF i, last
        <4>3. r \in Row /\ Kept(outbox[i], r)
          BY <3>2, <4>1 DEF Row, Status, Kept
        <4>2. outbox' = [outbox EXCEPT ![i] = r]
          BY <2>6, <3>2 DEF NackWrite, i, last
        <4> QED BY <1>1, <3>1, <4>3, <4>2, OneRowMoves
      <3>3. CASE ~(outbox[i].status = "delivering" /\ outbox' # outbox)
        BY <1>2, <2>6, <3>3 DEF NackWrite
      <3> QED BY <3>2, <3>3
    <2>7. CASE Pull(p) \/ Refetch(p) \/ WriteOut(p) \/ PullDone(p) \/ NackRead(p)
               \/ DeliveryFault(p)
      BY <1>2, <2>7 DEF Pull, Refetch, WriteOut, PullDone, NackRead, DeliveryFault,
                        AckTimesOut, PostFails, Abandon
    <2> QED BY <1>6, <2>4, <2>5, <2>6, <2>7 DEF DeliverStep
  <1>7. ASSUME NEW c \in lateAcks, LateAck(c) PROVE RowsMoved
    BY <1>1, <1>7, AckMovesRow DEF LateAck, OutboxShape, PullerShape, OutboxTyped
  <1>8. ASSUME outbox' = [i \in DOMAIN outbox |-> outbox'[i]],
               \A i \in DOMAIN outbox : outbox'[i] \in Row /\ Kept(outbox[i], outbox'[i])
        PROVE  RowsMoved
    BY <1>1, <1>8, MapRows DEF RowsMoved
  <1>9. CASE Reclaim
    BY <1>1, <1>8, <1>9 DEF Reclaim, Stuck, Kept, Row, Status
  <1>10. CASE FinalizeDigest
    BY <1>1, <1>8, <1>10 DEF FinalizeDigest, Queued, Kept, Row, Status
  <1>11. ASSUME NEW i \in DOMAIN outbox, Ages(i) PROVE RowsMoved
    BY <1>1, <1>8, <1>11 DEF Ages, Kept, Row
  <1>12. ASSUME NEW i \in DOMAIN outbox, Sticks(i) PROVE RowsMoved
    <2> DEFINE r == [outbox[i] EXCEPT !.stuck = TRUE]
    <2>1. r \in Row /\ Kept(outbox[i], r)
      BY <1>1 DEF Row, Kept
    <2>2. outbox' = [outbox EXCEPT ![i] = r]
      BY <1>12 DEF Sticks
    <2> QED BY <1>1, <2>1, <2>2, OneRowMoves
  <1>13. CASE Calm \/ Restart
    BY <1>2, <1>13 DEF Calm, Restart
  <1> QED BY <1>3, <1>4, <1>5, <1>6, <1>7, <1>9, <1>10, <1>11, <1>12, <1>13 DEF Moves

\* What a step does to the locals of a run of the script.
PullerSet(p, pc, todo, held) ==
    /\ \A q \in Puller : q # p => puller'[q] = puller[q]
    /\ puller'[p].pc = pc /\ puller'[p].todo = todo /\ puller'[p].held = held

PullerMove(p) ==
    LET o == puller[p] IN
    \/ /\ o.pc = "idle"
       /\ \E batch \in Oldest(Pullable) :
              PullerSet(p, "claim", batch, <<>>)
    \/ /\ o.pc = "claim" /\ o.todo # <<>> /\ outbox[Head(o.todo)].status = "pending"
       /\ outbox'[Head(o.todo)].attempts = outbox[Head(o.todo)].attempts + 1
       /\ PullerSet(p, "fetch", o.todo, o.held)
    \/ /\ o.pc = "claim" /\ o.todo # <<>> /\ outbox[Head(o.todo)].status # "pending"
       /\ PullerSet(p, "claim", Tail(o.todo), o.held)
    \/ /\ o.pc = "fetch"
       /\ UNCHANGED outbox
       /\ \E c \in Claim :
            /\ c.id = Head(o.todo) /\ c.told = outbox[c.id].told
            /\ c.attempt = outbox[c.id].attempts
            /\ PullerSet(p, "claim", Tail(o.todo), Append(o.held, c))
    \/ /\ o.pc = "claim" /\ o.todo = <<>>
       /\ \/ /\ PullerSet(p, "ack", o.todo, o.held)
             /\ \A k \in DOMAIN o.held :
                    o.held[k] \in printed'
          \/ PullerSet(p, "nack", o.todo, o.held)
    \/ /\ o.pc = "ack" /\ o.held # <<>>
       /\ PullerSet(p, "ack", o.todo, Tail(o.held))
    \/ /\ o.pc = "nack" /\ o.held # <<>>
       /\ \E pc \in {"nackMax", "nackRetry"} :
              PullerSet(p, pc, o.todo, o.held)
    \/ /\ o.pc \in {"nackMax", "nackRetry"}
       /\ PullerSet(p, "nack", o.todo, Tail(o.held))
    \/ PullerSet(p, "idle", <<>>, <<>>)

\* Each step of the script sets the locals of one run, and only those.
LEMMA PullerMoves ==
    ASSUME OutboxShape, NEW p \in Puller, DeliverStep(p) \/ DeliveryFault(p)
    PROVE  PullerMove(p)
  <1>1. PICK o \in [pc : PullerPc, todo : Seq(Nat), held : Seq(Claim)] : o = puller[p]
    BY DEF OutboxShape, OutboxTyped
  <1>2. ASSUME NEW pc, puller' = [puller EXCEPT ![p].pc = pc]
        PROVE  PullerSet(p, pc, o.todo, o.held)
    BY <1>1, <1>2 DEF OutboxShape, OutboxTyped, PullerSet
  <1>3. /\ puller \in [Puller -> [pc : PullerPc, todo : Seq(Nat), held : Seq(Claim)]]
        /\ outbox \in Seq(Row) /\ TodoShape(p) /\ HeldShape(p)
    BY DEF OutboxShape, OutboxTyped, PullerShape
  <1>4. CASE Pull(p)
    BY <1>3, <1>4 DEF Pull, PullerMove, PullerSet
  <1>5. CASE ClaimOne(p)
    <2> DEFINE i == Head(puller[p].todo)
    <2>1. i \in DOMAIN outbox
      BY <1>3, <1>5 DEF ClaimOne, TodoShape
    <2>2. CASE outbox[i].status = "pending"
      <3>1. PICK r \in Row : r = outbox[i]
        BY <1>3, <2>1
      <3>2. outbox'[i].attempts = outbox[i].attempts + 1
        <4>1. outbox' = [outbox EXCEPT ![i] =
                  [r EXCEPT !.status = "delivering", !.attempts = r.attempts + 1, !.stuck = FALSE]]
          BY <1>5, <2>2, <3>1 DEF ClaimOne
        <4> QED BY <2>1, <3>1, <4>1, <1>3 DEF Row
      <3>3. PullerSet(p, "fetch", o.todo, o.held)
        BY <1>1, <1>3, <1>5, <2>2 DEF ClaimOne, PullerSet
      <3> QED BY <1>1, <1>5, <2>2, <3>2, <3>3 DEF ClaimOne, PullerMove
    <2>3. CASE outbox[i].status # "pending"
      <3>1. PullerSet(p, "claim", Tail(o.todo), o.held)
        BY <1>1, <1>3, <1>5, <2>3 DEF ClaimOne, PullerSet
      <3> QED BY <1>1, <1>5, <2>3, <3>1 DEF ClaimOne, PullerMove
    <2> QED BY <2>2, <2>3
  <1>6. CASE Refetch(p)
    <2> DEFINE i == Head(puller[p].todo)
               c == [id |-> i, told |-> outbox[i].told, attempt |-> outbox[i].attempts]
    <2>1. i \in DOMAIN outbox /\ i \in Nat
      BY <1>3, <1>6, <1>1 DEF Refetch, TodoShape
    <2>2. outbox[i] \in Row
      BY <1>3, <2>1
    <2>3. c \in Claim
      BY <2>1, <2>2 DEF Claim, Row
    <2>4. puller' = [puller EXCEPT ![p].pc = "claim", ![p].todo = Tail(@),
                                   ![p].held = Append(@, c)] /\ UNCHANGED outbox
      BY <1>6 DEF Refetch
    <2> HIDE DEF c
    <2>5. PullerSet(p, "claim", Tail(o.todo), Append(o.held, c))
      BY <1>1, <1>3, <2>4 DEF PullerSet
    <2>6. c.id = Head(o.todo) /\ c.told = outbox[c.id].told /\ c.attempt = outbox[c.id].attempts
      BY <1>1 DEF c
    <2> QED BY <1>1, <1>6, <2>3, <2>4, <2>5, <2>6 DEF Refetch, PullerMove
  <1>7. CASE WriteOut(p)
    <2>1. PullerSet(p, "ack", o.todo, o.held)
      BY <1>2, <1>7 DEF WriteOut
    <2>2. \A k \in DOMAIN o.held : o.held[k] \in printed'
      BY <1>1, <1>7 DEF WriteOut
    <2> QED BY <1>1, <1>7, <2>1, <2>2 DEF WriteOut, Responded, PullerMove
  <1>8. CASE PostFails(p)
    <2>1. PullerSet(p, "nack", o.todo, o.held)
      BY <1>2, <1>8 DEF PostFails
    <2> QED BY <1>1, <1>8, <2>1 DEF PostFails, Responded, PullerMove
  <1>9. CASE Ack(p) \/ AckTimesOut(p)
    <2>1. PullerSet(p, "ack", o.todo, Tail(o.held))
      BY <1>1, <1>3, <1>9 DEF Ack, AckTimesOut, PullerSet
    <2> QED BY <1>1, <1>9, <2>1 DEF Ack, AckTimesOut, PullerMove
  <1>10. CASE PullDone(p) \/ Abandon(p)
    BY <1>3, <1>10 DEF PullDone, Abandon, PullerMove, PullerSet, IdlePuller
  <1>11. CASE NackRead(p)
    <2>1. CASE puller[p].held = <<>>
      BY <1>3, <1>11, <2>1 DEF NackRead, PullerMove, PullerSet, IdlePuller
    <2>2. CASE puller[p].held # <<>>
      <3>1. PICK pc \in {"nackMax", "nackRetry"} : puller' = [puller EXCEPT ![p] = [@ EXCEPT !.pc = pc]]
        BY <1>11, <2>2 DEF NackRead
      <3>2. PullerSet(p, pc, o.todo, o.held)
        BY <1>2, <3>1
      <3> QED BY <1>1, <1>11, <2>2, <3>2 DEF NackRead, PullerMove
    <2> QED BY <2>1, <2>2
  <1>12. CASE NackWrite(p)
    <2>1. PullerSet(p, "nack", o.todo, Tail(o.held))
      BY <1>1, <1>3, <1>12 DEF NackWrite, PullerSet
    <2> QED BY <1>1, <1>12, <2>1 DEF NackWrite, PullerMove
  <1> QED BY <1>4, <1>5, <1>6, <1>7, <1>8, <1>9, <1>10, <1>11, <1>12
          DEF DeliverStep, DeliveryFault

\* The batch of a pull: rows of the set, in order, and before each of them
\* every older one.
LEMMA OldestFirst ==
    ASSUME NEW rows \in SUBSET Nat, IsFiniteSet(rows), NEW q \in Oldest(rows)
    PROVE  /\ q \in Seq(Nat) /\ \A k \in DOMAIN q : q[k] \in rows
           /\ \A k, l \in DOMAIN q : k < l => q[k] < q[l]
           /\ \A k \in DOMAIN q, i \in rows :
                  i < q[k] => \E l \in DOMAIN q : l < k /\ q[l] = i
  <1> DEFINE before(i) == {j \in rows : j < i}
             batch == {i \in rows : Cardinality(before(i)) < PullLimit}
             n == Cardinality(batch)
  <1>1. IsFiniteSet(batch) /\ n \in Nat
    BY FS_Subset, FS_CardinalityType
  <1>2. q \in [1 .. n -> batch] /\ \A k, l \in 1 .. n : k < l => q[k] < q[l]
    BY DEF Oldest
  <1>3. DOMAIN q = 1 .. n /\ \A k \in 1 .. n : q[k] \in batch
    BY <1>2
  <1>8. batch \in SUBSET rows /\ \A i \in rows : i \in batch <=> Cardinality(before(i)) < PullLimit
    OBVIOUS
  <1> HIDE DEF batch, n
  <1>9. \A k \in 1 .. n : q[k] \in Nat /\ q[k] \in rows
    BY <1>3, <1>8
  <1>4. q \in Seq(Nat)
    <2>1. q \in [1 .. n -> Nat]
      BY <1>2, <1>9
    <2> QED BY <1>1, <2>1, SeqDef
  <1>5. \A i \in batch : \E l \in 1 .. n : q[l] = i
    <2>1. q \in Injection(1 .. n, batch)
      <3>1. \A k, l \in 1 .. n : q[k] = q[l] => k = l
        BY <1>1, <1>2, <1>9
      <3> QED BY <1>2, <3>1 DEF Injection, IsInjective
    <2>2. Cardinality(1 .. n) = n
      BY <1>1, FS_Interval
    <2>3. q \in Surjection(1 .. n, batch)
      BY <1>1, <2>1, <2>2, FS_Injection DEF n
    <2> QED BY <2>3 DEF Surjection
  <1>6. ASSUME NEW k \in 1 .. n, NEW i \in rows, i < q[k]
        PROVE  \E l \in 1 .. n : l < k /\ q[l] = i
    <2>1. before(i) \in SUBSET before(q[k]) /\ IsFiniteSet(before(q[k])) /\ IsFiniteSet(before(i))
      <3>1. before(i) \in SUBSET before(q[k])
        <4>1. \A j \in rows : j < i => j < q[k]
          BY <1>6, <1>9
        <4> QED BY <4>1
      <3>2. before(i) \in SUBSET rows /\ before(q[k]) \in SUBSET rows
        OBVIOUS
      <3> QED BY <3>1, <3>2, FS_Subset
    <2>2. /\ Cardinality(before(i)) <= Cardinality(before(q[k]))
          /\ Cardinality(before(i)) \in Nat /\ Cardinality(before(q[k])) \in Nat
      BY <2>1, FS_Subset, FS_CardinalityType
    <2>3. PullLimit \in Nat /\ Cardinality(before(q[k])) < PullLimit
      BY <1>3, <1>8, <1>9, OutboxAssumption
    <2>4. i \in batch
      BY <1>8, <2>2, <2>3
    <2>5. PICK l \in 1 .. n : q[l] = i
      BY <1>5, <2>4
    <2>6. l < k
      BY <1>1, <1>2, <1>6, <1>9, <2>5
    <2> QED BY <2>5, <2>6
  <1> QED BY <1>2, <1>3, <1>4, <1>6, <1>9

\* Rows are never removed, and keep their tier and category.
LEMMA RowsRemain ==
    ASSUME OutboxShape, RowsMoved
    PROVE  /\ DOMAIN outbox' = 1 .. Len(outbox') /\ DOMAIN outbox \subseteq DOMAIN outbox'
           /\ \A i \in DOMAIN outbox : /\ outbox[i] \in Row /\ outbox'[i] \in Row
                                       /\ outbox'[i].tier = outbox[i].tier
                                       /\ outbox'[i].category = outbox[i].category
                                       /\ outbox[i].attempts <= outbox'[i].attempts
  <1>1. /\ outbox \in Seq(Row) /\ outbox' \in Seq(Row)
        /\ DOMAIN outbox = 1 .. Len(outbox) /\ DOMAIN outbox' = 1 .. Len(outbox')
        /\ Len(outbox) \in Nat /\ Len(outbox') \in Nat /\ Len(outbox) <= Len(outbox')
    BY DEF OutboxShape, OutboxTyped, RowsMoved
  <1>2. DOMAIN outbox \subseteq DOMAIN outbox'
    BY <1>1
  <1>3. ASSUME NEW i \in DOMAIN outbox
        PROVE  /\ outbox[i] \in Row /\ outbox'[i] \in Row
               /\ outbox'[i].tier = outbox[i].tier
               /\ outbox'[i].category = outbox[i].category
               /\ outbox[i].attempts <= outbox'[i].attempts
    <2>1. outbox[i] \in Row /\ outbox'[i] \in Row
      BY <1>1, <1>2
    <2>2. outbox[i].attempts \in Nat
      BY <2>1 DEF Row
    <2> QED BY <2>1, <2>2 DEF RowsMoved, Kept, Claimed
  <1> QED BY <1>1, <1>2, <1>3

\* A step keeps what is known of the tasks that are sending.
LEMMA SenderStep ==
    ASSUME OutboxShape, Moves
    PROVE  /\ sender' \in [Sender -> [pc : SenderPc, tier : Tier \cup {NULL},
                              category : Category \cup {NULL},
                              event : Event \cup {NULL}, target : Nat \cup {NULL}]]
           /\ sent' \in Nat /\ SenderShape'
  <1> DEFINE S == [pc : SenderPc, tier : Tier \cup {NULL}, category : Category \cup {NULL},
                   event : Event \cup {NULL}, target : Nat \cup {NULL}]
  <1>1. RowsMoved
    BY RowsMove
  <1>2. /\ \A i \in DOMAIN outbox : i \in DOMAIN outbox' /\ outbox'[i].tier = outbox[i].tier
        /\ \A i \in DOMAIN outbox : i \in Nat
    BY <1>1, RowsRemain DEF OutboxShape, OutboxTyped
  <1>3. sender \in [Sender -> S] /\ sent \in Nat /\ SenderShape
    BY DEF OutboxShape, OutboxTyped
  <1>4. CASE UNCHANGED <<sender, sent>>
    BY <1>2, <1>3, <1>4 DEF SenderShape
  <1>5. IdleSender \in S
    BY DEF IdleSender, SenderPc
  <1>6. ASSUME NEW s \in Sender, NEW r \in S, sender' = [sender EXCEPT ![s] = r], sent' \in Nat,
               r.pc # "idle" => /\ r.tier \in Tier /\ r.category \in Category /\ r.event \in Event
                                /\ r.tier = "important" => s # SyncTask,
               r.pc = "collapse" => r.target \in DOMAIN outbox /\ outbox[r.target].tier = r.tier
        PROVE  sender' \in [Sender -> S] /\ sent' \in Nat /\ SenderShape'
    <2>1. sender' \in [Sender -> S] /\ sender'[s] = r
          /\ \A u \in Sender : u # s => sender'[u] = sender[u]
      BY <1>3, <1>6
    <2> QED BY <1>2, <1>3, <1>6, <2>1 DEF SenderShape
  <1>7. ASSUME NEW s \in Sender, SenderDone(s), sent' = sent
        PROVE  sender' \in [Sender -> S] /\ sent' \in Nat /\ SenderShape'
    <2>1. IdleSender.pc = "idle"
      BY DEF IdleSender
    <2> QED BY <1>3, <1>5, <1>6, <1>7, <2>1 DEF SenderDone
  <1>8. ASSUME NEW s \in Sender, NEW pc \in {"mute", "dedup", "insert"}, SenderGoto(s, pc),
               sender[s].pc # "idle", sent' = sent
        PROVE  sender' \in [Sender -> S] /\ sent' \in Nat /\ SenderShape'
    <2>1. PICK r \in S : r = [sender[s] EXCEPT !.pc = pc]
      BY <1>3 DEF SenderPc
    <2>2. /\ r.pc = pc /\ r.tier = sender[s].tier /\ r.category = sender[s].category
          /\ r.event = sender[s].event
      BY <1>3, <2>1
    <2>3. sender' = [sender EXCEPT ![s] = r]
      BY <1>8, <2>1 DEF SenderGoto
    <2> QED BY <1>3, <1>6, <1>8, <2>2, <2>3 DEF SenderShape
  <1>9. ASSUME NEW s \in Sender, Sending(s)
        PROVE  sender' \in [Sender -> S] /\ sent' \in Nat /\ SenderShape'
    <2>1. ASSUME NEW t \in Tier, NEW c \in Category, s = SyncTask => t = "urgent", Send(s, t, c)
          PROVE  sender' \in [Sender -> S] /\ sent' \in Nat /\ SenderShape'
      <3> DEFINE r == [pc |-> IF t = "urgent" THEN "mute" ELSE "posture",
                       tier |-> t, category |-> c, event |-> sent + 1, target |-> NULL]
      <3>1. sent + 1 \in Event
        BY <1>3, <2>1, OutboxAssumption DEF Send, Event
      <3>2. r \in S
        BY <3>1 DEF SenderPc
      <3>3. sender' = [sender EXCEPT ![s] = r] /\ sent' \in Nat
        BY <1>3, <2>1 DEF Send
      <3>4. /\ r.tier = t /\ r.category = c /\ r.event = sent + 1 /\ r.pc # "collapse"
            /\ t = "important" => s # SyncTask
        BY <2>1
      <3> HIDE DEF r
      <3> QED BY <1>6, <3>1, <3>2, <3>3, <3>4
    <2>2. CASE PostureCheck(s)
      BY <1>7, <1>8, <2>2 DEF PostureCheck
    <2>3. CASE MuteCheck(s)
      BY <1>7, <1>8, <2>3 DEF MuteCheck
    <2>4. CASE DedupCheck(s)
      <3>1. CASE SenderGoto(s, "insert")
        BY <1>8, <2>4, <3>1 DEF DedupCheck
      <3>2. ASSUME NEW latest \in Similar(sender[s].tier, sender[s].category),
                   sender' = [sender EXCEPT ![s].pc = "collapse", ![s].target = latest]
            PROVE  sender' \in [Sender -> S] /\ sent' \in Nat /\ SenderShape'
        <4>1. latest \in DOMAIN outbox /\ outbox[latest].tier = sender[s].tier
          BY DEF Similar
        <4>2. PICK r \in S : r = [sender[s] EXCEPT !.pc = "collapse", !.target = latest]
          BY <1>2, <1>3, <4>1 DEF SenderPc
        <4>3. /\ r.pc = "collapse" /\ r.tier = sender[s].tier /\ r.event = sender[s].event
              /\ r.category = sender[s].category /\ r.target = latest
          BY <1>3, <4>2
        <4>4. sender' = [sender EXCEPT ![s] = r]
          BY <3>2, <4>2
        <4> QED BY <1>3, <1>6, <2>4, <4>1, <4>3, <4>4 DEF SenderShape, DedupCheck
      <3> QED BY <2>4, <3>1, <3>2 DEF DedupCheck
    <2>5. CASE SenderFails(s)
      BY <1>7, <2>5 DEF SenderFails
    <2> QED BY <1>9, <2>1, <2>2, <2>3, <2>4, <2>5 DEF Sending
  <1>10. ASSUME NEW s \in Sender, Collapse(s) \/ Insert(s)
         PROVE  sender' \in [Sender -> S] /\ sent' \in Nat /\ SenderShape'
    BY <1>7, <1>8, <1>10 DEF Collapse, Insert
  <1>11. CASE Restart
    <2>1. \A s \in Sender : sender'[s].pc = "idle"
      BY <1>11 DEF Restart, IdleSender
    <2>2. sender' \in [Sender -> S] /\ sent' \in Nat
      BY <1>3, <1>5, <1>11 DEF Restart
    <2> QED BY <2>1, <2>2 DEF SenderShape
  <1>12. CASE \/ Calm \/ Reclaim \/ FinalizeDigest
              \/ \E p \in Puller : DeliverStep(p) \/ DeliveryFault(p)
              \/ \E c \in lateAcks : LateAck(c)
              \/ \E i \in DOMAIN outbox : Sticks(i) \/ Ages(i)
    <2>1. UNCHANGED <<sender, sent>>
      BY <1>12 DEF Calm, Reclaim, FinalizeDigest, DigestKeeps, LateAck, PullerKeeps,
                   Sticks, Ages, DeliverStep, DeliveryFault, Pull, ClaimOne, Refetch,
                   WriteOut, Ack, PullDone, NackRead, NackWrite, AckTimesOut, PostFails, Abandon
    <2> QED BY <1>4, <2>1
  <1> QED BY <1>9, <1>10, <1>11, <1>12 DEF Moves

\* A step of the script keeps the types of its locals and of the late acks.
LEMMA PullerTyped ==
    ASSUME OutboxShape, NEW p \in Puller, DeliverStep(p) \/ DeliveryFault(p)
    PROVE  /\ puller' \in [Puller -> [pc : PullerPc, todo : Seq(Nat), held : Seq(Claim)]]
           /\ lateAcks' \subseteq Claim
           /\ \A c \in lateAcks' : c \in lateAcks \/ (puller[p].held # <<>> /\ c = Head(puller[p].held))
  <1> DEFINE P == [pc : PullerPc, todo : Seq(Nat), held : Seq(Claim)]
  <1>1. /\ puller \in [Puller -> P] /\ lateAcks \subseteq Claim /\ outbox \in Seq(Row)
        /\ TodoShape(p) /\ HeldShape(p)
    BY DEF OutboxShape, OutboxTyped, PullerShape
  <1>2. puller[p].todo \in Seq(Nat) /\ puller[p].held \in Seq(Claim)
    BY <1>1
  <1>3. puller[p].todo # <<>> => Tail(puller[p].todo) \in Seq(Nat)
    BY <1>2
  <1>4. puller[p].held # <<>> => Tail(puller[p].held) \in Seq(Claim) /\ Head(puller[p].held) \in Claim
    BY <1>2
  <1>5. IdlePuller \in P
    BY DEF IdlePuller, PullerPc
  <1>6. CASE Pull(p)
    <2>1. PICK batch \in Oldest(Pullable) :
              puller' = [puller EXCEPT ![p] = [pc |-> "claim", todo |-> batch, held |-> <<>>]]
      BY <1>6 DEF Pull
    <2>2. Pullable \in SUBSET Nat /\ IsFiniteSet(Pullable)
      <3>1. Pullable \in SUBSET (1 .. Len(outbox)) /\ Len(outbox) \in Nat
        BY <1>1 DEF Pullable
      <3>2. IsFiniteSet(1 .. Len(outbox))
        BY <3>1, FS_Interval
      <3>3. IsFiniteSet(Pullable)
        BY <3>1, <3>2, FS_Subset
      <3> QED BY <3>1, <3>3
    <2>3. batch \in Seq(Nat)
      BY <2>1, <2>2, OldestFirst
    <2>4. [pc |-> "claim", todo |-> batch, held |-> <<>>] \in P
      BY <2>3 DEF PullerPc
    <2> QED BY <1>1, <1>6, <2>1, <2>4 DEF Pull
  <1>7. CASE ClaimOne(p)
    BY <1>1, <1>3, <1>7 DEF ClaimOne, PullerPc
  <1>8. CASE Refetch(p)
    <2>1. Head(puller[p].todo) \in DOMAIN outbox /\ puller[p].todo # <<>>
      BY <1>1, <1>2, <1>8 DEF Refetch, TodoShape
    <2>2. PICK c \in Claim : c = [id |-> Head(puller[p].todo),
                                  told |-> outbox[Head(puller[p].todo)].told,
                                  attempt |-> outbox[Head(puller[p].todo)].attempts]
      <3>1. PICK i \in DOMAIN outbox : i = Head(puller[p].todo)
        BY <2>1
      <3>2. outbox[i].told \in SUBSET Event /\ outbox[i].attempts \in Nat /\ i \in Nat
        <4>1. outbox[i] \in Row /\ i \in Nat
          BY <1>1
        <4> QED BY <4>1 DEF Row
      <3> QED BY <3>1, <3>2 DEF Claim
    <2>3. Append(puller[p].held, c) \in Seq(Claim)
      BY <1>2, <2>2
    <2> QED BY <1>1, <1>3, <1>8, <2>1, <2>2, <2>3 DEF Refetch, PullerPc
  <1>9. CASE WriteOut(p) \/ PostFails(p)
    BY <1>1, <1>9 DEF WriteOut, PostFails, PullerPc
  <1>10. CASE Ack(p) \/ AckTimesOut(p)
    <2>1. puller' = [puller EXCEPT ![p].held = Tail(@)] /\ puller[p].held # <<>>
      BY <1>10 DEF Ack, AckTimesOut
    <2>2. puller' \in [Puller -> P]
      BY <1>1, <1>4, <2>1
    <2> QED BY <1>1, <1>4, <1>10, <2>1, <2>2 DEF Ack, AckTimesOut
  <1>11. CASE PullDone(p) \/ Abandon(p)
    BY <1>1, <1>5, <1>11 DEF PullDone, Abandon
  <1>12. CASE NackRead(p)
    BY <1>1, <1>5, <1>12 DEF NackRead, PullerPc
  <1>13. CASE NackWrite(p)
    <2>1. puller[p].held # <<>>
      BY <1>1, <1>13 DEF NackWrite, HeldShape
    <2>2. puller' = [puller EXCEPT ![p].pc = "nack", ![p].held = Tail(@)]
      BY <1>13 DEF NackWrite
    <2>3. puller' \in [Puller -> P]
      BY <1>1, <1>4, <2>1, <2>2 DEF PullerPc
    <2> QED BY <1>1, <1>13, <2>3 DEF NackWrite
  <1> QED BY <1>6, <1>7, <1>8, <1>9, <1>10, <1>11, <1>12, <1>13 DEF DeliverStep, DeliveryFault

\* A step of the script keeps its lists ordered, disjoint and in the table.
LEMMA PullerShapeStep ==
    ASSUME OutboxShape, Moves, NEW p \in Puller, DeliverStep(p) \/ DeliveryFault(p)
    PROVE  TodoShape(p)' /\ HeldShape(p)'
  <1>1. RowsMoved /\ PullerMove(p)
    BY RowsMove, PullerMoves
  <1>2. /\ \A i \in DOMAIN outbox : i \in DOMAIN outbox' /\ outbox'[i].tier = outbox[i].tier
        /\ \A i \in DOMAIN outbox : i \in Nat
    BY <1>1, RowsRemain DEF OutboxShape, OutboxTyped
  <1>3. PICK o \in [pc : PullerPc, todo : Seq(Nat), held : Seq(Claim)] : o = puller[p]
    BY DEF OutboxShape, OutboxTyped
  <1>4. TodoShape(p) /\ HeldShape(p)
    BY DEF OutboxShape, PullerShape
  <1>5. ASSUME NEW pc, NEW todo, NEW held, PullerSet(p, pc, todo, held),
               \A k \in DOMAIN todo : todo[k] \in DOMAIN outbox /\ outbox[todo[k]].tier = "urgent",
               \A k, l \in DOMAIN todo : k < l => todo[k] < todo[l],
               pc = "fetch" => todo # <<>>, pc \notin {"claim", "fetch"} => todo = <<>>,
               \A k \in DOMAIN held : held[k].id \in DOMAIN outbox,
               \A k, l \in DOMAIN held : held[k].id = held[l].id => k = l,
               \A k \in DOMAIN held, l \in DOMAIN todo : held[k].id # todo[l],
               pc \in {"nackMax", "nackRetry"} => held # <<>>
        PROVE  TodoShape(p)' /\ HeldShape(p)'
    BY <1>2, <1>5 DEF PullerSet, TodoShape, HeldShape
  <1>6. ASSUME o.todo # <<>>
        PROVE  /\ DOMAIN Tail(o.todo) = 1 .. (Len(o.todo) - 1) /\ Len(o.todo) \in Nat
               /\ DOMAIN o.todo = 1 .. Len(o.todo)
               /\ \A k \in DOMAIN Tail(o.todo) : Tail(o.todo)[k] = o.todo[k + 1] /\ k + 1 \in DOMAIN o.todo
               /\ Head(o.todo) = o.todo[1] /\ 1 \in DOMAIN o.todo
    <2>1. o.todo \in Seq(Nat)
      OBVIOUS
    <2> QED BY <1>6, <2>1, HeadTailProperties
  <1>7. ASSUME o.held # <<>>
        PROVE  /\ DOMAIN Tail(o.held) = 1 .. (Len(o.held) - 1) /\ Len(o.held) \in Nat
               /\ DOMAIN o.held = 1 .. Len(o.held)
               /\ \A k \in DOMAIN Tail(o.held) : Tail(o.held)[k] = o.held[k + 1] /\ k + 1 \in DOMAIN o.held
               /\ Head(o.held) = o.held[1] /\ 1 \in DOMAIN o.held
    <2>1. o.held \in Seq(Claim)
      OBVIOUS
    <2> QED BY <1>7, <2>1, HeadTailProperties
  <1>8. /\ \A k \in DOMAIN o.todo : o.todo[k] \in DOMAIN outbox /\ outbox[o.todo[k]].tier = "urgent"
        /\ \A k, l \in DOMAIN o.todo : k < l => o.todo[k] < o.todo[l]
        /\ o.pc = "fetch" => o.todo # <<>>
        /\ o.pc \notin {"claim", "fetch"} => o.todo = <<>>
    BY <1>3, <1>4 DEF TodoShape
  <1>9. /\ \A k \in DOMAIN o.held : o.held[k].id \in DOMAIN outbox
        /\ \A k, l \in DOMAIN o.held : o.held[k].id = o.held[l].id => k = l
        /\ \A k \in DOMAIN o.held, l \in DOMAIN o.todo : o.held[k].id # o.todo[l]
        /\ o.pc \in {"nackMax", "nackRetry"} => o.held # <<>>
    BY <1>3, <1>4 DEF HeldShape
  <1>10. DOMAIN <<>> = {}
    OBVIOUS
  <1>11. ASSUME NEW batch \in Oldest(Pullable), PullerSet(p, "claim", batch, <<>>)
         PROVE  TodoShape(p)' /\ HeldShape(p)'
    <2>1. Pullable \in SUBSET Nat /\ IsFiniteSet(Pullable)
      <3>1. Pullable \in SUBSET (1 .. Len(outbox)) /\ Len(outbox) \in Nat
        BY DEF Pullable, OutboxShape, OutboxTyped
      <3>2. IsFiniteSet(1 .. Len(outbox))
        BY <3>1, FS_Interval
      <3>3. IsFiniteSet(Pullable)
        BY <3>1, <3>2, FS_Subset
      <3> QED BY <3>1, <3>3
    <2>2. /\ \A k \in DOMAIN batch : batch[k] \in Pullable
          /\ \A k, l \in DOMAIN batch : k < l => batch[k] < batch[l]
      BY <2>1, OldestFirst
    <2>3. \A i \in Pullable : i \in DOMAIN outbox /\ outbox[i].tier = "urgent"
      BY DEF Pullable
    <2> QED BY <1>5, <1>10, <1>11, <2>2, <2>3
  <1>12. ASSUME NEW pc \in {"fetch", "ack", "nack", "nackMax", "nackRetry"},
                PullerSet(p, pc, o.todo, o.held),
                pc = "fetch" => o.todo # <<>>, pc # "fetch" => o.todo = <<>>,
                pc \in {"nackMax", "nackRetry"} => o.held # <<>>
         PROVE  TodoShape(p)' /\ HeldShape(p)'
    BY <1>5, <1>8, <1>9, <1>12
  <1>13. ASSUME o.todo # <<>>, PullerSet(p, "claim", Tail(o.todo), o.held)
         PROVE  TodoShape(p)' /\ HeldShape(p)'
    <2>1. \A k, l \in DOMAIN Tail(o.todo) : k < l => Tail(o.todo)[k] < Tail(o.todo)[l]
      BY <1>6, <1>8, <1>13
    <2>2. \A k \in DOMAIN o.held, l \in DOMAIN Tail(o.todo) : o.held[k].id # Tail(o.todo)[l]
      BY <1>6, <1>9, <1>13
    <2>3. \A k \in DOMAIN Tail(o.todo) : /\ Tail(o.todo)[k] \in DOMAIN outbox
                                         /\ outbox[Tail(o.todo)[k]].tier = "urgent"
      BY <1>6, <1>8, <1>13
    <2> QED BY <1>5, <1>9, <1>13, <2>1, <2>2, <2>3
  <1>14. ASSUME NEW pc \in {"ack", "nack"}, o.pc \notin {"claim", "fetch"}, o.held # <<>>,
                PullerSet(p, pc, o.todo, Tail(o.held))
         PROVE  TodoShape(p)' /\ HeldShape(p)'
    <2>1. o.todo = <<>>
      BY <1>8, <1>14
    <2>2. \A k, l \in DOMAIN Tail(o.held) : Tail(o.held)[k].id = Tail(o.held)[l].id => k = l
      BY <1>7, <1>9, <1>14
    <2>3. \A k \in DOMAIN Tail(o.held) : Tail(o.held)[k].id \in DOMAIN outbox
      BY <1>7, <1>9, <1>14
    <2>4. \A k \in DOMAIN Tail(o.held), l \in DOMAIN o.todo : Tail(o.held)[k].id # o.todo[l]
      BY <1>10, <2>1
    <2> QED BY <1>5, <1>8, <1>14, <2>1, <2>2, <2>3, <2>4
  <1>15. ASSUME NEW c \in Claim, o.pc = "fetch", c.id = Head(o.todo),
                PullerSet(p, "claim", Tail(o.todo), Append(o.held, c))
         PROVE  TodoShape(p)' /\ HeldShape(p)'
    <2> DEFINE held == Append(o.held, c)
    <2>1. /\ DOMAIN held = 1 .. (Len(o.held) + 1) /\ DOMAIN o.held = 1 .. Len(o.held)
          /\ held[Len(o.held) + 1] = c /\ \A k \in DOMAIN o.held : held[k] = o.held[k]
          /\ Len(o.held) \in Nat
      <3>1. o.held \in Seq(Claim)
        OBVIOUS
      <3> QED BY <3>1, AppendProperties
    <2> HIDE DEF held
    <2>2. o.todo # <<>> /\ c.id = o.todo[1] /\ 1 \in DOMAIN o.todo
      BY <1>6, <1>8, <1>15
    <2>3. \A k \in DOMAIN o.held : o.held[k].id # c.id
      BY <1>9, <2>2
    <2>4. ASSUME NEW l \in DOMAIN Tail(o.todo) PROVE Tail(o.todo)[l] # c.id
      <3>1. Tail(o.todo)[l] = o.todo[l + 1] /\ l + 1 \in DOMAIN o.todo /\ 1 < l + 1
        BY <1>6, <1>15
      <3>2. o.todo[1] < o.todo[l + 1] /\ o.todo[1] \in Nat
        BY <1>8, <2>2, <3>1
      <3> QED BY <2>2, <3>1, <3>2
    <2>5. \A k \in DOMAIN held : \/ k \in DOMAIN o.held /\ held[k] = o.held[k]
                                 \/ k = Len(o.held) + 1 /\ held[k] = c
      BY <2>1
    <2>6. \A k, l \in DOMAIN held : held[k].id = held[l].id => k = l
      BY <1>9, <2>3, <2>5
    <2>7. \A k \in DOMAIN held, l \in DOMAIN Tail(o.todo) : held[k].id # Tail(o.todo)[l]
      <3>1. \A l \in DOMAIN Tail(o.todo) : \E m \in DOMAIN o.todo : Tail(o.todo)[l] = o.todo[m]
        BY <1>6, <2>2
      <3>2. \A k \in DOMAIN o.held, l \in DOMAIN Tail(o.todo) : o.held[k].id # Tail(o.todo)[l]
        BY <1>9, <3>1
      <3> QED BY <2>4, <2>5, <3>2
    <2>8. \A k \in DOMAIN held : held[k].id \in DOMAIN outbox
      BY <1>8, <1>9, <2>1, <2>2, <2>5
    <2>9. \A k, l \in DOMAIN Tail(o.todo) : k < l => Tail(o.todo)[k] < Tail(o.todo)[l]
      BY <1>6, <1>8, <2>2
    <2>10. \A k \in DOMAIN Tail(o.todo) : /\ Tail(o.todo)[k] \in DOMAIN outbox
                                         /\ outbox[Tail(o.todo)[k]].tier = "urgent"
      BY <1>6, <1>8, <2>2
    <2>11. PullerSet(p, "claim", Tail(o.todo), held)
      BY <1>15 DEF held
    <2> DEFINE rest == Tail(o.todo)
    <2>12. /\ PullerSet(p, "claim", rest, held)
           /\ \A k \in DOMAIN rest : rest[k] \in DOMAIN outbox /\ outbox[rest[k]].tier = "urgent"
           /\ \A k, l \in DOMAIN rest : k < l => rest[k] < rest[l]
           /\ \A k \in DOMAIN held, l \in DOMAIN rest : held[k].id # rest[l]
      BY <2>7, <2>9, <2>10, <2>11
    <2> HIDE DEF rest
    <2> QED BY <1>5, <2>6, <2>8, <2>12
  <1>16. ASSUME PullerSet(p, "idle", <<>>, <<>>)
         PROVE  TodoShape(p)' /\ HeldShape(p)'
    BY <1>5, <1>10, <1>16
  <1>17. PullerMove(p)
    BY <1>1
  <1> QED BY <1>3, <1>8, <1>9, <1>11, <1>12, <1>13, <1>14, <1>15, <1>16, <1>17 DEF PullerMove

\* Every step of the worker keeps the shape of the outbox and of its users.
LEMMA ShapeStep ==
    ASSUME OutboxShape, [WorkerNext]_allVars
    PROVE  OutboxShape'
  <1> DEFINE P == [pc : PullerPc, todo : Seq(Nat), held : Seq(Claim)]
  <1>1. Moves /\ RowsMoved
    BY WorkerMoves, RowsMove
  <1>2. /\ outbox' \in Seq(Row) /\ SenderShape' /\ sent' \in Nat
        /\ sender' \in [Sender -> [pc : SenderPc, tier : Tier \cup {NULL},
                              category : Category \cup {NULL},
                              event : Event \cup {NULL}, target : Nat \cup {NULL}]]
    BY <1>1, SenderStep DEF RowsMoved
  <1>3. \A i \in DOMAIN outbox : i \in DOMAIN outbox' /\ outbox'[i].tier = outbox[i].tier
    BY <1>1, RowsRemain
  <1>4. /\ puller \in [Puller -> P] /\ lateAcks \subseteq Claim
        /\ \A p \in Puller : TodoShape(p) /\ HeldShape(p)
        /\ \A c \in lateAcks : c.id \in DOMAIN outbox
    BY DEF OutboxShape, OutboxTyped, PullerShape
  <1>5. ASSUME NEW p \in Puller, puller'[p] = puller[p]
        PROVE  TodoShape(p)' /\ HeldShape(p)'
    <2>1. TodoShape(p)'
      BY <1>3, <1>4, <1>5 DEF TodoShape
    <2>2. HeldShape(p)'
      BY <1>3, <1>4, <1>5 DEF HeldShape
    <2> QED BY <2>1, <2>2
  <1>6. ASSUME NEW p \in Puller, puller'[p] = IdlePuller
        PROVE  TodoShape(p)' /\ HeldShape(p)'
    <2>1. puller'[p].pc = "idle" /\ puller'[p].todo = <<>> /\ puller'[p].held = <<>>
          /\ DOMAIN <<>> = {}
      BY <1>6 DEF IdlePuller
    <2> QED BY <2>1 DEF TodoShape, HeldShape
  <1>7. puller' \in [Puller -> P] /\ lateAcks' \subseteq Claim /\ PullerShape'
    <2>1. CASE UNCHANGED puller /\ lateAcks' \subseteq lateAcks
      BY <1>3, <1>4, <1>5, <2>1 DEF PullerShape
    <2>2. CASE Restart
      <3>1. /\ \A p \in Puller : puller'[p] \in {puller[p], IdlePuller}
            /\ lateAcks' = {}
        BY <2>2 DEF Restart
      <3>2. puller' \in [Puller -> P]
        <4>1. IdlePuller \in P
          BY DEF IdlePuller, PullerPc
        <4> QED BY <1>4, <2>2, <4>1 DEF Restart
      <3> QED BY <1>5, <1>6, <3>1, <3>2 DEF PullerShape
    <2>3. ASSUME NEW p \in Puller, DeliverStep(p) \/ DeliveryFault(p)
          PROVE  puller' \in [Puller -> P] /\ lateAcks' \subseteq Claim /\ PullerShape'
      <3>1. /\ puller' \in [Puller -> P] /\ lateAcks' \subseteq Claim
            /\ \A c \in lateAcks' :
                  c \in lateAcks \/ (puller[p].held # <<>> /\ c = Head(puller[p].held))
        BY <2>3, PullerTyped
      <3>2. \A q \in Puller : q # p => puller'[q] = puller[q]
        BY <2>3, PullerMoves DEF PullerMove, PullerSet
      <3>3. TodoShape(p)' /\ HeldShape(p)'
        BY <1>1, <2>3, PullerShapeStep
      <3>4. puller[p].held # <<>> => Head(puller[p].held).id \in DOMAIN outbox
        BY <1>4 DEF HeldShape
      <3>5. \A c \in lateAcks' : c.id \in DOMAIN outbox'
        BY <1>3, <1>4, <3>1, <3>4
      <3> QED BY <1>5, <3>1, <3>2, <3>3, <3>5 DEF PullerShape
    <2>4. CASE \/ Calm \/ Reclaim \/ FinalizeDigest
               \/ \E s \in Sender : Sending(s) \/ Collapse(s) \/ Insert(s)
               \/ \E c \in lateAcks : LateAck(c)
               \/ \E i \in DOMAIN outbox : Sticks(i) \/ Ages(i)
      BY <2>1, <2>4 DEF Calm, Reclaim, FinalizeDigest, DigestKeeps, LateAck, PullerKeeps,
               Sticks, Ages, Sending, Send, PostureCheck, MuteCheck, DedupCheck, SenderFails,
               Collapse, Insert, SenderKeeps
    <2> QED BY <1>1, <2>2, <2>3, <2>4 DEF Moves
  <1> QED BY <1>2, <1>7 DEF OutboxShape, OutboxTyped

\* The shape of the outbox and of its users, in every reachable state.
LEMMA OutboxInvariant == WorkerSpec => []OutboxShape
  <1>1. WorkerInit => OutboxShape
    <2> SUFFICES ASSUME WorkerInit PROVE OutboxShape
      OBVIOUS
    <2>1. /\ outbox = <<>> /\ sender = [s \in Sender |-> IdleSender] /\ lateAcks = {}
          /\ puller = [p \in Puller |-> IdlePuller] /\ sent = 0
      BY DEF WorkerInit, OutboxInit
    <2>2. \A s \in Sender : sender[s].pc = "idle"
      BY <2>1 DEF IdleSender
    <2>3. \A p \in Puller : /\ puller[p].pc = "idle" /\ puller[p].todo = <<>>
                            /\ puller[p].held = <<>> /\ DOMAIN <<>> = {}
      BY <2>1 DEF IdlePuller
    <2>4. OutboxTyped
      BY <2>1 DEF OutboxTyped, IdleSender, IdlePuller, SenderPc, PullerPc
    <2> QED BY <2>1, <2>2, <2>3, <2>4
            DEF OutboxShape, SenderShape, PullerShape, TodoShape, HeldShape
  <1> QED BY <1>1, ShapeStep, PTL DEF WorkerSpec

\* A claimed row does not wait, unless the sweep took it back.
HoldInv ==
    /\ \A p \in Puller : \A i \in HeldBy(p) :
            i \in reclaimed \/ outbox[i].status # "pending"
    /\ OneDeliverer

\* A row waits again by the sweep, or by the report of who holds it.
LEMMA WaitsAgain ==
    ASSUME OutboxShape, Moves, NEW i \in DOMAIN outbox,
           outbox[i].status # "pending", outbox'[i].status = "pending"
    PROVE  \/ i \in reclaimed'
           \/ \E p \in Puller : NackWrite(p) /\ i = Head(puller[p].held).id
  <1>1. outbox \in Seq(Row) /\ outbox[i] \in Row
    BY DEF OutboxShape, OutboxTyped
  <1>2. CASE Reclaim
    BY <1>1, <1>2 DEF Reclaim
  <1>3. CASE FinalizeDigest
    BY <1>1, <1>3 DEF FinalizeDigest, Row
  <1>4. ASSUME NEW s \in Sender, Sending(s) \/ Collapse(s) \/ Insert(s) PROVE FALSE
    <2>1. CASE Insert(s)
      BY <1>1, <2>1, AppendProperties DEF Insert
    <2>2. CASE Collapse(s)
      <3>1. outbox[i].status = outbox'[i].status \/ outbox[sender[s].target].status = "pending"
        BY <2>2 DEF Collapse
      <3> QED BY <1>1, <2>2, <3>1 DEF Collapse, Row
    <2> QED BY <1>4, <2>1, <2>2 DEF Sending, Send, PostureCheck, MuteCheck, DedupCheck, SenderFails
  <1>5. ASSUME NEW c, AckOk(c) PROVE FALSE
    BY <1>1, <1>5 DEF AckOk, Row
  <1>6. ASSUME NEW p \in Puller, DeliverStep(p) \/ DeliveryFault(p)
        PROVE  \E q \in Puller : NackWrite(q) /\ i = Head(puller[q].held).id
    <2>1. CASE ClaimOne(p)
      BY <1>1, <2>1 DEF ClaimOne, Row
    <2>2. CASE Ack(p)
      BY <1>5, <2>2 DEF Ack
    <2>3. CASE NackWrite(p)
      BY <1>1, <2>3 DEF NackWrite, Row
    <2> QED BY <1>6, <2>1, <2>2, <2>3
            DEF DeliverStep, DeliveryFault, Pull, Refetch, WriteOut, PullDone, NackRead,
                AckTimesOut, PostFails, Abandon
  <1>7. ASSUME NEW j \in DOMAIN outbox, Sticks(j) \/ Ages(j) PROVE FALSE
    BY <1>1, <1>7 DEF Sticks, Ages, Row
  <1> QED BY <1>2, <1>3, <1>4, <1>5, <1>6, <1>7 DEF Moves, Calm, LateAck, Restart

\* Only a claim adds to what a run holds, and a report takes its row away.
LEMMA HeldByStep ==
    ASSUME OutboxShape, NEW p \in Puller, PullerMove(p)
    PROVE  /\ \A q \in Puller : q # p => HeldBy(q)' = HeldBy(q)
           /\ \A i \in HeldBy(p)' :
                  \/ i \in HeldBy(p)
                  \/ /\ puller[p].pc = "claim" /\ puller[p].todo # <<>>
                     /\ i = Head(puller[p].todo) /\ outbox[i].status = "pending"
                     /\ outbox'[i].attempts = outbox[i].attempts + 1
           /\ puller[p].pc \in {"nackMax", "nackRetry"} =>
                  Head(puller[p].held).id \notin HeldBy(p)'
  <1>1. PICK o \in [pc : PullerPc, todo : Seq(Nat), held : Seq(Claim)] : o = puller[p]
    BY DEF OutboxShape, OutboxTyped
  <1>2. TodoShape(p) /\ HeldShape(p)
    BY DEF OutboxShape, PullerShape
  <1>3. \A q \in Puller : q # p => HeldBy(q)' = HeldBy(q)
    <2>1. \A q \in Puller : q # p => puller'[q] = puller[q]
      BY DEF PullerMove, PullerSet
    <2> QED BY <2>1 DEF HeldBy
  <1>4. HeldBy(p) = {o.held[k].id : k \in DOMAIN o.held}
                        \cup (IF o.pc = "fetch" THEN {Head(o.todo)} ELSE {})
    BY <1>1 DEF HeldBy
  <1>5. ASSUME NEW pc, NEW todo, NEW held, PullerSet(p, pc, todo, held)
        PROVE  HeldBy(p)' = {held[k].id : k \in DOMAIN held}
                                \cup (IF pc = "fetch" THEN {Head(todo)} ELSE {})
    BY <1>5 DEF HeldBy, PullerSet
  <1>6. ASSUME o.held # <<>>
        PROVE  /\ \A k \in DOMAIN Tail(o.held) : /\ Tail(o.held)[k] = o.held[k + 1]
                                                 /\ k + 1 \in DOMAIN o.held /\ k + 1 # 1
               /\ Head(o.held) = o.held[1] /\ 1 \in DOMAIN o.held
    <2>1. o.held \in Seq(Claim)
      OBVIOUS
    <2> QED BY <1>6, <2>1, HeadTailProperties
  <1> DEFINE Won(i) == /\ o.pc = "claim" /\ o.todo # <<>>
                       /\ i = Head(o.todo) /\ outbox[i].status = "pending"
                       /\ outbox'[i].attempts = outbox[i].attempts + 1
             Goal == /\ \A i \in HeldBy(p)' : i \in HeldBy(p) \/ Won(i)
                     /\ o.pc \in {"nackMax", "nackRetry"} => Head(o.held).id \notin HeldBy(p)'
  <1>7. ASSUME NEW pc, NEW todo, PullerSet(p, pc, todo, o.held), pc # "fetch",
               o.pc \notin {"nackMax", "nackRetry"}
        PROVE  Goal
    BY <1>4, <1>5, <1>7
  <1>8. ASSUME o.pc = "claim", o.todo # <<>>, outbox[Head(o.todo)].status = "pending",
               outbox'[Head(o.todo)].attempts = outbox[Head(o.todo)].attempts + 1,
               PullerSet(p, "fetch", o.todo, o.held)
        PROVE  Goal
    BY <1>4, <1>5, <1>8
  <1>9. ASSUME NEW c \in Claim, o.pc = "fetch", c.id = Head(o.todo),
               PullerSet(p, "claim", Tail(o.todo), Append(o.held, c))
        PROVE  Goal
    <2> DEFINE held == Append(o.held, c)
    <2>1. \A k \in DOMAIN held : held[k] = c \/ (k \in DOMAIN o.held /\ held[k] = o.held[k])
      <3>1. o.held \in Seq(Claim)
        OBVIOUS
      <3> QED BY <3>1, AppendProperties
    <2> HIDE DEF held
    <2>3. PullerSet(p, "claim", Tail(o.todo), held)
      BY <1>9 DEF held
    <2>2. HeldBy(p)' = {held[k].id : k \in DOMAIN held}
      BY <1>5, <2>3
    <2> QED BY <1>4, <1>9, <2>1, <2>2
  <1>10. ASSUME NEW pc, o.held # <<>>, PullerSet(p, pc, o.todo, Tail(o.held)), pc # "fetch"
         PROVE  Goal
    <2> DEFINE rest == Tail(o.held)
    <2>3. /\ PullerSet(p, pc, o.todo, rest)
          /\ \A k \in DOMAIN rest : rest[k] = o.held[k + 1] /\ k + 1 \in DOMAIN o.held /\ k + 1 # 1
      BY <1>6, <1>10
    <2> HIDE DEF rest
    <2>1. HeldBy(p)' = {rest[k].id : k \in DOMAIN rest}
      BY <1>5, <1>10, <2>3
    <2>2. \A k, l \in DOMAIN o.held : o.held[k].id = o.held[l].id => k = l
      BY <1>1, <1>2 DEF HeldShape
    <2> QED BY <1>4, <1>6, <1>10, <2>1, <2>2, <2>3
  <1>11. ASSUME PullerSet(p, "idle", <<>>, <<>>) PROVE Goal
    <2>1. HeldBy(p)' = {} /\ DOMAIN <<>> = {}
      BY <1>5, <1>11
    <2> QED BY <2>1
  <1>12. o.pc \in {"nackMax", "nackRetry"} => o.held # <<>>
    BY <1>1, <1>2 DEF HeldShape
  <1>13. ASSUME NEW batch, o.pc = "idle", PullerSet(p, "claim", batch, <<>>) PROVE Goal
    <2>1. HeldBy(p)' = {} /\ DOMAIN <<>> = {}
      BY <1>5, <1>13
    <2> QED BY <1>13, <2>1
  <1>14. Goal
    <2> HIDE DEF Goal
    <2> QED BY <1>1, <1>7, <1>8, <1>9, <1>10, <1>11, <1>12, <1>13 DEF PullerMove
  <1> QED BY <1>1, <1>3, <1>14

\* Every step keeps what a run of the script holds out of the others' reach.
LEMMA HoldStep ==
    ASSUME OutboxShape, HoldInv, [WorkerNext]_allVars
    PROVE  HoldInv'
  <1>1. Moves /\ RowsMoved
    BY WorkerMoves, RowsMove
  <1>2. /\ \A p \in Puller : HeldBy(p) \subseteq DOMAIN outbox
        /\ \A p \in Puller : \A i \in HeldBy(p) : i \in reclaimed \/ outbox[i].status # "pending"
        /\ \A p, q \in Puller : p # q => HeldBy(p) \cap HeldBy(q) \subseteq reclaimed
    <2>1. ASSUME NEW p \in Puller PROVE HeldBy(p) \subseteq DOMAIN outbox
      <3>1. TodoShape(p) /\ HeldShape(p) /\ puller[p].todo \in Seq(Nat)
        BY DEF OutboxShape, OutboxTyped, PullerShape
      <3>2. puller[p].pc = "fetch" => Head(puller[p].todo) \in DOMAIN outbox
        BY <3>1 DEF TodoShape
      <3> QED BY <3>1, <3>2 DEF HeldBy, HeldShape
    <2> QED BY <2>1 DEF HoldInv, OneDeliverer
  <1>3. reclaimed \subseteq reclaimed'
    BY <1>1 DEF Moves, Calm, Sending, Send, PostureCheck, MuteCheck, DedupCheck, SenderFails,
                Collapse, Insert, SenderKeeps, DeliverStep, DeliveryFault, Pull, ClaimOne,
                Refetch, WriteOut, Ack, PullDone, NackRead, NackWrite, AckTimesOut, PostFails,
                Abandon, LateAck, PullerKeeps, Reclaim, FinalizeDigest, DigestKeeps, Restart,
                Sticks, Ages
  <1>4. ASSUME \A p \in Puller : HeldBy(p)' \subseteq HeldBy(p),
               \A p \in Puller : ~NackWrite(p)
        PROVE  HoldInv'
    <2>1. \A i \in DOMAIN outbox : outbox'[i].status = "pending" =>
              i \in reclaimed' \/ outbox[i].status = "pending"
      BY <1>1, <1>4, WaitsAgain
    <2> QED BY <1>2, <1>3, <1>4, <2>1 DEF HoldInv, OneDeliverer
  <1>5. ASSUME NEW p \in Puller, DeliverStep(p) \/ DeliveryFault(p)
        PROVE  HoldInv'
    <2>1. /\ PullerMove(p)
          /\ \A q \in Puller : q # p => HeldBy(q)' = HeldBy(q)
          /\ \A i \in HeldBy(p)' :
                \/ i \in HeldBy(p)
                \/ /\ puller[p].pc = "claim" /\ puller[p].todo # <<>>
                   /\ i = Head(puller[p].todo) /\ outbox[i].status = "pending"
                   /\ outbox'[i].attempts = outbox[i].attempts + 1
          /\ puller[p].pc \in {"nackMax", "nackRetry"} =>
                Head(puller[p].held).id \notin HeldBy(p)'
      BY <1>5, PullerMoves, HeldByStep
    <2>2. \A q \in Puller : NackWrite(q) => q = p
      <3>1. ASSUME NEW q \in Puller, NackWrite(q) PROVE puller'[q] # puller[q]
        BY <3>1 DEF NackWrite, OutboxShape, OutboxTyped
      <3> QED BY <2>1, <3>1 DEF PullerMove, PullerSet
    <2>3. \A i \in DOMAIN outbox : outbox'[i].status = "pending" =>
              \/ i \in reclaimed' \/ outbox[i].status = "pending"
              \/ NackWrite(p) /\ i = Head(puller[p].held).id
      BY <1>1, <2>2, WaitsAgain
    <2>4. CASE NackWrite(p)
      <3> DEFINE n == Head(puller[p].held).id
      <3>1. puller[p].pc \in {"nackMax", "nackRetry"}
        BY <2>4 DEF NackWrite
      <3>2. n \in HeldBy(p)
        <4>1. puller[p].held \in Seq(Claim) /\ puller[p].held # <<>>
          BY <3>1 DEF OutboxShape, OutboxTyped, PullerShape, HeldShape
        <4>2. 1 \in DOMAIN puller[p].held /\ Head(puller[p].held) = puller[p].held[1]
          BY <4>1
        <4> QED BY <4>2 DEF HeldBy
      <3>3. HeldBy(p)' \subseteq HeldBy(p) \ {n}
        BY <2>1, <3>1
      <3>4. \A q \in Puller : n \in HeldBy(q)' => n \in reclaimed
        BY <1>2, <2>1, <3>2, <3>3
      <3> HIDE DEF n
      <3>5. \A i \in DOMAIN outbox : outbox'[i].status = "pending" =>
                i \in reclaimed' \/ outbox[i].status = "pending" \/ i = n
        BY <2>3 DEF n
      <3> QED BY <1>2, <1>3, <2>1, <3>3, <3>4, <3>5 DEF HoldInv, OneDeliverer
    <2>5. CASE ~NackWrite(p)
      <3>1. ASSUME NEW i \in DOMAIN outbox, outbox'[i].attempts = outbox[i].attempts + 1
            PROVE  outbox'[i].status # "pending"
        <4>1. outbox[i].attempts \in Nat
          <5>1. outbox[i] \in Row
            BY DEF OutboxShape, OutboxTyped
          <5> QED BY <5>1 DEF Row
        <4> QED BY <1>1, <3>1, <4>1 DEF RowsMoved, Kept, Claimed
      <3>2. puller[p].todo # <<>> => Head(puller[p].todo) \in DOMAIN outbox
        <4>1. puller[p].todo \in Seq(Nat) /\ TodoShape(p)
          BY DEF OutboxShape, OutboxTyped, PullerShape
        <4> QED BY <4>1 DEF TodoShape
      <3>3. \A q \in Puller : \A i \in HeldBy(q)' : i \in reclaimed' \/ outbox'[i].status # "pending"
        BY <1>2, <1>3, <2>1, <2>3, <2>5, <3>1, <3>2
      <3>4. \A q \in Puller : q # p => HeldBy(p)' \cap HeldBy(q) \subseteq reclaimed
        BY <1>2, <2>1
      <3> QED BY <1>2, <1>3, <2>1, <3>3, <3>4 DEF HoldInv, OneDeliverer
    <2> QED BY <2>4, <2>5
  <1>6. CASE Restart
    <2>1. \A p \in Puller : puller'[p] \in {puller[p], IdlePuller}
      BY <1>6 DEF Restart
    <2>2. ASSUME NEW p \in Puller PROVE HeldBy(p)' \subseteq HeldBy(p) /\ ~NackWrite(p)
      <3>1. CASE puller'[p] = puller[p]
        BY <3>1 DEF HeldBy, NackWrite, OutboxShape, OutboxTyped
      <3>2. CASE puller'[p] = IdlePuller
        <4>1. puller'[p].pc = "idle" /\ puller'[p].held = <<>> /\ DOMAIN <<>> = {}
          BY <3>2 DEF IdlePuller
        <4> QED BY <4>1 DEF HeldBy, NackWrite, OutboxShape, OutboxTyped
      <3> QED BY <2>1, <3>1, <3>2
    <2> QED BY <1>4, <2>2
  <1>7. CASE UNCHANGED puller
    <2>1. \A p \in Puller : HeldBy(p)' = HeldBy(p)
      BY <1>7 DEF HeldBy
    <2>2. \A p \in Puller : ~NackWrite(p)
      BY <1>7 DEF NackWrite, OutboxShape, OutboxTyped
    <2> QED BY <1>4, <2>1, <2>2
  <1>8. CASE \/ Calm \/ Reclaim \/ FinalizeDigest
             \/ \E s \in Sender : Sending(s) \/ Collapse(s) \/ Insert(s)
             \/ \E c \in lateAcks : LateAck(c)
             \/ \E i \in DOMAIN outbox : Sticks(i) \/ Ages(i)
    BY <1>7, <1>8 DEF Calm, Reclaim, FinalizeDigest, DigestKeeps, LateAck, PullerKeeps,
               Sticks, Ages, Sending, Send, PostureCheck, MuteCheck, DedupCheck, SenderFails,
               Collapse, Insert, SenderKeeps
  <1> QED BY <1>1, <1>5, <1>6, <1>8 DEF Moves

\* No two runs of the delivery script hold one row, for any number of runs,
\* batches and rows: a row claimed twice was taken back by the sweep between.
THEOREM RowsHaveOneDeliverer == WorkerSpec => []OneDeliverer
  <1>1. WorkerInit => HoldInv
    <2>1. WorkerInit => \A p \in Puller : HeldBy(p) = {}
      BY DEF WorkerInit, OutboxInit, IdlePuller, HeldBy
    <2> QED BY <2>1 DEF HoldInv, OneDeliverer
  <1>2. HoldInv => OneDeliverer
    BY DEF HoldInv
  <1> QED BY OutboxInvariant, HoldStep, <1>1, <1>2, PTL DEF WorkerSpec

\* What a run of the script, or a late call, has in hand: an attempt that was
\* made, told as the row is told for as long as it is the current one.
Answers(c) ==
    /\ c.attempt <= outbox[c.id].attempts
    /\ c.attempt = outbox[c.id].attempts /\ outbox[c.id].status = "delivering"
            => c.told = outbox[c.id].told

PrintedAs(c) == c \in printed

AckInv ==
    /\ \A p \in Puller : \A k \in DOMAIN puller[p].held :
            /\ Answers(puller[p].held[k])
            /\ puller[p].pc = "ack" => PrintedAs(puller[p].held[k])
    /\ \A c \in lateAcks : Answers(c) /\ PrintedAs(c)
    /\ AckedWasPrinted

\* Whatever happens to the row, an answer keeps its place.
LEMMA AnswersKept ==
    ASSUME OutboxShape, RowsMoved, NEW c \in Claim, c.id \in DOMAIN outbox, Answers(c)
    PROVE  Answers(c)'
  <1> DEFINE i == c.id
  <1>1. outbox[i] \in Row /\ outbox'[i] \in Row
    BY RowsRemain
  <1>2. c.attempt \in Nat /\ outbox[i].attempts \in Nat
    BY <1>1 DEF Claim, Row
  <1>3. CASE Kept(outbox[i], outbox'[i])
    <2>1. /\ outbox'[i].attempts = outbox[i].attempts
          /\ outbox'[i].status = "delivering" =>
                outbox[i].status = "delivering" /\ outbox'[i].told = outbox[i].told
      BY <1>3 DEF Kept
    <2> QED BY <2>1 DEF Answers
  <1>4. CASE Claimed(outbox[i], outbox'[i])
    BY <1>2, <1>4 DEF Claimed, Answers
  <1> QED BY <1>3, <1>4 DEF RowsMoved

\* An acknowledgement is for a message that was printed.
LEMMA AckIsRight ==
    ASSUME OutboxShape, NEW c \in Claim, c.id \in DOMAIN outbox, Answers(c), PrintedAs(c),
           AckOk(c), AckedWasPrinted, printed \subseteq printed'
    PROVE  AckedWasPrinted'
  <1>1. outbox \in Seq(Row) /\ \A i \in DOMAIN outbox : outbox[i] \in Row
    BY DEF OutboxShape, OutboxTyped
  <1>2. CASE outbox[c.id].status = "delivering"
    <2>1. /\ DOMAIN outbox' = DOMAIN outbox
          /\ \A i \in DOMAIN outbox : i # c.id => outbox'[i] = outbox[i]
          /\ outbox'[c.id].told = outbox[c.id].told
          /\ crossed \subseteq crossed'
          /\ outbox[c.id].attempts # c.attempt => c.id \in crossed'
      BY <1>1, <1>2 DEF AckOk, Row
    <2>2. \E m \in printed' : /\ m.id = c.id
                              /\ m.told = outbox'[c.id].told \/ c.id \in crossed'
      <3>1. c \in printed'
        BY DEF PrintedAs
      <3>2. c.told = outbox'[c.id].told \/ c.id \in crossed'
        BY <1>2, <2>1 DEF Answers
      <3> QED BY <3>1, <3>2
    <2>3. \A i \in DOMAIN outbox : i # c.id /\ outbox'[i].status = "ok" =>
              \E m \in printed' : m.id = i /\ (m.told = outbox'[i].told \/ i \in crossed')
      BY <2>1 DEF AckedWasPrinted
    <2> QED BY <2>1, <2>2, <2>3 DEF AckedWasPrinted
  <1>3. CASE outbox[c.id].status # "delivering"
    BY <1>3 DEF AckOk, AckedWasPrinted
  <1> QED BY <1>2, <1>3

\* A row becomes ok by an acknowledgement, and by nothing else.
LEMMA BecomesOk ==
    ASSUME OutboxShape, Moves, NEW i \in DOMAIN outbox', outbox'[i].status = "ok"
    PROVE  \/ \E p \in Puller : Ack(p)
           \/ \E c \in lateAcks : LateAck(c)
           \/ i \in DOMAIN outbox /\ outbox[i].status = "ok"
  <1> SUFFICES ASSUME ~(i \in DOMAIN outbox /\ outbox[i].status = "ok"),
                      \A p \in Puller : ~Ack(p), \A c \in lateAcks : ~LateAck(c)
               PROVE  FALSE
    OBVIOUS
  <1>1. outbox \in Seq(Row) /\ \A j \in DOMAIN outbox : outbox[j] \in Row
    BY DEF OutboxShape, OutboxTyped
  <1>2. CASE Reclaim
    BY <1>1, <1>2 DEF Reclaim, Row
  <1>3. CASE FinalizeDigest
    BY <1>1, <1>3 DEF FinalizeDigest, Row
  <1>4. ASSUME NEW s \in Sender, Insert(s) PROVE FALSE
    <2> DEFINE r == [tier |-> sender[s].tier, category |-> sender[s].category,
                     told |-> {sender[s].event}, status |-> "pending", attempts |-> 0,
                     stuck |-> FALSE, old |-> FALSE]
    <2>1. r \in Row /\ outbox' = Append(outbox, r) /\ r.status = "pending"
      BY <1>4 DEF OutboxShape, OutboxTyped, SenderShape, Insert, Row, Status
    <2> HIDE DEF r
    <2>2. outbox'[i] = r \/ (i \in DOMAIN outbox /\ outbox'[i] = outbox[i])
      BY <1>1, <2>1, AppendProperties
    <2> QED BY <2>1, <2>2
  <1>5. ASSUME NEW s \in Sender, Sending(s) \/ Collapse(s) PROVE FALSE
    <2>1. CASE Collapse(s)
      BY <1>1, <2>1 DEF Collapse, Row
    <2> QED BY <1>5, <2>1 DEF Sending, Send, PostureCheck, MuteCheck, DedupCheck, SenderFails
  <1>6. ASSUME NEW p \in Puller, DeliverStep(p) \/ DeliveryFault(p) PROVE FALSE
    <2>1. CASE ClaimOne(p)
      BY <1>1, <2>1 DEF ClaimOne, Row
    <2>2. CASE NackWrite(p)
      BY <1>1, <2>2 DEF NackWrite, Row
    <2> QED BY <1>6, <2>1, <2>2
            DEF DeliverStep, DeliveryFault, Pull, Refetch, WriteOut, PullDone, NackRead,
                AckTimesOut, PostFails, Abandon
  <1>7. ASSUME NEW j \in DOMAIN outbox, Sticks(j) \/ Ages(j) PROVE FALSE
    <2>1. DOMAIN outbox' = DOMAIN outbox
      BY <1>1, <1>7 DEF Sticks, Ages
    <2>2. CASE Sticks(j)
      BY <1>1, <2>1, <2>2 DEF Sticks, Row
    <2>3. CASE Ages(j)
      BY <1>1, <2>1, <2>3 DEF Ages, Row
    <2> QED BY <1>7, <2>2, <2>3
  <1> QED BY <1>2, <1>3, <1>4, <1>5, <1>6, <1>7 DEF Moves, Calm, Restart

\* Every step keeps each answer tied to the message that was printed.
LEMMA AckStep ==
    ASSUME OutboxShape, AckInv, [WorkerNext]_allVars
    PROVE  AckInv'
  <1>1. Moves /\ RowsMoved
    BY WorkerMoves, RowsMove
  <1>2. /\ \A p \in Puller : /\ puller[p].held \in Seq(Claim)
                             /\ \A k \in DOMAIN puller[p].held :
                                    /\ puller[p].held[k] \in Claim
                                    /\ puller[p].held[k].id \in DOMAIN outbox
        /\ \A c \in lateAcks : c \in Claim /\ c.id \in DOMAIN outbox
    BY DEF OutboxShape, OutboxTyped, PullerShape, HeldShape
  <1>3. printed \subseteq printed' /\ crossed \subseteq crossed'
    BY <1>1 DEF Moves, Calm, Sending, Send, PostureCheck, MuteCheck, DedupCheck, SenderFails,
                Collapse, Insert, SenderKeeps, DeliverStep, DeliveryFault, Pull, ClaimOne,
                Refetch, WriteOut, Ack, PullDone, NackRead, NackWrite, AckTimesOut, PostFails,
                Abandon, LateAck, PullerKeeps, Reclaim, FinalizeDigest, DigestKeeps, Restart,
                Sticks, Ages, AckOk
  <1>4. ASSUME NEW c \in Claim, c.id \in DOMAIN outbox
        PROVE  (Answers(c) => Answers(c)') /\ (PrintedAs(c) => PrintedAs(c)')
    BY <1>1, <1>3, <1>4, AnswersKept DEF PrintedAs
  <1>5. AckedWasPrinted'
    <2>1. CASE \E p \in Puller : Ack(p)
      <3>1. PICK p \in Puller : Ack(p)
        BY <2>1
      <3>2. PICK c \in Claim : c = Head(puller[p].held) /\ c = puller[p].held[1]
                               /\ 1 \in DOMAIN puller[p].held
        BY <1>2, <3>1 DEF Ack
      <3>3. c.id \in DOMAIN outbox /\ Answers(c) /\ PrintedAs(c) /\ AckOk(c)
        BY <1>2, <3>1, <3>2 DEF AckInv, Ack
      <3> QED BY <1>3, <3>3, AckIsRight DEF AckInv
    <2>2. CASE \E c \in lateAcks : LateAck(c)
      BY <1>2, <1>3, <2>2, AckIsRight DEF AckInv, LateAck
    <2>3. CASE ~(\E p \in Puller : Ack(p)) /\ ~(\E c \in lateAcks : LateAck(c))
      <3>1. ASSUME NEW i \in DOMAIN outbox', outbox'[i].status = "ok"
            PROVE  \E m \in printed' : m.id = i /\ (m.told = outbox'[i].told \/ i \in crossed')
        <4>1. i \in DOMAIN outbox /\ outbox[i].status = "ok"
          BY <1>1, <2>3, <3>1, BecomesOk
        <4>2. outbox'[i].told = outbox[i].told
          BY <1>1, <3>1, <4>1 DEF RowsMoved, Kept, Claimed
        <4> QED BY <1>3, <4>1, <4>2 DEF AckInv, AckedWasPrinted
      <3> QED BY <3>1 DEF AckedWasPrinted
    <2> QED BY <2>1, <2>2, <2>3
  <1> DEFINE Fine(p) == \A k \in DOMAIN puller[p].held :
                            /\ Answers(puller[p].held[k])
                            /\ puller[p].pc = "ack" => PrintedAs(puller[p].held[k])
  <1>6. ASSUME NEW p \in Puller, puller'[p] = puller[p] PROVE Fine(p)'
    BY <1>2, <1>4, <1>6 DEF AckInv
  <1>7. ASSUME NEW p \in Puller, DeliverStep(p) \/ DeliveryFault(p) PROVE Fine(p)'
    <2>1. PICK o \in [pc : PullerPc, todo : Seq(Nat), held : Seq(Claim)] : o = puller[p]
      BY DEF OutboxShape, OutboxTyped
    <2>2. \A k \in DOMAIN o.held : /\ o.held[k] \in Claim /\ o.held[k].id \in DOMAIN outbox
                                   /\ Answers(o.held[k])
                                   /\ o.pc = "ack" => PrintedAs(o.held[k])
      BY <1>2, <2>1 DEF AckInv
    <2>3. ASSUME NEW pc, NEW todo, NEW held, PullerSet(p, pc, todo, held),
                 \A k \in DOMAIN held : \E l \in DOMAIN o.held : held[k] = o.held[l],
                 \/ pc # "ack" \/ o.pc = "ack"
                 \/ \A k \in DOMAIN o.held :
                        o.held[k] \in printed'
          PROVE  Fine(p)'
      <3>5. puller'[p].pc = pc /\ puller'[p].held = held
        BY <2>3 DEF PullerSet
      <3> SUFFICES ASSUME NEW k \in DOMAIN held
                   PROVE  Answers(held[k])' /\ (pc = "ack" => PrintedAs(held[k])')
        BY <3>5
      <3>1. PICK l \in DOMAIN o.held : held[k] = o.held[l]
        BY <2>3
      <3>2. PICK c \in Claim : c = o.held[l] /\ c.id \in DOMAIN outbox
        BY <2>2
      <3>3. Answers(c)' /\ (PrintedAs(c) => PrintedAs(c)')
        BY <1>4, <2>2, <3>2
      <3>4. pc = "ack" => PrintedAs(c)'
        BY <2>2, <2>3, <3>2, <3>3 DEF PrintedAs
      <3> QED BY <3>1, <3>2, <3>3, <3>4
    <2>4. ASSUME o.held # <<>>
          PROVE  \A k \in DOMAIN Tail(o.held) : \E l \in DOMAIN o.held : Tail(o.held)[k] = o.held[l]
      <3>1. o.held \in Seq(Claim)
        OBVIOUS
      <3>2. \A k \in DOMAIN Tail(o.held) : k + 1 \in DOMAIN o.held /\ Tail(o.held)[k] = o.held[k + 1]
        BY <2>4, <3>1, HeadTailProperties
      <3> QED BY <3>2
    <2>5. o.pc \in {"nackMax", "nackRetry"} => o.held # <<>>
      BY <2>1 DEF OutboxShape, PullerShape, HeldShape
    <2>6. ASSUME NEW c \in Claim, UNCHANGED outbox, c.id \in DOMAIN outbox,
                 c.told = outbox[c.id].told, c.attempt = outbox[c.id].attempts,
                 PullerSet(p, "claim", Tail(o.todo), Append(o.held, c))
          PROVE  Fine(p)'
      <3> DEFINE held == Append(o.held, c)
      <3>1. \A k \in DOMAIN held : held[k] = c \/ (\E l \in DOMAIN o.held : held[k] = o.held[l])
        <4>1. o.held \in Seq(Claim)
          OBVIOUS
        <4> QED BY <4>1, AppendProperties
      <3> HIDE DEF held
      <3>2. puller'[p].pc = "claim" /\ puller'[p].held = held
        BY <2>6 DEF PullerSet, held
      <3>3. Answers(c)'
        <4>1. c.attempt \in Nat
          BY DEF Claim
        <4> QED BY <2>6, <4>1 DEF Answers
      <3>4. \A l \in DOMAIN o.held : Answers(o.held[l])'
        BY <1>4, <2>2
      <3> QED BY <3>1, <3>2, <3>3, <3>4
    <2>7. o.pc = "fetch" => Head(o.todo) \in DOMAIN outbox
      <3>1. TodoShape(p) /\ puller[p].todo \in Seq(Nat)
        BY DEF OutboxShape, OutboxTyped, PullerShape
      <3> QED BY <2>1, <3>1 DEF TodoShape
    <2>8. DOMAIN <<>> = {}
      OBVIOUS
    <2>9. PullerMove(p)
      BY <1>7, PullerMoves
    <2> HIDE DEF Fine
    <2>10. ASSUME NEW pc, NEW todo, PullerSet(p, pc, todo, <<>>) PROVE Fine(p)'
      <3>1. puller'[p].held = <<>>
        BY <2>10 DEF PullerSet
      <3> QED BY <2>8, <3>1 DEF Fine
    <2>11. ASSUME NEW pc, NEW todo, PullerSet(p, pc, todo, o.held),
                  \/ pc # "ack" \/ o.pc = "ack"
                  \/ \A k \in DOMAIN o.held :
                        o.held[k] \in printed'
           PROVE  Fine(p)'
      BY <2>3, <2>11
    <2>12. ASSUME NEW pc, PullerSet(p, pc, o.todo, Tail(o.held)), o.held # <<>>,
                  pc # "ack" \/ o.pc = "ack"
           PROVE  Fine(p)'
      <3> DEFINE rest == Tail(o.held)
      <3>1. /\ PullerSet(p, pc, o.todo, rest)
            /\ \A k \in DOMAIN rest : \E l \in DOMAIN o.held : rest[k] = o.held[l]
        BY <2>4, <2>12
      <3> HIDE DEF rest
      <3> QED BY <2>3, <2>12, <3>1
    <2> QED BY <2>1, <2>5, <2>6, <2>7, <2>9, <2>10, <2>11, <2>12 DEF PullerMove
  <1>8. ASSUME NEW p \in Puller, puller'[p] = IdlePuller PROVE Fine(p)'
    <2>1. puller'[p].held = <<>> /\ DOMAIN <<>> = {}
      BY <1>8 DEF IdlePuller
    <2> QED BY <2>1
  <1>9. \A p \in Puller : Fine(p)'
    <2> HIDE DEF Fine
    <2>1. CASE UNCHANGED puller
      BY <1>6, <2>1
    <2>2. CASE \E p \in Puller : DeliverStep(p) \/ DeliveryFault(p)
      <3>1. PICK p \in Puller : DeliverStep(p) \/ DeliveryFault(p)
        BY <2>2
      <3>2. \A q \in Puller : q # p => puller'[q] = puller[q]
        BY <3>1, PullerMoves DEF PullerMove, PullerSet
      <3> QED BY <1>6, <1>7, <3>1, <3>2
    <2>3. CASE Restart
      BY <1>6, <1>8, <2>3 DEF Restart
    <2> QED BY <1>1, <2>1, <2>2, <2>3 DEF Moves, Calm, Reclaim, FinalizeDigest, DigestKeeps,
               LateAck, PullerKeeps, Sticks, Ages, Sending, Send, PostureCheck, MuteCheck,
               DedupCheck, SenderFails, Collapse, Insert, SenderKeeps
  <1>10. ASSUME NEW c \in lateAcks' PROVE Answers(c)' /\ PrintedAs(c)'
    <2>1. CASE c \in lateAcks
      BY <1>2, <1>4, <2>1 DEF AckInv
    <2>2. CASE c \notin lateAcks
      <3>1. PICK p \in Puller : AckTimesOut(p) /\ c = Head(puller[p].held)
        BY <1>1, <2>2 DEF Moves, Calm, Reclaim, FinalizeDigest, DigestKeeps,
               LateAck, PullerKeeps, Sticks, Ages, Sending, Send, PostureCheck, MuteCheck,
               DedupCheck, SenderFails, Collapse, Insert, SenderKeeps, DeliverStep, DeliveryFault,
               Pull, ClaimOne, Refetch, WriteOut, Ack, PullDone, NackRead, NackWrite,
               AckTimesOut, PostFails, Abandon, Restart
      <3>2. 1 \in DOMAIN puller[p].held /\ c = puller[p].held[1] /\ puller[p].pc = "ack"
        BY <1>2, <3>1 DEF AckTimesOut
      <3>3. c \in Claim /\ c.id \in DOMAIN outbox
        BY <1>2, <3>2
      <3> QED BY <1>4, <3>2, <3>3 DEF AckInv
    <2> QED BY <2>1, <2>2
  <1> QED BY <1>5, <1>9, <1>10 DEF AckInv

\* A row acknowledged as delivered was printed with the message it holds, unless
\* an acknowledgement crossed claims: through lost, late and repeated answers.
THEOREM AcksArePrinted == WorkerSpec => []AckedWasPrinted
  <1>1. WorkerInit => AckInv
    <2>1. WorkerInit => \A p \in Puller : puller[p].held = <<>> /\ DOMAIN <<>> = {}
      BY DEF WorkerInit, OutboxInit, IdlePuller
    <2>2. WorkerInit => lateAcks = {} /\ outbox = <<>> /\ DOMAIN <<>> = {}
      BY DEF WorkerInit, OutboxInit
    <2> QED BY <2>1, <2>2 DEF AckInv, AckedWasPrinted
  <1>2. AckInv => AckedWasPrinted
    BY DEF AckInv
  <1> QED BY OutboxInvariant, AckStep, <1>1, <1>2, PTL DEF WorkerSpec

\* A row that was never pulled.  Rows are pulled oldest first and finalised
\* together, so those of one tier are the last ones; a pull has on its list
\* every such row older than one of its own.
Virgin(i) == outbox[i].status = "pending" /\ outbox[i].attempts = 0

Covered(todo) ==
    \A k \in DOMAIN todo, i \in DOMAIN outbox :
        outbox[i].tier = "urgent" /\ Virgin(i) /\ i < todo[k]
            => \E l \in DOMAIN todo : l < k /\ todo[l] = i

OrderInv ==
    /\ \A i, j \in DOMAIN outbox :
            i < j /\ outbox[i].tier = outbox[j].tier /\ Virgin(i) => Virgin(j)
    /\ \A i \in DOMAIN outbox : outbox[i].status = "delivering" => outbox[i].attempts > 0
    /\ \A p \in Puller :
            /\ puller[p].pc = "fetch" => outbox[Head(puller[p].todo)].attempts > 0
            /\ Covered(puller[p].todo)

\* What may happen to the age and the pulls of a row.
LEMMA VirginStep ==
    ASSUME OutboxShape, Moves
    PROVE  /\ \A i \in DOMAIN outbox : Virgin(i) /\ ~Virgin(i)' =>
                  \/ FinalizeDigest
                  \/ \E p \in Puller : ClaimOne(p) /\ i = Head(puller[p].todo)
           /\ \A i \in DOMAIN outbox' : i \notin DOMAIN outbox =>
                  /\ Virgin(i)' /\ i = Len(outbox) + 1
                  /\ \E s \in Sender : Insert(s)
  <1>1. outbox \in Seq(Row) /\ \A i \in DOMAIN outbox : outbox[i] \in Row
    BY DEF OutboxShape, OutboxTyped
  <1> DEFINE Goal == /\ \A i \in DOMAIN outbox : Virgin(i) => Virgin(i)'
                     /\ DOMAIN outbox' = DOMAIN outbox
  <1>2. CASE Reclaim
    <2>1. Goal
      BY <1>1, <1>2 DEF Reclaim, Stuck, Virgin, Row
    <2> QED BY <2>1
  <1>3. CASE FinalizeDigest
    <2>1. DOMAIN outbox' = DOMAIN outbox
      BY <1>1, <1>3 DEF FinalizeDigest
    <2> QED BY <1>3, <2>1
  <1>4. ASSUME NEW s \in Sender, Insert(s)
        PROVE  /\ \A i \in DOMAIN outbox : Virgin(i) => Virgin(i)'
               /\ \A i \in DOMAIN outbox' : i \notin DOMAIN outbox =>
                        Virgin(i)' /\ i = Len(outbox) + 1
    <2> DEFINE r == [tier |-> sender[s].tier, category |-> sender[s].category,
                     told |-> {sender[s].event}, status |-> "pending", attempts |-> 0,
                     stuck |-> FALSE, old |-> FALSE]
    <2>1. r \in Row /\ outbox' = Append(outbox, r) /\ r.status = "pending" /\ r.attempts = 0
      BY <1>4 DEF OutboxShape, OutboxTyped, SenderShape, Insert, Row, Status
    <2> HIDE DEF r
    <2>2. /\ \A i \in DOMAIN outbox : outbox'[i] = outbox[i]
          /\ \A i \in DOMAIN outbox' : i \notin DOMAIN outbox =>
                    outbox'[i] = r /\ i = Len(outbox) + 1
      BY <1>1, <2>1, AppendProperties
    <2> QED BY <2>1, <2>2 DEF Virgin
  <1>5. ASSUME NEW s \in Sender, Sending(s) \/ Collapse(s) PROVE Goal
    <2>1. CASE Collapse(s)
      <3>1. \/ UNCHANGED outbox
            \/ outbox' = [outbox EXCEPT ![sender[s].target].told = @ \cup {sender[s].event}]
        BY <2>1 DEF Collapse
      <3>2. DOMAIN outbox' = DOMAIN outbox
        BY <3>1
      <3>3. \A i \in DOMAIN outbox : /\ outbox'[i].status = outbox[i].status
                                     /\ outbox'[i].attempts = outbox[i].attempts
        BY <1>1, <3>1 DEF Row
      <3> QED BY <3>2, <3>3 DEF Virgin
    <2> QED BY <1>5, <2>1 DEF Sending, Send, PostureCheck, MuteCheck, DedupCheck, SenderFails,
                              Virgin
  <1>6. ASSUME NEW c, AckOk(c) PROVE Goal
    BY <1>1, <1>6 DEF AckOk, Row, Virgin
  <1>7. ASSUME NEW p \in Puller, ClaimOne(p)
        PROVE  /\ \A i \in DOMAIN outbox : i # Head(puller[p].todo) /\ Virgin(i) => Virgin(i)'
               /\ DOMAIN outbox' = DOMAIN outbox
    BY <1>1, <1>7 DEF ClaimOne, Row, Virgin
  <1>8. ASSUME NEW p \in Puller, DeliverStep(p) \/ DeliveryFault(p), ~ClaimOne(p) PROVE Goal
    <2>1. CASE Ack(p)
      BY <1>6, <2>1 DEF Ack
    <2>2. CASE NackWrite(p)
      BY <1>1, <2>2 DEF NackWrite, Row, Virgin
    <2> QED BY <1>8, <2>1, <2>2
            DEF DeliverStep, DeliveryFault, Pull, Refetch, WriteOut, PullDone, NackRead,
                AckTimesOut, PostFails, Abandon, Virgin
  <1>9. ASSUME NEW j \in DOMAIN outbox, Sticks(j) \/ Ages(j) PROVE Goal
    <2>1. DOMAIN outbox' = DOMAIN outbox
      BY <1>1, <1>9 DEF Sticks, Ages
    <2>2. CASE Sticks(j)
      BY <1>1, <2>1, <2>2 DEF Sticks, Row, Virgin
    <2>3. CASE Ages(j)
      BY <1>1, <2>1, <2>3 DEF Ages, Row, Virgin
    <2> QED BY <1>9, <2>2, <2>3
  <1>10. CASE Calm \/ Restart
    BY <1>10 DEF Calm, Restart, Virgin
  <1> QED BY <1>2, <1>3, <1>4, <1>5, <1>6, <1>7, <1>8, <1>9, <1>10 DEF Moves, LateAck

\* Every step keeps the never-pulled rows of a tier the last ones.
LEMMA OrderStep ==
    ASSUME OutboxShape, OrderInv, [WorkerNext]_allVars
    PROVE  OrderInv'
  <1>1. Moves /\ RowsMoved
    BY WorkerMoves, RowsMove
  <1>2. /\ outbox \in Seq(Row) /\ outbox' \in Seq(Row)
        /\ DOMAIN outbox = 1 .. Len(outbox) /\ DOMAIN outbox' = 1 .. Len(outbox')
        /\ Len(outbox) \in Nat /\ Len(outbox') \in Nat /\ DOMAIN outbox \subseteq DOMAIN outbox'
        /\ \A i \in DOMAIN outbox : /\ outbox[i] \in Row /\ outbox'[i] \in Row
                                    /\ outbox'[i].tier = outbox[i].tier
                                    /\ outbox[i].attempts \in Nat /\ outbox'[i].attempts \in Nat
                                    /\ outbox[i].attempts <= outbox'[i].attempts
    <2>1. /\ outbox \in Seq(Row) /\ outbox' \in Seq(Row)
      BY <1>1 DEF OutboxShape, OutboxTyped, RowsMoved
    <2>2. \A r \in Row : r.attempts \in Nat
      BY DEF Row
    <2> QED BY <1>1, <2>1, <2>2, RowsRemain
  <1>3. \A i \in DOMAIN outbox : outbox'[i].status = "delivering" => outbox'[i].attempts > 0
    <2> SUFFICES ASSUME NEW i \in DOMAIN outbox, outbox'[i].status = "delivering"
                 PROVE  outbox'[i].attempts > 0
      OBVIOUS
    <2>1. CASE Kept(outbox[i], outbox'[i])
      BY <1>2, <2>1 DEF Kept, OrderInv
    <2>2. CASE Claimed(outbox[i], outbox'[i])
      BY <1>2, <2>2 DEF Claimed
    <2> QED BY <1>1, <2>1, <2>2 DEF RowsMoved
  \* Nobody becomes a row that was never pulled.
  <1>4. \A i \in DOMAIN outbox : Virgin(i)' => Virgin(i)
    <2> SUFFICES ASSUME NEW i \in DOMAIN outbox, Virgin(i)' PROVE Virgin(i)
      OBVIOUS
    <2>1. ~Claimed(outbox[i], outbox'[i])
      BY DEF Claimed, Virgin
    <2>2. Kept(outbox[i], outbox'[i])
      BY <1>1, <2>1 DEF RowsMoved
    <2>3. outbox[i].attempts = 0 /\ outbox[i].status # "delivering"
      BY <1>2, <2>2 DEF Kept, Virgin, OrderInv
    <2> QED BY <2>2, <2>3 DEF Kept, Virgin
  <1>5. /\ \A i \in DOMAIN outbox : Virgin(i) /\ ~Virgin(i)' =>
                  \/ FinalizeDigest
                  \/ \E p \in Puller : ClaimOne(p) /\ i = Head(puller[p].todo)
        /\ \A i \in DOMAIN outbox' : i \notin DOMAIN outbox =>
                  Virgin(i)' /\ i = Len(outbox) + 1
    BY <1>1, VirginStep
  <1>6. \A p \in Puller : /\ puller[p].todo \in Seq(Nat) /\ TodoShape(p)
                          /\ puller[p].todo # <<>> =>
                                /\ 1 \in DOMAIN puller[p].todo
                                /\ Head(puller[p].todo) = puller[p].todo[1]
                          /\ \A k \in DOMAIN puller[p].todo : k \in Nat /\ k >= 1
    BY DEF OutboxShape, OutboxTyped, PullerShape
  <1>7. ASSUME NEW i \in DOMAIN outbox', NEW j \in DOMAIN outbox', i < j,
               outbox'[i].tier = outbox'[j].tier, Virgin(i)'
        PROVE  Virgin(j)'
    <2>1. CASE j \notin DOMAIN outbox
      BY <1>5, <2>1
    <2>2. CASE j \in DOMAIN outbox
      <3>1. i \in DOMAIN outbox
        BY <1>2, <1>7, <2>2
      <3>2. Virgin(i) /\ Virgin(j) /\ outbox[i].tier = outbox[j].tier
        BY <1>2, <1>4, <1>7, <2>2, <3>1 DEF OrderInv
      <3>3. ASSUME NEW p \in Puller, ClaimOne(p), j = Head(puller[p].todo) PROVE FALSE
        <4>1. 1 \in DOMAIN puller[p].todo /\ puller[p].todo[1] = j /\ outbox[j].tier = "urgent"
          BY <1>6, <3>3 DEF ClaimOne, TodoShape
        <4>2. PICK l \in DOMAIN puller[p].todo : l < 1
          BY <1>7, <3>1, <3>2, <4>1 DEF OrderInv, Covered
        <4> QED BY <1>6, <4>2
      <3>4. ASSUME FinalizeDigest, ~Virgin(j)' PROVE FALSE
        <4>1. \A k \in DOMAIN outbox : Virgin(k)' <=> Virgin(k) /\ outbox[k].tier # "important"
          BY <1>2, <3>4 DEF FinalizeDigest, Queued, Virgin, Row
        <4> QED BY <1>7, <2>2, <3>1, <3>2, <3>4, <4>1
      <3> QED BY <1>5, <2>2, <3>2, <3>3, <3>4
    <2> QED BY <2>1, <2>2
  <1>8. ASSUME NEW todo, \A k \in DOMAIN todo : todo[k] \in DOMAIN outbox, Covered(todo),
               NEW k \in DOMAIN todo, NEW i \in DOMAIN outbox',
               outbox'[i].tier = "urgent", Virgin(i)', i < todo[k]
        PROVE  \E l \in DOMAIN todo : l < k /\ todo[l] = i
    <2>1. i \in DOMAIN outbox
      BY <1>2, <1>8
    <2> QED BY <1>2, <1>4, <1>8, <2>1 DEF Covered
  <1>9. ASSUME NEW p \in Puller, NEW todo, puller'[p].todo = todo,
               \A k \in DOMAIN todo : todo[k] \in DOMAIN outbox, Covered(todo)
        PROVE  Covered(puller[p].todo)'
    BY <1>8, <1>9 DEF Covered
  <1> DEFINE Fetched(p) == puller[p].pc = "fetch" => outbox[Head(puller[p].todo)].attempts > 0
  <1>10. \A p \in Puller : /\ \A k \in DOMAIN puller[p].todo : puller[p].todo[k] \in DOMAIN outbox
                           /\ Covered(puller[p].todo) /\ Fetched(p)
                           /\ puller[p].todo # <<>> => Head(puller[p].todo) \in DOMAIN outbox
    BY <1>6 DEF OrderInv, TodoShape
  <1>11. ASSUME NEW p \in Puller, puller'[p] = puller[p]
         PROVE  Covered(puller[p].todo)' /\ Fetched(p)'
    <2>1. Covered(puller[p].todo)'
      BY <1>9, <1>10, <1>11
    <2>2. Fetched(p)'
      <3>1. puller[p].pc = "fetch" => Head(puller[p].todo) \in DOMAIN outbox
        BY <1>6, <1>10 DEF TodoShape
      <3> QED BY <1>2, <1>10, <1>11, <3>1
    <2> QED BY <2>1, <2>2
  <1>12. ASSUME NEW p \in Puller, puller'[p].todo = <<>>, puller'[p].pc # "fetch"
         PROVE  Covered(puller[p].todo)' /\ Fetched(p)'
    <2>1. DOMAIN <<>> = {}
      OBVIOUS
    <2> QED BY <1>12, <2>1 DEF Covered
  <1>13. ASSUME NEW p \in Puller, DeliverStep(p) \/ DeliveryFault(p)
         PROVE  Covered(puller[p].todo)' /\ Fetched(p)'
    <2>1. PICK o \in [pc : PullerPc, todo : Seq(Nat), held : Seq(Claim)] : o = puller[p]
      BY DEF OutboxShape, OutboxTyped
    <2>2. /\ \A k \in DOMAIN o.todo : o.todo[k] \in DOMAIN outbox
          /\ Covered(o.todo) /\ o.todo \in Seq(Nat)
          /\ o.pc = "fetch" => o.todo # <<>> /\ outbox[Head(o.todo)].attempts > 0
          /\ o.pc \notin {"claim", "fetch"} => o.todo = <<>>
          /\ o.todo # <<>> => Head(o.todo) \in DOMAIN outbox
      <3>1. TodoShape(p)
        BY <1>6
      <3>2. /\ \A k \in DOMAIN o.todo : o.todo[k] \in DOMAIN outbox
            /\ Covered(o.todo) /\ o.todo \in Seq(Nat)
            /\ o.pc = "fetch" => outbox[Head(o.todo)].attempts > 0
            /\ o.todo # <<>> => Head(o.todo) \in DOMAIN outbox
        BY <1>10, <2>1
      <3>3. /\ o.pc = "fetch" => o.todo # <<>>
            /\ o.pc \notin {"claim", "fetch"} => o.todo = <<>>
        BY <2>1, <3>1 DEF TodoShape
      <3> QED BY <3>2, <3>3
    <2>3. ASSUME NEW pc, NEW held, PullerSet(p, pc, o.todo, held),
                 pc = "fetch" => outbox'[Head(o.todo)].attempts > 0
          PROVE  Covered(puller[p].todo)' /\ Fetched(p)'
      <3>1. puller'[p].todo = o.todo /\ puller'[p].pc = pc
        BY <2>3 DEF PullerSet
      <3>2. Covered(puller[p].todo)'
        BY <1>9, <2>2, <3>1
      <3> QED BY <2>3, <3>1, <3>2
    <2>4. ASSUME NEW held, o.todo # <<>>, ~Virgin(Head(o.todo)),
                 PullerSet(p, "claim", Tail(o.todo), held)
          PROVE  Covered(puller[p].todo)' /\ Fetched(p)'
      <3> DEFINE rest == Tail(o.todo)
      <3>1. /\ DOMAIN rest = 1 .. (Len(o.todo) - 1) /\ Len(o.todo) \in Nat
            /\ DOMAIN o.todo = 1 .. Len(o.todo) /\ Head(o.todo) = o.todo[1]
            /\ \A k \in DOMAIN rest : rest[k] = o.todo[k + 1] /\ k + 1 \in DOMAIN o.todo
        BY <2>2, <2>4, HeadTailProperties
      <3>2. puller'[p].todo = rest /\ puller'[p].pc = "claim"
        BY <2>4 DEF PullerSet
      <3> HIDE DEF rest
      <3>3. ASSUME NEW k \in DOMAIN rest, NEW i \in DOMAIN outbox,
                   outbox[i].tier = "urgent", Virgin(i), i < rest[k]
            PROVE  \E l \in DOMAIN rest : l < k /\ rest[l] = i
        <4>1. PICK l \in DOMAIN o.todo : l < k + 1 /\ o.todo[l] = i
          BY <2>2, <3>1, <3>3 DEF Covered
        <4>2. l # 1
          BY <2>4, <3>1, <3>3, <4>1
        <4>3. l - 1 \in DOMAIN rest /\ l - 1 < k
          BY <3>1, <4>1, <4>2
        <4>4. rest[l - 1] = o.todo[(l - 1) + 1] /\ (l - 1) + 1 = l
          BY <3>1, <4>3
        <4> QED BY <4>1, <4>3, <4>4
      <3>4. Covered(rest) /\ \A k \in DOMAIN rest : rest[k] \in DOMAIN outbox
        BY <2>2, <3>1, <3>3 DEF Covered
      <3>5. Covered(puller[p].todo)'
        BY <1>9, <3>2, <3>4
      <3> QED BY <3>2, <3>5
    <2>5. ASSUME NEW batch \in Oldest(Pullable), PullerSet(p, "claim", batch, <<>>)
          PROVE  Covered(puller[p].todo)' /\ Fetched(p)'
      <3>1. Pullable \in SUBSET Nat /\ IsFiniteSet(Pullable)
        <4>1. Pullable \in SUBSET (1 .. Len(outbox)) /\ Len(outbox) \in Nat
          BY <1>2 DEF Pullable
        <4>2. IsFiniteSet(1 .. Len(outbox))
          BY <4>1, FS_Interval
        <4>3. IsFiniteSet(Pullable)
          BY <4>1, <4>2, FS_Subset
        <4> QED BY <4>1, <4>3
      <3>2. /\ \A k \in DOMAIN batch : batch[k] \in Pullable
            /\ \A k \in DOMAIN batch, i \in Pullable :
                  i < batch[k] => \E l \in DOMAIN batch : l < k /\ batch[l] = i
        BY <3>1, OldestFirst
      <3>3. \A i \in DOMAIN outbox : outbox[i].tier = "urgent" /\ Virgin(i) => i \in Pullable
        BY DEF Pullable, Virgin
      <3>4. Covered(batch) /\ \A k \in DOMAIN batch : batch[k] \in DOMAIN outbox
        BY <3>2, <3>3 DEF Covered, Pullable
      <3>5. puller'[p].todo = batch /\ puller'[p].pc = "claim"
        BY <2>5 DEF PullerSet
      <3>6. Covered(puller[p].todo)'
        BY <1>9, <3>4, <3>5
      <3> QED BY <3>5, <3>6
    <2>6. ASSUME PullerSet(p, "idle", <<>>, <<>>)
          PROVE  Covered(puller[p].todo)' /\ Fetched(p)'
      BY <1>12, <2>6 DEF PullerSet
    <2>7. o.pc = "fetch" => ~Virgin(Head(o.todo))
      BY <1>2, <2>2 DEF Virgin
    <2>8. o.pc = "claim" /\ o.todo # <<>> /\ outbox[Head(o.todo)].status # "pending"
              => ~Virgin(Head(o.todo))
      BY DEF Virgin
    <2>9. ASSUME o.todo # <<>>,
                 outbox'[Head(o.todo)].attempts = outbox[Head(o.todo)].attempts + 1
          PROVE  outbox'[Head(o.todo)].attempts > 0
      BY <1>2, <2>2, <2>9
    <2>10. PullerMove(p)
      BY <1>13, PullerMoves
    <2> HIDE DEF Fetched
    <2> QED BY <2>1, <2>2, <2>3, <2>4, <2>5, <2>6, <2>7, <2>8, <2>9, <2>10 DEF PullerMove
  <1> HIDE DEF Fetched
  <1>14. \A p \in Puller : Covered(puller[p].todo)' /\ Fetched(p)'
    <2>1. CASE UNCHANGED puller
      BY <1>11, <2>1
    <2>2. CASE \E p \in Puller : DeliverStep(p) \/ DeliveryFault(p)
      <3>1. PICK p \in Puller : DeliverStep(p) \/ DeliveryFault(p)
        BY <2>2
      <3>2. \A q \in Puller : q # p => puller'[q] = puller[q]
        BY <3>1, PullerMoves DEF PullerMove, PullerSet
      <3> QED BY <1>11, <1>13, <3>1, <3>2
    <2>3. CASE Restart
      <3>1. IdlePuller.todo = <<>> /\ IdlePuller.pc = "idle"
        BY DEF IdlePuller
      <3>2. \A p \in Puller : puller'[p] \in {puller[p], IdlePuller}
        BY <2>3 DEF Restart
      <3> QED BY <1>11, <1>12, <3>1, <3>2
    <2> QED BY <1>1, <2>1, <2>2, <2>3 DEF Moves, Calm, Reclaim, FinalizeDigest, DigestKeeps,
               LateAck, PullerKeeps, Sticks, Ages, Sending, Send, PostureCheck, MuteCheck,
               DedupCheck, SenderFails, Collapse, Insert, SenderKeeps
  <1>15. \A i \in DOMAIN outbox' : outbox'[i].status = "delivering" => outbox'[i].attempts > 0
    BY <1>3, <1>5 DEF Virgin
  <1> QED BY <1>7, <1>14, <1>15 DEF OrderInv, Fetched

\* The rows a collapse into row j leaves uncovered, and the tasks that are
\* about to insert a row, or will when they find their row taken.
FreshAfter(t, c, j) == {i \in Similar(t, c) : outbox[i].attempts = 0 /\ i > j}

Inserting(t, c, j) ==
    {s \in Sender : /\ sender[s].tier = t /\ sender[s].category = c
                    /\ \/ sender[s].pc = "insert"
                       \/ sender[s].pc = "collapse" /\ sender[s].target <= j}

Room(t, c, j) ==
    Cardinality(FreshAfter(t, c, j)) + Cardinality(Inserting(t, c, j))
        < DedupThreshold + Cardinality(SendersOf(t))

RoomInv == \A t \in Tier, c \in Category, j \in Nat : Room(t, c, j)

\* The counted sets are finite, and the tasks are among those of the tier.
LEMMA CountsFinite ==
    ASSUME OutboxShape, NEW t \in Tier, NEW c \in Category, NEW j \in Nat
    PROVE  /\ IsFiniteSet(Similar(t, c)) /\ IsFiniteSet(FreshAfter(t, c, j))
           /\ IsFiniteSet(Inserting(t, c, j)) /\ IsFiniteSet(SendersOf(t))
           /\ Inserting(t, c, j) \subseteq SendersOf(t)
           /\ Cardinality(FreshAfter(t, c, j)) \in Nat
           /\ Cardinality(Inserting(t, c, j)) \in Nat
           /\ Cardinality(SendersOf(t)) \in Nat
           /\ Cardinality(Inserting(t, c, j)) <= Cardinality(SendersOf(t))
  <1>1. DOMAIN outbox = 1 .. Len(outbox) /\ Len(outbox) \in Nat
    BY DEF OutboxShape, OutboxTyped
  <1>2. IsFiniteSet(1 .. Len(outbox))
    BY <1>1, FS_Interval
  <1>3. Similar(t, c) \subseteq 1 .. Len(outbox)
    BY <1>1 DEF Similar
  <1>4. IsFiniteSet(Similar(t, c))
    BY <1>2, <1>3, FS_Subset
  <1>5. FreshAfter(t, c, j) \subseteq Similar(t, c)
    BY DEF FreshAfter
  <1>6. IsFiniteSet(FreshAfter(t, c, j))
    BY <1>4, <1>5, FS_Subset
  <1>7. SendersOf(t) \subseteq Sender
    BY DEF SendersOf, Other
  <1>8. IsFiniteSet(SendersOf(t))
    BY <1>7, OutboxAssumption, FS_Subset
  <1>9. Inserting(t, c, j) \subseteq SendersOf(t)
    BY DEF Inserting, SendersOf, Other, Tier, OutboxShape, SenderShape
  <1>10. IsFiniteSet(Inserting(t, c, j)) /\ Cardinality(Inserting(t, c, j)) <= Cardinality(SendersOf(t))
    BY <1>8, <1>9, FS_Subset
  <1>11. Cardinality(FreshAfter(t, c, j)) \in Nat
    BY <1>6, FS_CardinalityType
  <1>12. Cardinality(SendersOf(t)) \in Nat
    BY <1>8, FS_CardinalityType
  <1>13. Cardinality(Inserting(t, c, j)) \in Nat
    BY <1>10, FS_CardinalityType
  <1> QED BY <1>4, <1>6, <1>8, <1>9, <1>10, <1>11, <1>12, <1>13

\* There is still room when nothing was added to either set.
LEMMA RoomKept ==
    ASSUME OutboxShape, NEW t \in Tier, NEW c \in Category, NEW j \in Nat, NEW k \in Nat,
           OutboxShape', Room(t, c, k),
           FreshAfter(t, c, j)' \subseteq FreshAfter(t, c, k),
           Inserting(t, c, j)' \subseteq Inserting(t, c, k)
    PROVE  Room(t, c, j)'
  <1>1. /\ IsFiniteSet(FreshAfter(t, c, k)) /\ IsFiniteSet(Inserting(t, c, k))
        /\ Cardinality(FreshAfter(t, c, k)) \in Nat /\ Cardinality(Inserting(t, c, k)) \in Nat
        /\ Cardinality(SendersOf(t)) \in Nat
    BY CountsFinite
  <1> DEFINE fresh == FreshAfter(t, c, j)'
             inserting == Inserting(t, c, j)'
  <1>2. Cardinality(fresh) <= Cardinality(FreshAfter(t, c, k)) /\ IsFiniteSet(fresh)
    BY <1>1, FS_Subset
  <1>3. Cardinality(inserting) <= Cardinality(Inserting(t, c, k)) /\ IsFiniteSet(inserting)
    BY <1>1, FS_Subset
  <1>4. Cardinality(fresh) \in Nat
    BY <1>2, FS_CardinalityType
  <1>5. Cardinality(inserting) \in Nat
    BY <1>3, FS_CardinalityType
  <1>6. DedupThreshold \in Nat
    BY OutboxAssumption
  <1>7. Cardinality(fresh) + Cardinality(inserting) < DedupThreshold + Cardinality(SendersOf(t))
    <2> HIDE DEF fresh, inserting
    <2> QED BY <1>1, <1>2, <1>3, <1>4, <1>5, <1>6 DEF Room
  <1>8. SendersOf(t)' = SendersOf(t)
    BY DEF SendersOf, Other
  <1> QED BY <1>7, <1>8 DEF Room

\* A row that was pulled once is not virgin again.
LEMMA PulledForGood ==
    ASSUME OutboxShape, OrderInv, RowsMoved, NEW i \in DOMAIN outbox, Virgin(i)'
    PROVE  Virgin(i)
  <1>1. ~Claimed(outbox[i], outbox'[i])
    <2>1. "pending" # "delivering"
      OBVIOUS
    <2> QED BY <2>1 DEF Claimed, Virgin
  <1>2. Kept(outbox[i], outbox'[i])
    BY <1>1 DEF RowsMoved
  <1>3. outbox[i] \in Row
    BY RowsRemain
  <1>4. outbox[i].attempts = 0 /\ outbox[i].status # "delivering"
    BY <1>2, <1>3 DEF Kept, Virgin, OrderInv, Row
  <1> QED BY <1>2, <1>4 DEF Kept, Virgin

\* Only an insertion adds a row to those that count.
LEMMA FreshShrinks ==
    ASSUME OutboxShape, OrderInv, RowsMoved, NEW t \in Tier, NEW c \in Category, NEW j \in Nat
    PROVE  FreshAfter(t, c, j)' \cap DOMAIN outbox \subseteq FreshAfter(t, c, j)
  <1> SUFFICES ASSUME NEW i \in DOMAIN outbox, i \in FreshAfter(t, c, j)'
               PROVE  i \in FreshAfter(t, c, j)
    OBVIOUS
  <1>1. /\ outbox'[i].tier = t /\ outbox'[i].category = c /\ ~outbox'[i].old /\ i > j
        /\ Virgin(i)'
    BY DEF FreshAfter, Similar, Virgin
  <1>2. outbox[i].tier = t /\ outbox[i].category = c
    BY <1>1, RowsRemain
  <1>3. ~outbox[i].old
    BY <1>1 DEF RowsMoved, Kept, Claimed
  <1>4. Virgin(i)
    BY <1>1, PulledForGood
  <1> QED BY <1>1, <1>2, <1>3, <1>4 DEF FreshAfter, Similar, Virgin

\* Every step leaves room below the bound for the tasks about to insert.
LEMMA RoomStep ==
    ASSUME OutboxShape, OutboxShape', OrderInv, RoomInv, Moves
    PROVE  RoomInv'
  <1> SUFFICES ASSUME NEW t \in Tier, NEW c \in Category, NEW j \in Nat
               PROVE  Room(t, c, j)'
    BY DEF RoomInv
  <1>1. RowsMoved
    BY RowsMove
  <1>2. /\ outbox \in Seq(Row) /\ DOMAIN outbox = 1 .. Len(outbox) /\ Len(outbox) \in Nat
        /\ \A s \in Sender : sender[s].target \in Nat \cup {NULL}
        /\ \A i \in Nat : Room(t, c, i)
    BY DEF OutboxShape, OutboxTyped, RoomInv
  <1>3. ASSUME \A s \in Sender : ~Insert(s)
        PROVE  FreshAfter(t, c, j)' \subseteq FreshAfter(t, c, j)
    <2>1. DOMAIN outbox' \subseteq DOMAIN outbox
      BY <1>3, VirginStep
    <2>2. FreshAfter(t, c, j)' \subseteq DOMAIN outbox'
      BY DEF FreshAfter, Similar
    <2> QED BY <1>1, <2>1, <2>2, FreshShrinks
  <1>4. ASSUME FreshAfter(t, c, j)' \subseteq FreshAfter(t, c, j),
               Inserting(t, c, j)' \subseteq Inserting(t, c, j)
        PROVE  Room(t, c, j)'
    BY <1>2, <1>4, RoomKept
  \* A task that does not come to insert or to collapse.
  <1>5. ASSUME NEW s \in Sender, \A u \in Sender : u # s => sender'[u] = sender[u],
               sender'[s].pc \notin {"insert", "collapse"}
        PROVE  Inserting(t, c, j)' \subseteq Inserting(t, c, j) \ {s}
    BY <1>5 DEF Inserting
  <1>6. ASSUME NEW s \in Sender, \A u \in Sender : u # s => sender'[u] = sender[u],
               sender'[s].tier # t \/ sender'[s].category # c
        PROVE  Inserting(t, c, j)' \subseteq Inserting(t, c, j)
    BY <1>6 DEF Inserting
  <1>7. \A s \in Sender : SenderDone(s) => /\ sender'[s].pc = "idle"
                                           /\ \A u \in Sender : u # s => sender'[u] = sender[u]
    BY DEF SenderDone, IdleSender, OutboxShape, OutboxTyped
  <1>8. \A s \in Sender : \A pc \in {"mute", "dedup", "insert"} : SenderGoto(s, pc) =>
            /\ sender'[s].pc = pc /\ sender'[s].tier = sender[s].tier
            /\ sender'[s].category = sender[s].category
            /\ \A u \in Sender : u # s => sender'[u] = sender[u]
    BY DEF SenderGoto, OutboxShape, OutboxTyped
  <1>9. ASSUME NEW s \in Sender, Sending(s), ~DedupCheck(s) PROVE Room(t, c, j)'
    <2>1. /\ sender'[s].pc \notin {"insert", "collapse"}
          /\ \A u \in Sender : u # s => sender'[u] = sender[u]
      <3>1. ASSUME NEW tt \in Tier, NEW cc \in Category, Send(s, tt, cc)
            PROVE  /\ sender'[s].pc \notin {"insert", "collapse"}
                   /\ \A u \in Sender : u # s => sender'[u] = sender[u]
        BY <3>1 DEF Send, OutboxShape, OutboxTyped
      <3> QED BY <1>7, <1>8, <1>9, <3>1 DEF Sending, PostureCheck, MuteCheck, SenderFails
    <2>2. UNCHANGED outbox
      BY <1>9 DEF Sending, Send, PostureCheck, MuteCheck, SenderFails
    <2>3. FreshAfter(t, c, j)' = FreshAfter(t, c, j)
      BY <2>2 DEF FreshAfter, Similar
    <2> QED BY <1>4, <1>5, <2>1, <2>3
  <1>10. ASSUME NEW s \in Sender, DedupCheck(s) PROVE Room(t, c, j)'
    <2> DEFINE similar == Similar(sender[s].tier, sender[s].category)
    <2>1. /\ FreshAfter(t, c, j)' = FreshAfter(t, c, j) /\ SendersOf(t)' = SendersOf(t)
      BY <1>10 DEF DedupCheck, FreshAfter, Similar, SendersOf, Other
    <2>2. /\ Cardinality(Inserting(t, c, j)') <= Cardinality(SendersOf(t)')
          /\ Cardinality(Inserting(t, c, j)') \in Nat /\ Cardinality(SendersOf(t)') \in Nat
      <3>1. (OutboxShape =>
               /\ Cardinality(Inserting(t, c, j)) <= Cardinality(SendersOf(t))
               /\ Cardinality(Inserting(t, c, j)) \in Nat /\ Cardinality(SendersOf(t)) \in Nat)'
        BY CountsFinite, PTL
      <3> QED BY <3>1
    <2>3. Cardinality(FreshAfter(t, c, j)) \in Nat /\ IsFiniteSet(Similar(t, c))
          /\ DedupThreshold \in Nat \ {0}
      BY CountsFinite, OutboxAssumption
    <2>4. ASSUME Cardinality(FreshAfter(t, c, j)) < DedupThreshold PROVE Room(t, c, j)'
      BY <2>1, <2>2, <2>3, <2>4 DEF Room
    <2>5. \A u \in Sender : u # s => sender'[u] = sender[u]
      BY <1>8, <1>10 DEF DedupCheck, OutboxShape, OutboxTyped
    <2>6. sender'[s].tier = sender[s].tier /\ sender'[s].category = sender[s].category
      BY <1>8, <1>10 DEF DedupCheck, OutboxShape, OutboxTyped
    <2>7. CASE sender[s].tier # t \/ sender[s].category # c
      BY <1>4, <1>6, <2>1, <2>5, <2>6, <2>7
    <2>8. CASE similar = Similar(t, c) /\ SenderGoto(s, "insert") /\ ~(Cardinality(similar) >= DedupThreshold)
      <3>1. FreshAfter(t, c, j) \subseteq Similar(t, c)
        BY DEF FreshAfter
      <3>2. Cardinality(FreshAfter(t, c, j)) <= Cardinality(Similar(t, c))
        BY <2>3, <3>1, FS_Subset
      <3>3. Cardinality(Similar(t, c)) \in Nat
        BY <2>3, FS_CardinalityType
      <3>4. Cardinality(Similar(t, c)) < DedupThreshold
        BY <2>3, <2>8, <3>3
      <3> QED BY <2>3, <2>4, <3>2, <3>3, <3>4
    <2>9. ASSUME similar = Similar(t, c),
                 NEW latest \in similar, \A i \in similar : i <= latest,
                 sender' = [sender EXCEPT ![s].pc = "collapse", ![s].target = latest]
          PROVE  Room(t, c, j)'
      <3>1. sender'[s].pc = "collapse" /\ sender'[s].target = latest
        BY <2>9 DEF OutboxShape, OutboxTyped
      <3>2. latest \in Nat
        BY <1>2 DEF Similar
      <3>3. CASE latest <= j
        <4>1. \A i \in Similar(t, c) : i <= latest /\ i \in Nat
          BY <1>2, <2>9 DEF Similar
        <4>2. FreshAfter(t, c, j) = {}
          <5>1. ASSUME NEW i \in FreshAfter(t, c, j) PROVE FALSE
            <6>1. i \in Similar(t, c) /\ i > j
              BY <5>1 DEF FreshAfter
            <6>2. i \in Nat /\ i <= latest
              BY <4>1, <6>1
            <6> QED BY <3>2, <3>3, <6>1, <6>2
          <5> QED BY <5>1
        <4>3. Cardinality(FreshAfter(t, c, j)) = 0
          BY <4>2, FS_EmptySet
        <4> QED BY <2>3, <2>4, <4>3
      <3>4. CASE ~(latest <= j)
        <4>1. Inserting(t, c, j)' \subseteq Inserting(t, c, j)
          BY <2>5, <3>1, <3>4 DEF Inserting
        <4> QED BY <1>4, <2>1, <4>1
      <3> QED BY <3>3, <3>4
    <2>10. \/ SenderGoto(s, "insert") /\ ~(Cardinality(similar) >= DedupThreshold)
           \/ \E latest \in similar :
                /\ \A i \in similar : i <= latest
                /\ sender' = [sender EXCEPT ![s].pc = "collapse", ![s].target = latest]
      BY <1>10 DEF DedupCheck
    <2> QED BY <2>7, <2>8, <2>9, <2>10
  <1>11. ASSUME NEW s \in Sender, Collapse(s) PROVE Room(t, c, j)'
    <2> DEFINE x == sender[s].target
    <2>1. FreshAfter(t, c, j)' \subseteq FreshAfter(t, c, j)
      <3>1. \A u \in Sender : ~Insert(u)
        BY <1>7, <1>8, <1>11 DEF Collapse, Insert
      <3> QED BY <1>3, <3>1
    <2>2. CASE SenderDone(s)
      <3>1. Inserting(t, c, j)' \subseteq Inserting(t, c, j) \ {s}
        BY <1>5, <1>7, <2>2
      <3> QED BY <1>4, <2>1, <3>1
    <2>3. CASE outbox[x].status # "pending" /\ SenderGoto(s, "insert")
      <3>1. /\ sender'[s].pc = "insert" /\ sender'[s].tier = sender[s].tier
            /\ sender'[s].category = sender[s].category
            /\ \A u \in Sender : u # s => sender'[u] = sender[u]
        BY <1>8, <2>3
      <3>2. /\ sender[s].pc = "collapse" /\ x \in DOMAIN outbox /\ x \in Nat
            /\ outbox[x].tier = sender[s].tier
        BY <1>2, <1>11 DEF Collapse, OutboxShape, SenderShape
      <3>3. CASE sender[s].tier # t \/ sender[s].category # c
        BY <1>4, <1>6, <2>1, <3>1, <3>3
      <3>4. CASE sender[s].tier = t /\ sender[s].category = c /\ x <= j
        <4>1. Inserting(t, c, j)' \subseteq Inserting(t, c, j)
          BY <3>1, <3>2, <3>4 DEF Inserting
        <4> QED BY <1>4, <2>1, <4>1
      <3>5. CASE sender[s].tier = t /\ sender[s].category = c /\ j < x
        <4>1. ASSUME NEW u \in Inserting(t, c, j)' PROVE u \in Inserting(t, c, x)
          <5>1. u \in Sender /\ sender'[u].tier = t /\ sender'[u].category = c
                /\ (sender'[u].pc = "insert" \/ (sender'[u].pc = "collapse" /\ sender'[u].target <= j))
            BY <4>1 DEF Inserting
          <5>2. CASE u = s
            BY <3>2, <3>5, <5>2 DEF Inserting
          <5>3. CASE u # s
            <6>1. sender'[u] = sender[u]
              BY <3>1, <5>1, <5>3
            <6>2. sender[u].pc = "collapse" => sender[u].target \in Nat
              BY <1>2, <5>1 DEF OutboxShape, SenderShape
            <6>3. sender[u].pc = "collapse" /\ sender[u].target <= j => sender[u].target <= x
              BY <3>2, <3>5, <6>2
            <6> QED BY <5>1, <6>1, <6>3 DEF Inserting
          <5> QED BY <5>2, <5>3
        <4>2. ASSUME NEW i \in FreshAfter(t, c, j) PROVE i \in FreshAfter(t, c, x)
          <5>1. i \in DOMAIN outbox /\ outbox[i].tier = t /\ Virgin(i) /\ i \in Nat
                /\ i \in Similar(t, c) /\ outbox[i].attempts = 0
            BY <1>2, <4>2 DEF FreshAfter, Similar, Virgin
          <5>2. ~(i < x) /\ i # x
            BY <2>3, <3>2, <3>5, <5>1 DEF OrderInv, Virgin
          <5>3. i > x
            BY <3>2, <5>1, <5>2
          <5> QED BY <5>1, <5>3 DEF FreshAfter
        <4> QED BY <1>2, <2>1, <3>2, <4>1, <4>2, RoomKept
      <3>6. x <= j \/ j < x
        BY <3>2
      <3> QED BY <3>3, <3>4, <3>5, <3>6
    <2> QED BY <1>11, <2>2, <2>3 DEF Collapse
  <1>12. ASSUME NEW s \in Sender, Insert(s) PROVE Room(t, c, j)'
    <2> DEFINE r == [tier |-> sender[s].tier, category |-> sender[s].category,
                     told |-> {sender[s].event}, status |-> "pending", attempts |-> 0,
                     stuck |-> FALSE, old |-> FALSE]
               new == Len(outbox) + 1
    <2>1. r.tier = sender[s].tier /\ r.category = sender[s].category
          /\ outbox' = Append(outbox, r) /\ r \in Row
      BY <1>12 DEF Insert, OutboxShape, SenderShape, Row, Status
    <2> HIDE DEF r
    <2>2. DOMAIN outbox' = DOMAIN outbox \cup {new} /\ outbox'[new] = r
      BY <1>2, <2>1, AppendProperties
    <2>3. Inserting(t, c, j)' \subseteq Inserting(t, c, j) \ {s}
      BY <1>5, <1>7, <1>12 DEF Insert
    <2>4. FreshAfter(t, c, j)' \subseteq FreshAfter(t, c, j) \cup {new}
      <3>1. FreshAfter(t, c, j)' \subseteq DOMAIN outbox'
        BY DEF FreshAfter, Similar
      <3>2. FreshAfter(t, c, j)' \cap DOMAIN outbox \subseteq FreshAfter(t, c, j)
        BY <1>1, FreshShrinks
      <3> QED BY <2>2, <3>1, <3>2
    <2>5. CASE sender[s].tier # t \/ sender[s].category # c
      <3>1. new \notin FreshAfter(t, c, j)'
        BY <2>1, <2>2, <2>5 DEF FreshAfter, Similar
      <3> QED BY <1>4, <2>3, <2>4, <3>1
    <2>6. CASE sender[s].tier = t /\ sender[s].category = c
      <3> DEFINE fresh == FreshAfter(t, c, j)
                 after == FreshAfter(t, c, j)'
                 wait == Inserting(t, c, j)
                 left == Inserting(t, c, j)'
      <3>1. s \in wait
        BY <1>12, <2>6 DEF Insert, Inserting
      <3>2. /\ IsFiniteSet(fresh) /\ IsFiniteSet(wait) /\ Cardinality(fresh) \in Nat
            /\ Cardinality(wait) \in Nat /\ Cardinality(SendersOf(t)) \in Nat
        BY CountsFinite
      <3>3. Cardinality(fresh) + Cardinality(wait) < DedupThreshold + Cardinality(SendersOf(t))
        BY <1>2 DEF Room
      <3>4. SendersOf(t)' = SendersOf(t)
        BY DEF SendersOf, Other
      <3>5. after \subseteq fresh \cup {new} /\ left \subseteq wait \ {s}
        BY <2>3, <2>4
      <3> HIDE DEF fresh, after, wait, left
      <3>6. /\ IsFiniteSet(fresh \cup {new})
            /\ Cardinality(fresh \cup {new}) <= Cardinality(fresh) + 1
            /\ Cardinality(fresh \cup {new}) \in Nat
        <4>1. /\ IsFiniteSet(fresh \cup {new})
              /\ Cardinality(fresh \cup {new}) = IF new \in fresh THEN Cardinality(fresh)
                                                 ELSE Cardinality(fresh) + 1
          BY <3>2, FS_AddElement
        <4> QED BY <3>2, <4>1
      <3>7. /\ IsFiniteSet(wait \ {s}) /\ Cardinality(wait \ {s}) = Cardinality(wait) - 1
        BY <3>1, <3>2, FS_RemoveElement
      <3>8. IsFiniteSet(after) /\ Cardinality(after) <= Cardinality(fresh \cup {new})
        BY <3>5, <3>6, FS_Subset
      <3>9. IsFiniteSet(left) /\ Cardinality(left) <= Cardinality(wait \ {s})
        BY <3>5, <3>7, FS_Subset
      <3>10. Cardinality(after) \in Nat
        BY <3>8, FS_CardinalityType
      <3>11. Cardinality(left) \in Nat
        BY <3>9, FS_CardinalityType
      <3>12. DedupThreshold \in Nat
        BY OutboxAssumption
      <3>13. Cardinality(after) + Cardinality(left) < DedupThreshold + Cardinality(SendersOf(t))
        BY <3>2, <3>3, <3>6, <3>7, <3>8, <3>9, <3>10, <3>11, <3>12
      <3> QED BY <3>4, <3>13 DEF Room, after, left
    <2> QED BY <2>5, <2>6
  <1>13. CASE Restart
    <2>1. Inserting(t, c, j)' = {}
      BY <1>13 DEF Restart, IdleSender, Inserting
    <2>2. FreshAfter(t, c, j)' = FreshAfter(t, c, j)
      BY <1>13 DEF Restart, FreshAfter, Similar
    <2> QED BY <1>4, <2>1, <2>2
  <1>14. CASE \/ Calm \/ Reclaim \/ FinalizeDigest
              \/ \E p \in Puller : DeliverStep(p) \/ DeliveryFault(p)
              \/ \E ack \in lateAcks : LateAck(ack)
              \/ \E i \in DOMAIN outbox : Sticks(i) \/ Ages(i)
    <2>1. UNCHANGED sender
      BY <1>14 DEF Calm, Reclaim, FinalizeDigest, DigestKeeps, LateAck, PullerKeeps,
                   Sticks, Ages, DeliverStep, DeliveryFault, Pull, ClaimOne, Refetch,
                   WriteOut, Ack, PullDone, NackRead, NackWrite, AckTimesOut, PostFails, Abandon
    <2>2. \A s \in Sender : ~Insert(s)
      BY <1>7, <2>1 DEF Insert
    <2>3. Inserting(t, c, j)' = Inserting(t, c, j)
      BY <2>1 DEF Inserting
    <2> QED BY <1>3, <1>4, <2>2, <2>3
  <1> QED BY <1>9, <1>10, <1>11, <1>12, <1>13, <1>14 DEF Moves

\* The dedup keeps its promise for every number of senders: the rows that
\* wait, fresh and never pulled, are below the threshold but for the senders
\* that counted before one another's inserts.
THEOREM NoiseIsBounded == WorkerSpec => []NoiseBound
  <1> DEFINE Inv == OrderInv /\ RoomInv
  <1>1. WorkerInit /\ OutboxShape => Inv
    <2> SUFFICES ASSUME WorkerInit, OutboxShape PROVE Inv
      OBVIOUS
    <2>1. outbox = <<>> /\ DOMAIN <<>> = {} /\ \A p \in Puller : /\ puller[p].pc = "idle"
                                                                /\ puller[p].todo = <<>>
      BY DEF WorkerInit, OutboxInit, IdlePuller
    <2>2. OrderInv
      BY <2>1 DEF OrderInv, Covered
    <2>3. ASSUME NEW t \in Tier, NEW c \in Category, NEW j \in Nat PROVE Room(t, c, j)
      <3>1. FreshAfter(t, c, j) = {}
        BY <2>1 DEF FreshAfter, Similar
      <3>2. Cardinality(FreshAfter(t, c, j)) = 0
        BY <3>1, FS_EmptySet
      <3> QED BY <3>2, CountsFinite, OutboxAssumption DEF Room
    <2> QED BY <2>2, <2>3 DEF RoomInv
  <1>2. OutboxShape /\ OutboxShape' /\ Inv /\ [WorkerNext]_allVars => Inv'
    BY OrderStep, RoomStep, WorkerMoves
  <1>3. OutboxShape /\ Inv => NoiseBound
    <2> SUFFICES ASSUME OutboxShape, RoomInv, NEW t \in Tier, NEW c \in Category
                 PROVE  Cardinality({i \in Similar(t, c) : outbox[i].attempts = 0})
                            < DedupThreshold + Cardinality(SendersOf(t))
      BY DEF NoiseBound
    <2>1. {i \in Similar(t, c) : outbox[i].attempts = 0} = FreshAfter(t, c, 0)
      BY DEF FreshAfter, Similar, OutboxShape, OutboxTyped
    <2>2. Room(t, c, 0)
      BY DEF RoomInv
    <2>3. /\ Cardinality(FreshAfter(t, c, 0)) \in Nat /\ Cardinality(Inserting(t, c, 0)) \in Nat
          /\ Cardinality(SendersOf(t)) \in Nat
      BY CountsFinite
    <2>4. Cardinality(FreshAfter(t, c, 0)) < DedupThreshold + Cardinality(SendersOf(t))
      <3>1. DedupThreshold \in Nat
        BY OutboxAssumption
      <3> QED BY <2>2, <2>3, <3>1 DEF Room
    <2> QED BY <2>1, <2>4
  <1> QED BY OutboxInvariant, <1>1, <1>2, <1>3, PTL DEF WorkerSpec
=============================================================================
