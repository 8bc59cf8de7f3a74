------------------------------ MODULE GraphWrites ------------------------------
(***************************************************************************)
(* One call of the Outlook write adapter at a time, as the drainer makes   *)
(* it: the retry chain around a Microsoft Graph request, the access token  *)
(* the adapter reads from a cell of the worker's memory, and the hook that *)
(* refills the cell from oauth_state when Graph answers 401.               *)
(*                                                                         *)
(* Graph itself is external: an answer may be lost after the request took  *)
(* effect, and a token is accepted until it expires.                       *)
(***************************************************************************)
EXTENDS Naturals

CONSTANTS
    MaxRetries,   \* _MAX_RETRIES
    MaxCalls,     \* model bound: calls of the adapter
    MaxTokens,    \* model bound: access tokens issued
    MaxHookErrors \* model bound: times the database fails the hook

ASSUME GraphAssumption ==
    /\ MaxRetries \in Nat \ {0} /\ MaxTokens \in Nat \ {0}
    /\ MaxCalls \in Nat /\ MaxHookErrors \in Nat

VARIABLES
    stored,     \* oauth_state.access_token (0: none)
    cell,       \* _CachedAccessToken.value (0: the empty string)
    live,       \* external: tokens Graph accepts
    call,       \* locals of _request_with_retry
    executed,   \* external: times this call took effect
    lost,       \* history variable: effects whose answer was lost
    requests,   \* history variable: requests of this call
    offered,    \* history variable: what oauth_state held when the hook ran
    calls,      \* history variable: calls so far
    hookErrors  \* history variable

graphVars == <<stored, cell, live, call, executed, lost, requests,
               offered, calls, hookErrors>>
-----------------------------------------------------------------------------
Error == {"unsendable", "timeout", "provider_retry_exhausted", "provider_5xx",
          "provider_4xx_401", "provider_4xx"}

Fresh(pc, result) == [pc |-> pc, attempt |-> 0, refreshed |-> FALSE, result |-> result]

IdleCall == Fresh("idle", "none")

GraphInit ==
    /\ stored \in {0, 1} /\ cell = stored
    /\ live = 1 .. stored
    /\ call = IdleCall
    /\ executed = 0 /\ lost = 0 /\ requests = 0 /\ offered = 0
    /\ calls = 0 /\ hookErrors = 0

TokensKeep  == UNCHANGED <<stored, cell, live, hookErrors>>
EffectsKeep == UNCHANGED <<executed, lost, requests, offered>>

\* apply: a local-only action needs no request, and one whose message, url or
\* mailbox is missing never makes it; a read of the pre-state enters here too.
Apply ==
    /\ call.pc = "idle" /\ calls < MaxCalls
    /\ calls' = calls + 1
    /\ executed' = 0 /\ lost' = 0 /\ requests' = 0 /\ offered' = 0
    /\ call' \in {Fresh("request", "none"), Fresh("done", "ok"), Fresh("done", "unsendable")}
    /\ TokensKeep

Finish(result) == call' = [call EXCEPT !.pc = "done", !.result = result]

\* Each retry consumes one attempt, whatever the reason for it.
RetryOr(limit, result) ==
    IF call.attempt < limit
    THEN call' = [call EXCEPT !.pc = "backoff", !.attempt = @ + 1]
    ELSE Finish(result)

\* The request reached Graph and took effect, or it did not.
TakesEffect(answered) ==
    /\ cell \in live
    /\ executed' = executed + 1
    /\ lost' = IF answered THEN lost ELSE lost + 1

NoEffect == UNCHANGED <<executed, lost>>

Requesting ==
    /\ call.pc = "request"
    /\ requests' = requests + 1
    /\ UNCHANGED <<offered, calls>> /\ TokensKeep

Succeeds == Requesting /\ TakesEffect(TRUE) /\ Finish("ok")

TimesOut ==
    /\ Requesting /\ (NoEffect \/ TakesEffect(FALSE))
    /\ RetryOr(MaxRetries, "timeout")

Throttled == Requesting /\ NoEffect /\ RetryOr(MaxRetries, "provider_retry_exhausted")

ServerError ==
    /\ Requesting /\ (NoEffect \/ TakesEffect(FALSE))
    /\ RetryOr(1, "provider_5xx")

Refused == Requesting /\ cell \in live /\ NoEffect /\ Finish("provider_4xx")

\* Mutant: a call forgets that it asked for a new token.
MutUnauthorized ==
    /\ Requesting /\ cell \notin live /\ NoEffect
    /\ IF call.refreshed THEN Finish("provider_4xx_401")
       ELSE call' = [call EXCEPT !.pc = "hook"]

\* The first 401 of a call sends it to the hook, which costs no attempt.
Unauthorized ==
    /\ Requesting /\ cell \notin live /\ NoEffect
    /\ IF call.refreshed THEN Finish("provider_4xx_401")
       ELSE call' = [call EXCEPT !.pc = "hook", !.refreshed = TRUE]

Backoff ==
    /\ call.pc = "backoff"
    /\ call' = [call EXCEPT !.pc = "request"]
    /\ UNCHANGED calls /\ EffectsKeep /\ TokensKeep

\* Mutant: only an empty cell is filled.
MutRefilled == IF cell = 0 THEN stored ELSE cell

\* _refresh_access_token_cache: an absent token leaves the cell as it is.
Refilled == IF stored # 0 THEN stored ELSE cell

AuthHook ==
    /\ call.pc = "hook"
    /\ cell' = Refilled /\ offered' = stored
    /\ call' = [call EXCEPT !.pc = "request"]
    /\ UNCHANGED <<stored, live, executed, lost, requests, calls, hookErrors>>

\* A hook that raises fails the call with the 401 that called it.
AuthHookRaises ==
    /\ call.pc = "hook" /\ hookErrors < MaxHookErrors
    /\ hookErrors' = hookErrors + 1
    /\ Finish("provider_4xx_401")
    /\ UNCHANGED <<stored, cell, live, calls>> /\ EffectsKeep

Return ==
    /\ call.pc = "done"
    /\ call' = IdleCall
    /\ UNCHANGED calls /\ EffectsKeep /\ TokensKeep

\* The oauth_token_refresh interval task.
RefreshCell ==
    /\ cell # Refilled
    /\ cell' = Refilled
    /\ UNCHANGED <<stored, live, call, calls, hookErrors>> /\ EffectsKeep

\* The sync task exchanged the refresh token and stored a new access token.
StoreToken ==
    /\ stored < MaxTokens
    /\ stored' = stored + 1
    /\ live' = live \cup {stored + 1}
    /\ UNCHANGED <<cell, call, calls, hookErrors>> /\ EffectsKeep

\* Access tokens have one lifetime: they expire in the order of issue.
Expire(t) ==
    /\ t \in live /\ \A u \in live : t <= u
    /\ live' = live \ {t}
    /\ UNCHANGED <<stored, cell, call, calls, hookErrors>> /\ EffectsKeep

\* The process dies: the call is gone, and the cell is warmed from oauth_state.
StartAgain ==
    /\ call' = IdleCall /\ cell' = stored
    /\ UNCHANGED <<stored, live, calls, hookErrors>> /\ EffectsKeep

RequestStep ==
    Succeeds \/ TimesOut \/ Throttled \/ ServerError \/ Refused \/ Unauthorized

CallStep == Apply \/ RequestStep \/ Backoff \/ AuthHook \/ AuthHookRaises \/ Return

TokenStep == RefreshCell \/ StoreToken \/ \E t \in live : Expire(t)

GraphNext == CallStep \/ TokenStep \/ StartAgain

GraphSpec == GraphInit /\ [][GraphNext]_graphVars
-----------------------------------------------------------------------------
GTypeOK ==
    /\ stored \in 0 .. MaxTokens /\ cell \in 0 .. MaxTokens /\ live \subseteq 1 .. MaxTokens
    /\ call \in [pc : {"idle", "request", "backoff", "hook", "done"},
                 attempt : 0 .. MaxRetries, refreshed : BOOLEAN,
                 result : {"none", "ok"} \cup Error]
    /\ offered \in 0 .. MaxTokens
    /\ executed \in Nat /\ lost \in Nat /\ requests \in Nat
    /\ calls \in 0 .. MaxCalls /\ hookErrors \in 0 .. MaxHookErrors

\* A call takes effect more than once only when an answer was lost, and the
\* whole chain of 429s, timeouts, 5xx and the 401 refresh stays within
\* MaxRetries + 2 requests: the refresh is free, but only once.
RepeatsOnlyLostAnswers ==
    /\ executed <= 1 + lost
    /\ call.result = "ok" /\ requests > 0 => executed >= 1
    /\ requests <= MaxRetries + 2

\* A call fails for its credential only if the token that oauth_state held
\* when the 401 sent it there is refused too: neither a stale cell nor the
\* periodic refresh racing the hook can fail a call that had a good token.
NoStaleTokenFailure ==
    [][ call.pc = "request" /\ call'.result = "provider_4xx_401"
        => offered \notin live ]_graphVars
=============================================================================
