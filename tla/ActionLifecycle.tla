--------------------------- MODULE ActionLifecycle ---------------------------
(***************************************************************************)
(* What the write path promises the user of each action, and nothing of    *)
(* how: an action is open until it is applied, failed or cancelled.  It is *)
(* sent to the mail service at most once.  What is cancelled was never     *)
(* sent and stays so; what is applied was sent and is never open again; a  *)
(* failure alone may be retried.                                           *)
(***************************************************************************)
EXTENDS Naturals

CONSTANT Action

VARIABLES
    phase,   \* none, open, applied, failed or cancelled, for each action
    sends    \* how often it has been sent

lifeVars == <<phase, sends>>

Init ==
    /\ phase = [a \in Action |-> "none"]
    /\ sends = [a \in Action |-> 0]

Becomes(a, p) == phase' = [phase EXCEPT ![a] = p] /\ UNCHANGED sends

Open(a)    == phase[a] = "none" /\ Becomes(a, "open")
Cancel(a)  == phase[a] = "open" /\ sends[a] = 0 /\ Becomes(a, "cancelled")
Succeed(a) == phase[a] = "open" /\ sends[a] = 1 /\ Becomes(a, "applied")
Fail(a)    == phase[a] = "open" /\ Becomes(a, "failed")
Retry(a)   == phase[a] = "failed" /\ Becomes(a, "open")

Send(a) ==
    /\ phase[a] = "open" /\ sends[a] = 0
    /\ sends' = [sends EXCEPT ![a] = 1]
    /\ UNCHANGED phase

\* The book-keeping after a success may fail, and the action is then reported
\* as failed although it took effect.
Disown(a) == phase[a] = "applied" /\ Becomes(a, "failed")

Next == \E a \in Action :
    Open(a) \/ Cancel(a) \/ Send(a) \/ Succeed(a) \/ Fail(a) \/ Retry(a) \/ Disown(a)

Spec == Init /\ [][Next]_lifeVars
=============================================================================
