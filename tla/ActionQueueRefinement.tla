------------------------ MODULE ActionQueueRefinement ------------------------
(* The queue as an implementation of ActionLifecycle. *)
EXTENDS ActionQueue

PhaseOf(r) ==
    CASE r.status = "absent"     -> "none"
      [] r.status \in Terminal   -> r.status
      [] OTHER                   -> "open"

Lifecycle == INSTANCE ActionLifecycle WITH
    phase <- [a \in Action |-> PhaseOf(row[a])],
    sends <- [a \in Action |-> Len(attempts[a])]

\* Every history of the queue, with its drainer, ticker, mint, cancel, replay,
\* pauses, crashes and database errors, is one of the abstract lifecycle: a
\* cancelled action was never sent, an applied one was sent once and is never
\* open again, and only a failure is retried.
ImplementsLifecycle == Lifecycle!Spec
=============================================================================
