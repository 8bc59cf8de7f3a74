---------------------------- MODULE MCActionQueue ----------------------------
(* Instances of ActionQueue for TLC; the values are in the .cfg files. *)
EXTENDS ActionQueueRefinement, TLC

CONSTANTS a1, a2, a3, e1, e2, d1, d2

\* Rows, messages, drainers, mint requests and folders are interchangeable in the safety runs.
Symmetry == Permutations(Action) \cup Permutations(Email) \cup Permutations(Drainer)
    \cup Permutations(Minter) \cup Permutations(Folder)

Move == "move_to_triage_folder"

\* Row a is a move from f to g that was applied; row b, its queued revert, and
\* the local email is as the delta feed left it.
RevertQueued(a, b, e, f, g) ==
    /\ row = [x \in Action |->
            CASE x = a -> [NoRow EXCEPT !.status = "applied", !.type = Move,
                                        !.email = e, !.target = g, !.terminalAt = 0]
              [] x = b -> [NoRow EXCEPT !.status = "pending", !.type = Move,
                                        !.email = e, !.target = f, !.revertOf = a]
              [] OTHER -> NoRow]
    /\ history = [x \in Action |->
            IF x = a THEN [logged |-> TRUE, folder |-> f, reverted |-> TRUE]
                     ELSE NoHistory]
    /\ place = [m \in Email |-> IF m = e THEN g ELSE f]
    /\ email \in [Email -> {[state |-> "live", marker |-> 0],
                            [state |-> "deleted", marker |-> 0]}]
    /\ attempts = [x \in Action |-> IF x = a THEN <<0>> ELSE <<>>]

\* The empty database, or one in which the reverter has queued its inverse
\* (its own steps are in Reverter).
RevertInit ==
    /\ \E a, b \in Action, e \in Email, f, g \in Folder :
            a # b /\ f # g /\ RevertQueued(a, b, e, f, g)
    /\ grants = <<>> /\ confirmations = <<>>
    /\ paused = FALSE /\ now = 0
    /\ drainer = [d \in Drainer |-> IdleDrainer]
    /\ minter = [m \in Minter |-> IdleMinter]
    /\ replaying = {} /\ notified = {}
    /\ pausedSends = [d \in Drainer |-> 0]
    /\ replays = 0 /\ faults = 0

DrainersSpec == (Init \/ RevertInit) /\ [][Next]_vars
=============================================================================
