----------------------------- MODULE ActionTypes -----------------------------
(***************************************************************************)
(* The action registry: which tier an action type belongs to and which     *)
(* families it is a member of.  Everything the queue decides about a row   *)
(* it decides from these facts (mailbot_api/actions/types.py).             *)
(*                                                                         *)
(* Tier-0 types are verb-level capabilities; propose_action refuses them,  *)
(* so no row ever carries one and they are left out.                       *)
(***************************************************************************)
EXTENDS Integers

Tier1Types == {"mark_read", "mark_unread", "add_local_category",
               "remove_local_category", "move_to_triage_folder"}

Tier2Types == {"archive", "mark_junk", "move_to_user_folder",
               "unsubscribe", "move_to_inbox"}

SendFamily == {"send_reply", "send_new_email", "send_forward",
               "reply_to_inactive_thread"}

Tier3Types == SendFamily \cup {"delete", "modify_inbox_rule",
               "modify_outlook_filter", "touch_delegated_mailbox"}

ActionType == Tier1Types \cup Tier2Types \cup Tier3Types

\* propose_action accepts email_id = None for these types only.
EmailLess == {"modify_inbox_rule", "modify_outlook_filter",
              "touch_delegated_mailbox", "send_new_email"}

\* Types that dispatch through POST /me/messages/{id}/move.
MoveFamily == {"move_to_triage_folder", "archive", "mark_junk",
               "move_to_user_folder", "move_to_inbox"}

TierOf(t) == IF t \in Tier1Types THEN 1 ELSE IF t \in Tier2Types THEN 2 ELSE 3

RequiresGrant(t) == TierOf(t) >= 2
=============================================================================
