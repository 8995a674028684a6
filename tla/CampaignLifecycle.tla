-------------------------- MODULE CampaignLifecycle --------------------------
(***************************************************************************)
(* What vendors and administrators are told about a sponsored-listing      *)
(* campaign: its status moves along AD_CAMPAIGN_TRANSITIONS                *)
(* (backend/src/ad-campaigns/ad-campaign-state-machine.ts).  The one move  *)
(* the graph does not show is a cancellation that was decided on an older  *)
(* copy of the campaign and is saved over whatever has become of it.       *)
(***************************************************************************)
CONSTANT Campaigns

VARIABLES
  status,      \* status[c]: the status of campaign c, or "none"
  cancelling   \* campaigns some administrator has been allowed to cancel

Statuses ==
  {"pending_payment", "scheduled", "active", "ended", "cancelled"}

AD_CAMPAIGN_TRANSITIONS ==
  [pending_payment |-> {"scheduled", "active", "cancelled"},
   scheduled       |-> {"active", "cancelled"},
   active          |-> {"ended"},
   ended           |-> {},
   cancelled       |-> {}]

canTransition(from, to) ==
  from \in Statuses /\ to \in AD_CAMPAIGN_TRANSITIONS[from]

NonTerminal == {"pending_payment", "scheduled", "active"}

LifecycleInit ==
  /\ status = [c \in Campaigns |-> "none"]
  /\ cancelling = {}

Create(c) ==
  /\ status[c] = "none"
  /\ status' = [status EXCEPT ![c] = "pending_payment"]
  /\ UNCHANGED cancelling

Advance(c, to) ==
  /\ canTransition(status[c], to)
  /\ to # "cancelled"
  /\ status' = [status EXCEPT ![c] = to]
  /\ UNCHANGED cancelling

AskToCancel(c) ==
  /\ canTransition(status[c], "cancelled")
  /\ cancelling' = cancelling \cup {c}
  /\ UNCHANGED status

Cancel(c) ==
  /\ c \in cancelling
  /\ status' = [status EXCEPT ![c] = "cancelled"]
  /\ cancelling' \in {cancelling, cancelling \ {c}}

ForgetCancel(c) ==
  /\ cancelling' = cancelling \ {c}
  /\ UNCHANGED status

LifecycleNext ==
  \E c \in Campaigns :
    \/ Create(c)
    \/ \E to \in Statuses : Advance(c, to)
    \/ AskToCancel(c) \/ Cancel(c) \/ ForgetCancel(c)

LifecycleSpec ==
  LifecycleInit /\ [][LifecycleNext]_<<status, cancelling>>
=============================================================================
