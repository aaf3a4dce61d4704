---------------------------- MODULE UpgradeTask ----------------------------
(***************************************************************************)
(* The persisted upgrade task of internal/upgrade: its states, the part of *)
(* its record that decides anything, and the question "does this record    *)
(* block a new upgrade?".  No variables: UpgradeHost gives the record a    *)
(* disk, a manager and a worker.                                           *)
(***************************************************************************)
EXTENDS FiniteSets, Naturals

CONSTANT NoRecord   \* what Load returns for a task without a task.json

\* The states of github.com/tokenlive/tokenlive-admin/pkg/upgradehost, as the
\* manager and the worker write and compare them.
Inflight == {"downloading", "installing", "restarting", "verifying"}
Terminal == {"confirmation_expired", "succeeded", "failed", "needs_attention"}
State    == {"awaiting_confirmation", "queued"} \cup Inflight \cup Terminal

(***************************************************************************)
(* task.json.  acceptedDigest: the one-time secret has been consumed;      *)
(* workerPID: the worker's heartbeat is in the record; the other fields    *)
(* carry identifiers and diagnostics that no branch reads.                 *)
(***************************************************************************)
Record == [state          : State,
           acceptedDigest : BOOLEAN,
           workerPID      : BOOLEAN,
           launchUnknown  : BOOLEAN,
           cleanupPending : BOOLEAN]

ASSUME NoRecordAssumption == NoRecord \notin Record

\* Mutant of Offer: the state is left at its zero value.
OfferUnset == [state |-> "", acceptedDigest |-> FALSE, workerPID |-> FALSE,
               launchUnknown |-> FALSE, cleanupPending |-> FALSE]

\* The record Prepare creates.
Offer == [state          |-> "awaiting_confirmation",
          acceptedDigest |-> FALSE,
          workerPID      |-> FALSE,
          launchUnknown  |-> FALSE,
          cleanupPending |-> FALSE]

\* Mutant of Blocks: only open tasks block.
BlocksWhileOpen(state, confirmOver) ==
    /\ state \notin Terminal \cup {"none"}
    /\ ~(state = "awaiting_confirmation" /\ confirmOver)

(***************************************************************************)
(* ActiveTask # nil, for one listed task: needs_attention blocks, and so   *)
(* does whatever is not terminal, except an offer whose window has closed. *)
(***************************************************************************)
Blocks(state, confirmOver) ==
    \/ state = "needs_attention"
    \/ /\ state \notin Terminal \cup {"none"}
       /\ ~(state = "awaiting_confirmation" /\ confirmOver)
=============================================================================
