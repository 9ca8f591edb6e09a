------------------------ MODULE WorkOrderTransitions ------------------------
(***************************************************************************)
(* The state machine of a work order, as tables: which statuses there are, *)
(* which changes the status endpoint allows, when an order may be          *)
(* assigned, and which domain event each change produces.                  *)
(***************************************************************************)

Status == {"open", "assigned", "in_progress", "completed", "cancelled"}

\* Seeded fault: work may start on an order nobody was assigned to.
StartUnassigned ==
    [ open        |-> {"in_progress", "cancelled"},
      assigned    |-> {"in_progress", "cancelled"},
      in_progress |-> {"completed", "cancelled"},
      completed   |-> {},
      cancelled   |-> {} ]

\* ALLOWED_TRANSITIONS: what PATCH /work-orders/:id/status may do.
AllowedTransitions ==
    [ open        |-> {"cancelled"},
      assigned    |-> {"in_progress", "cancelled"},
      in_progress |-> {"completed", "cancelled"},
      completed   |-> {},
      cancelled   |-> {} ]

CanTransition(from, to) == to \in AllowedTransitions[from]

\* Seeded fault: an order under way can be handed to somebody else.
ReassignUnderWay == {"open", "assigned", "in_progress"}

AssignableStatuses == {"open", "assigned"}

CanAssign(status) == status \in AssignableStatuses

EventType ==
    {"created", "assigned", "started", "completed", "cancelled", "triaged"}

\* STATUS_EVENTS: the event of each status the status endpoint can reach.
StatusEvents ==
    [ in_progress |-> "started",
      completed   |-> "completed",
      cancelled   |-> "cancelled" ]

=============================================================================
