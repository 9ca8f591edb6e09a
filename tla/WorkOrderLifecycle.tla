-------------------------- MODULE WorkOrderLifecycle --------------------------
(***************************************************************************)
(* What the work-orders service promises of an order, with no concurrency  *)
(* in sight: the state chart of docs/flows.md, section 8.  Every change of *)
(* an order happens at once with one event that carries the new state; an  *)
(* event's id says its place among the events of its order.                *)
(***************************************************************************)
EXTENDS Naturals

CONSTANTS Orders, Assignees, Triages, None,
          Ids    \* the numbers events can be given

VARIABLES
    state,    \* each order's state
    events    \* the domain events recorded so far

vars == <<state, events>>

Absent == [status |-> "absent", assignee |-> None, triage |-> None]

Init ==
    /\ state = [o \in Orders |-> Absent]
    /\ events = {}

\* Order o becomes new, and an event of this type tells so.
Becomes(o, new, type) ==
    /\ state' = [state EXCEPT ![o] = new]
    /\ \E id \in Ids :
          /\ \A e \in events : e.id # id /\ (e.order = o => e.id < id)
          /\ events' = events \cup
                {[id |-> id, order |-> o, type |-> type, data |-> new]}

Open(o) ==
    /\ state[o] = Absent
    /\ Becomes(o, [Absent EXCEPT !.status = "open"], "created")

Assign(o, a) ==
    /\ state[o].status \in {"open", "assigned"}
    /\ Becomes(o, [state[o] EXCEPT !.status = "assigned", !.assignee = a],
               "assigned")

Start(o) ==
    /\ state[o].status = "assigned"
    /\ state[o].assignee # None
    /\ Becomes(o, [state[o] EXCEPT !.status = "in_progress"], "started")

Complete(o) ==
    /\ state[o].status = "in_progress"
    /\ Becomes(o, [state[o] EXCEPT !.status = "completed"], "completed")

Cancel(o) ==
    /\ state[o].status \in {"open", "assigned", "in_progress"}
    /\ Becomes(o, [state[o] EXCEPT !.status = "cancelled"], "cancelled")

\* Triage annotates, once, in whatever state the order is.
Triage(o, t) ==
    /\ state[o] # Absent
    /\ state[o].triage = None
    /\ Becomes(o, [state[o] EXCEPT !.triage = t], "triaged")

Change(o) ==
    \/ Open(o)
    \/ \E a \in Assignees : Assign(o, a)
    \/ Start(o)
    \/ Complete(o)
    \/ Cancel(o)
    \/ \E t \in Triages : Triage(o, t)

Next == \E o \in Orders : Change(o)

Spec == Init /\ [][Next]_vars

=============================================================================
