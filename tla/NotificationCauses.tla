-------------------------- MODULE NotificationCauses --------------------------
(***************************************************************************)
(* Why an event may be notified more than once: Notifications with a       *)
(* history variable that counts, for each event, the occasions on which    *)
(* the check of the store could not help.  There are two besides a send    *)
(* that rejects after the notification went out: another invocation was    *)
(* past the check already and had not called mark() yet, or the process no *)
(* longer knew that the event was done, because it died or because the     *)
(* store was at its limit.                                                 *)
(***************************************************************************)
EXTENDS Notifications

VARIABLE causes  \* history: such occasions so far, per event

causeVars == <<vars, causes>>

\* Past the check of the store, and not in it yet.
InAwait(h, e) == handlers[h].pc \in {"sending", "sent"} /\ Event(h) = e

\* The process knows that e has been notified.
Notified(e) ==
    \/ Remembered(e)
    \/ \E h \in Handlers : handlers[h].pc = "sent" /\ Event(h) = e

\* An invocation goes past the check while another one is in its awaits.
Overlaps(e) ==
    \E g, h \in Handlers :
        /\ InAwait(g, e)
        /\ ~Busy(h) /\ InAwait(h, e)'

\* What the process knew of e is gone, with the process or for want of room.
Forgets(e) ==
    /\ Notified(e) /\ ~Notified(e)'
    /\ faults' # faults \/ Len(seen) >= StoreSize

Observed ==
    causes' = [e \in Events |->
                  IF (Overlaps(e) \/ Forgets(e)) /\ causes[e] < MaxCount
                  THEN causes[e] + 1 ELSE causes[e]]

CauseInit == Init /\ causes = [e \in Events |-> 0]

CauseNext == Next /\ Observed

CauseSpec == CauseInit /\ [][CauseNext]_causeVars

FairCauseSpec == CauseSpec /\ Fairness

-----------------------------------------------------------------------------
\* The idempotent consumer: beyond the first, every notification of an event is
\* paid for by a rejected send, by two invocations that overlapped, by a crash
\* or by the limit of the store.  That the relay published twice, that the
\* broker delivered again or that a retry was put back or doubled, however
\* often and in whatever order, is not enough (processed-events.store.ts).
RepeatsAreAccountedFor ==
    \A e \in Events : sent[e] <= 1 + failures[e] + causes[e]

=============================================================================
