----------------------------- MODULE EventHistory -----------------------------
(***************************************************************************)
(* EventDispatch with a record of what exceptions have cut short.  A lock  *)
(* makes scheduleAction throw a DeviceLockedException, and nothing between *)
(* there and the thread's first call handles it: the checks on the way are *)
(* not made, and a profile that was running is left half done.  What is    *)
(* true of the events and of their outputs is said here, up to that.       *)
(***************************************************************************)
EXTENDS EventDispatch

VARIABLES
    missed,         \* the events of which an exception may have cut a check short ...
    undone          \* ... and a run of their profiles

historyVars == <<vars, missed, undone>>

\* Thread t throws; some call that it was in is about the event e.
Cuts(t, e, About(_, _)) ==
    IsLocked(t) /\ Throw(t) /\ \E i \in DOMAIN stack[t] : About(stack[t][i], e)

\* A check of e begins; it runs a profile of e.
BeginsCheck(t, e)   == EnterEvent(t) /\ Top(t).event = e
BeginsProfile(t, e) == (Trigger(t) \/ (Deactivate(t) /\ e \in active)) /\ Top(t).event = e

HInit == Init /\ missed = {} /\ undone = {}

HNext ==
    /\ Next
    /\ missed' = {e \in Events : \/ \E t \in Threads : Cuts(t, e, Concerns)
                                 \/ e \in missed /\ ~ \E t \in Threads : BeginsCheck(t, e)}
    /\ undone' = {e \in Events : \/ \E t \in Threads : Cuts(t, e, InEvent)
                                 \/ e \in undone /\ ~ \E t \in Threads : BeginsProfile(t, e)}

HSpec == HInit /\ [][HNext]_historyVars

HFairSpec == HSpec /\ Fairness

-----------------------------------------------------------------------------
(* Properties.                                                             *)

\* EventHandler.java:25 "In order for the event to be considered triggered, all
\* device states in triggerEvents must be met": whenever nothing is on its way
\* to an event, it is active exactly if its condition holds of what the node
\* knows, whatever the order in which threads stored and checked the states.
\* An event that lost a check to an exception is excepted until its next check.
ActiveIffMet ==
    \A e \in Events \ missed : Settled(e) /\ (\A d \in Devices : <<e, d>> \notin onChange)
        => (e \in active <=> \A d \in Devices : eventTriggered(e, d, MustAsk(e)))

\* The devices that only an untriggering event drives are, whenever nothing is
\* under way, where its profile or its inverted profile wants them, in whatever
\* order the threads of its devices came through.  An event whose profile an
\* exception stopped is excepted until it runs a profile again.
OutputsFollow ==
    Quiet => \A e \in unTrigger \ undone :
        Settled(e) /\ Driven(e) =>
            \A el \in (IF e \in active THEN profile[e] ELSE inverted[e]) :
                actual[el.dev] = el.val
=============================================================================
