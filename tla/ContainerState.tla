--------------------------- MODULE ContainerState ---------------------------
(***************************************************************************)
(* What every task of one container shares: container_state, an atomic     *)
(* that holds a ContainerState, and container_state_notify, a tokio        *)
(* Notify.  The code only uses Notify::notified() inside tokio::select!    *)
(* and Notify::notify_waiters().  notify_waiters() completes the Notified  *)
(* futures that exist at that moment and leaves no permit behind, so a     *)
(* task whose select! is not pending at that moment never hears of it.     *)
(***************************************************************************)
EXTENDS Naturals

CONSTANT Listeners   \* the tasks that wait on container_state_notify

VARIABLES containerState,   \* the value of the atomic
          notified          \* the Notified future of each listener

stateVars == <<containerState, notified>>

\* container_state.rs: the enumeration stored in the atomic.
ContainerStates ==
    {"Running", "MissingConnections", "DeadComponent", "ShuttingDown", "Closed"}

\* No future, a pending one, and one that notify_waiters() has completed.
FutureStates == {"none", "waiting", "woken"}

StateTypeOK == /\ containerState \in ContainerStates
               /\ notified \in [Listeners -> FutureStates]

StateInit == /\ containerState = "Running"
             /\ notified = [t \in Listeners |-> "none"]

\* container_state.store(s)
Store(s) == containerState' = s

\* container_state_notify.notify_waiters()
NotifyWaiters ==
    notified' = [t \in Listeners |->
                   IF notified[t] = "waiting" THEN "woken" ELSE notified[t]]

\* A select! that has notified() among its branches starts to wait: it
\* replaces the future of the previous iteration, completed or not.  A woken
\* task that finds nothing to do loads the state and listens in one step: a
\* store and notification between the two, which it would miss, are left out.
Listen(t) == notified' = [notified EXCEPT ![t] = "waiting"]

\* The select! ends and the task does not enter it again at once.
StopListening(t) == notified' = [notified EXCEPT ![t] = "none"]

\* What the tasks of the container other than `own` do to the shared state.
\* Nothing stores Running after the start or MissingConnections ever.
OthersAct(own) ==
    \/ /\ \E s \in {"DeadComponent", "ShuttingDown", "Closed"} : Store(s)
       /\ UNCHANGED notified
    \/ /\ \/ NotifyWaiters
          \/ \E t \in Listeners \ own : Listen(t) \/ StopListening(t)
       /\ UNCHANGED containerState
=============================================================================
