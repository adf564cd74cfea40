--------------------------- MODULE RestartNotifier ---------------------------
(***************************************************************************)
(* What the MySQL restart monitor promises its subscribers (spec 4.D),    *)
(* with the uptime arithmetic left out: a subscriber is added and removed *)
(* by its own channel; when the monitor decides the server restarted,     *)
(* every current subscriber is left holding a restart notice, which stays *)
(* until the subscriber receives it.  A notice is a Boolean: several      *)
(* notices queued on one channel ask for the same re-configuration.       *)
(***************************************************************************)
EXTENDS Naturals

CONSTANT Chans          \* subscriber channels

VARIABLES
    subscribers,        \* the channels subscribed now
    pending,            \* pending[c]: c holds a notice not yet received
    announced           \* restarts announced so far

vars == <<subscribers, pending, announced>>

Init ==
    /\ subscribers = {}
    /\ pending = [c \in Chans |-> FALSE]
    /\ announced = 0

\* A fresh channel is subscribed; it holds nothing.
Subscribe(c) ==
    /\ c \notin subscribers
    /\ ~pending[c]
    /\ subscribers' = subscribers \cup {c}
    /\ UNCHANGED <<pending, announced>>

\* Only the channel unsubscribed leaves; what it holds stays in it.
Unsubscribe(c) ==
    /\ c \in subscribers
    /\ subscribers' = subscribers \ {c}
    /\ UNCHANGED <<pending, announced>>

\* A restart is announced: every subscriber now holds a notice.
Notify ==
    /\ pending' = [c \in Chans |-> pending[c] \/ c \in subscribers]
    /\ announced' = announced + 1
    /\ UNCHANGED subscribers

\* The subscriber receives what it holds.
Receive(c) ==
    /\ pending[c]
    /\ pending' = [pending EXCEPT ![c] = FALSE]
    /\ UNCHANGED <<subscribers, announced>>

Next ==
    \/ Notify
    \/ \E c \in Chans : Subscribe(c) \/ Unsubscribe(c) \/ Receive(c)

Spec == Init /\ [][Next]_vars

=============================================================================
