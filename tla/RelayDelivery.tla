---------------------------- MODULE RelayDelivery ----------------------------
(***************************************************************************)
(* What the log relay promises the API (spec 4.E), with the buffers, the   *)
(* websocket and resend left out.  An entry that passed the level filter   *)
(* is accepted once; it is either sent at once or kept pending; a pending  *)
(* entry is sent later or given up when the buffers overflow.  The API     *)
(* receives accepted entries only, each at most once, and never one that   *)
(* was given up; it may also receive the "Lost N log entries" warning.     *)
(***************************************************************************)
EXTENDS Naturals, Sequences

CONSTANT LostWarning    \* the lost-count warning, not a numbered entry

VARIABLES
    delivered,          \* what the API received, in order
    pending,            \* accepted entries the relay still holds
    seen                \* entries accepted so far

vars == <<delivered, pending, seen>>

Init ==
    /\ delivered = <<>>
    /\ pending = {}
    /\ seen = {}

\* A new entry is accepted and kept; keeping it may give up others.
Store(e) ==
    /\ e \notin seen
    /\ seen' = seen \cup {e}
    /\ e \in pending'
    /\ pending' \subseteq pending \cup {e}
    /\ UNCHANGED delivered

\* A new or a pending entry reaches the API and is no longer held.
Send(e) ==
    /\ e \in pending \/ e \notin seen
    /\ delivered' = Append(delivered, e)
    /\ pending' = pending \ {e}
    /\ seen' = seen \cup {e}

\* The lost-count warning reaches the API.
Warn ==
    /\ delivered' = Append(delivered, LostWarning)
    /\ UNCHANGED <<pending, seen>>

\* Store and Send both leave the entry they act on in seen.
Next == Warn \/ \E e \in seen' : Store(e) \/ Send(e)

Spec == Init /\ [][Next]_vars

=============================================================================
