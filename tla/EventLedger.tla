------------------------------ MODULE EventLedger ------------------------------
(***************************************************************************)
(* What the event bus promises: a published event is owed to the audit log *)
(* until it is in the log or its retention has passed, and the log has it  *)
(* once.  Nothing here knows about deliveries, workers or failures.        *)
(***************************************************************************)
EXTENDS Integers

CONSTANT MaxEvents

VARIABLES
    published,  \* how many events there are
    owed,       \* those that somebody will still be given
    log         \* those in the audit log

vars == <<published, owed, log>>

Init == published = 0 /\ owed = {} /\ log = {}

\* One more event is owed; the oldest may have outlived their retention.
Publish ==
    /\ published < MaxEvents
    /\ published' = published + 1
    /\ \E n \in 0..published : owed' = (owed \cup {published'}) \ (1..n)
    /\ UNCHANGED log

Record(m) ==
    /\ m \in 1..published \ log
    /\ log' = log \cup {m}
    /\ UNCHANGED <<published, owed>>

\* What is in the log is owed no longer, and is not owed again.
Settle(m) ==
    /\ m \in owed \cap log
    /\ owed' = owed \ {m}
    /\ UNCHANGED <<published, log>>

Next == Publish \/ \E m \in 1..MaxEvents : Record(m) \/ Settle(m)

Spec == Init /\ [][Next]_vars
=============================================================================
