------------------------------- MODULE Session -------------------------------
(***************************************************************************)
(* What the shared token cache promises (worker.go 29-32): the program is  *)
(* on one session at a time, and logs in only when it has none.            *)
(***************************************************************************)
EXTENDS Naturals

VARIABLES
    held,       \* the program has, or is being handed, the token HEP accepts
    logins,     \* logins HEP has accepted
    losses      \* sessions that ended and answers that were lost

Init == held = FALSE /\ logins = 0 /\ losses = 0

Login ==
    /\ ~held
    /\ held' = TRUE
    /\ logins' = logins + 1
    /\ UNCHANGED losses

\* Nothing but HEP and the network takes a session from the program.
Lose ==
    /\ held' = FALSE
    /\ losses' = losses + 1
    /\ UNCHANGED logins

Next == Login \/ Lose

Spec == Init /\ [][Next]_<<held, logins, losses>>
=============================================================================
