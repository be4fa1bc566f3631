----------------------------- MODULE TurnContract -----------------------------
(***************************************************************************)
(* What a session promises about its turns, whoever writes its rows and    *)
(* however its processes interleave: a turn is accepted, started and       *)
(* settled; one turn at a time drives the session's CLI, no turn drives it *)
(* twice, and a driver gives way only when it is settled or its process    *)
(* died.                                                                   *)
(***************************************************************************)
EXTENDS Naturals

CONSTANTS Turns, NoTurn

VARIABLES phase,   \* [Turns -> Phases]
          driver,  \* the turn that drives the CLI, or NoTurn
          deaths   \* how many processes died

Phases == {"absent", "accepted", "running", "settled", "released", "lost"}

Init ==
    /\ phase = [t \in Turns |-> "absent"]
    /\ driver = NoTurn
    /\ deaths = 0

Move(t, from, to) ==
    /\ phase[t] \in from
    /\ phase' = [phase EXCEPT ![t] = to]

Accept(t) == Move(t, {"absent"}, "accepted") /\ UNCHANGED <<driver, deaths>>

Start(t) == Move(t, {"absent", "accepted"}, "running") /\ UNCHANGED <<driver, deaths>>

Settle(t) == Move(t, {"accepted", "running"}, "settled") /\ UNCHANGED <<driver, deaths>>

Drive(t) ==
    /\ driver = NoTurn
    /\ phase[t] \in {"running", "settled"}
    /\ driver' = t
    /\ UNCHANGED <<phase, deaths>>

GiveWay(t) ==
    /\ driver = t
    /\ Move(t, {"settled"}, "released")
    /\ driver' = NoTurn
    /\ UNCHANGED deaths

\* A process dies with the turns it had launched.
Die(gone) ==
    /\ \A t \in gone : phase[t] \in {"running", "settled"}
    /\ phase' = [t \in Turns |-> IF t \in gone THEN "lost" ELSE phase[t]]
    /\ driver' = IF driver \in gone THEN NoTurn ELSE driver
    /\ deaths' = deaths + 1

Next ==
    \/ \E t \in Turns : Accept(t) \/ Start(t) \/ Settle(t) \/ Drive(t) \/ GiveWay(t)
    \/ \E gone \in SUBSET Turns : Die(gone)

Spec == Init /\ [][Next]_<<phase, driver, deaths>>
===============================================================================
