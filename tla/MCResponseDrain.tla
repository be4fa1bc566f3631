--------------------------- MODULE MCResponseDrain ---------------------------
(* ResponseDrain on small instances. *)
EXTENDS ResponseDrain

Plain == [turns |-> 2, queries |-> 3, tasks |-> 0, wakeups |-> 0, validates |-> FALSE,
          interrupts |-> FALSE, sendFails |-> FALSE, cliExits |-> FALSE, cancels |-> TRUE]

\* Steers with interrupts and failing sends, and fewer of them with cancellations;
\* background work on a CLI that may exit; a validator; a steer among background work.
Steers == [Plain EXCEPT !.queries = 5, !.interrupts = TRUE, !.sendFails = TRUE, !.cancels = FALSE]
Cancelled == [Steers EXCEPT !.queries = 4, !.cancels = TRUE]
Tasked == [Plain EXCEPT !.queries = 2, !.tasks = 2, !.wakeups = 1, !.cliExits = TRUE]
Validated == [Plain EXCEPT !.turns = 1, !.queries = 4, !.validates = TRUE, !.interrupts = TRUE,
                           !.cliExits = TRUE]
SteeredTasks == [Plain EXCEPT !.turns = 1, !.tasks = 1, !.cancels = FALSE]
MCSettings == {Steers, Cancelled, Tasked, Validated, SteeredTasks}
==============================================================================
