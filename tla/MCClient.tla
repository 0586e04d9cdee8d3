------------------------------ MODULE MCClient ------------------------------
(* The external client and three nodes, for TLC.                           *)
EXTENDS ExtClient

\* At the console and the GUI more is withdrawn than was paid in, the deposits of the
\* benchmark pass the largest integer, and the browser withdraws a negative amount.
MCScript ==
    LET txn(op, amount) == [Op |-> op, Amount |-> amount]
        overdrawn == <<txn("Deposit", 2), txn("Withdrawal", 3)>>
    IN [console |-> overdrawn, gui |-> overdrawn,
        benchmark |-> <<txn("Deposit", 3), txn("Deposit", 3)>>,
        web |-> <<txn("Withdrawal", -2), txn("Deposit", -1)>>]
MCFaults == [console |-> 2, gui |-> 1, benchmark |-> 1, web |-> 1]

\* Three deposits typed at the console.
MCDeposits == [console |-> [i \in 1..3 |-> [Op |-> "Deposit", Amount |-> 1]]]
MCConsoleFaults == [console |-> 2]
=============================================================================
