-------------------------------- MODULE Bank --------------------------------
(***************************************************************************)
(* An account and the transactions on it (lab6/bank/bank.go).  Balances    *)
(* and amounts are Go integers, which wrap around.  Three of the clients   *)
(* let their user enter the three operations and no negative amount; the   *)
(* web server sends on whatever integers the browser names.                *)
(***************************************************************************)
EXTENDS Integers, Sequences

CONSTANT MaxInt     \* the largest int (2^63 - 1 in the program)

ASSUME IntAssumption == MaxInt \in Nat

Wrap(i) == ((i + MaxInt + 1) % (2 * (MaxInt + 1))) - (MaxInt + 1)

\* An operation is a number: "Unknown" is any that has no case.
Transaction == [Op : {"Balance", "Deposit", "Withdrawal", "Unknown"},
                Amount : -(MaxInt + 1)..MaxInt]

\* What the console, the GUI and the benchmark send.
Entered == {t \in Transaction : t.Op # "Unknown" /\ t.Amount >= 0}

\* The balance after a transaction that is not refused.
Booked(balance, txn) ==
    CASE txn.Op = "Deposit" -> Wrap(balance + txn.Amount)
      [] txn.Op = "Withdrawal" -> Wrap(balance - txn.Amount)
      [] OTHER -> balance

\* Mutant: it is not looked at whether the balance covers what is paid out.
Process_overdraw(balance, txn) ==
    LET refused == (txn.Op = "Deposit" /\ txn.Amount < 0) \/ txn.Op = "Unknown"
    IN [Balance |-> IF refused THEN balance ELSE Booked(balance, txn), Failed |-> refused]

\* Account.Process: the new balance, and whether ErrorString is set.  A withdrawal is
\* judged by what would be left: a negative one raises the balance.
Process(balance, txn) ==
    LET refused == \/ txn.Op = "Deposit" /\ txn.Amount < 0
                   \/ txn.Op = "Withdrawal" /\ Booked(balance, txn) < 0
                   \/ txn.Op = "Unknown"
    IN [Balance |-> IF refused THEN balance ELSE Booked(balance, txn), Failed |-> refused]

\* The balance of an account, opened with 0, after the transactions txns.
BalanceAfter(txns) ==
    LET after[i \in 0..Len(txns)] ==
            IF i = 0 THEN 0 ELSE Process(after[i - 1], txns[i]).Balance
    IN after[Len(txns)]
=============================================================================
