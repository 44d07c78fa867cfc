----------------------------- MODULE OracleFeed -----------------------------
(***************************************************************************)
(* What carbon_oracle promises to those who read it, without ledger        *)
(* numbers, timestamps, storage lifetimes, periods or proposals: a quote   *)
(* has a price and an age in ledgers, is withdrawn when it is older than   *)
(* Ttl, and only a new quote makes it young again; a project's newest      *)
(* report has an age in seconds, and only a new report makes it young.     *)
(***************************************************************************)
EXTENDS Integers

CONSTANTS
  Keys,      \* what is quoted
  Prices,
  Ttl,       \* the age, in ledgers, up to which a quote is readable
  Projects,
  MaxGap,    \* bound of the model: seconds from one ledger to the next
  Nothing    \* no quote, or no report

VARIABLES
  quotes,
  reports    \* the age of the newest report of each project

vars == <<quotes, reports>>

Init ==
  /\ quotes = [k \in Keys |-> Nothing]
  /\ reports = [p \in Projects |-> Nothing]

Quote(k, price) ==
  /\ price > 0
  /\ quotes' = [quotes EXCEPT ![k] = [price |-> price, age |-> 0]]
  /\ UNCHANGED reports

Report(p) ==
  /\ reports' = [reports EXCEPT ![p] = 0]
  /\ UNCHANGED quotes

Aged(q) ==
  IF q # Nothing /\ q.age < Ttl
    THEN [price |-> q.price, age |-> q.age + 1]
    ELSE Nothing

\* A ledger closes, the given number of seconds after the one before it.
Age(seconds) ==
  /\ quotes' = [k \in Keys |-> Aged(quotes[k])]
  /\ reports' = [p \in Projects |-> IF reports[p] = Nothing
                                      THEN Nothing
                                      ELSE reports[p] + seconds]

Next ==
  \/ \E k \in Keys, price \in Prices : Quote(k, price)
  \/ \E p \in Projects : Report(p)
  \/ \E seconds \in 1 .. MaxGap : Age(seconds)

Spec == Init /\ [][Next]_vars
=============================================================================
