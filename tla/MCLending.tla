------------------------------ MODULE MCLending ------------------------------
(***************************************************************************)
(* A market of up to two reserves, and of a lender and a borrower, each of *)
(* whom may do anything that their tokens allow.                           *)
(***************************************************************************)
EXTENDS Lending, TLC

BaseConfig ==
  [ status                    |-> 0,
    deposit_limit             |-> 4,
    borrow_limit              |-> 2,
    min_borrow_rate_bps       |-> 10000,
    optimal_borrow_rate_bps   |-> 10000,
    max_borrow_rate_bps       |-> 10000,
    optimal_utilization_bps   |-> 5000,
    liquidation_bonus_pct     |-> 5000,
    protocol_fee              |-> 1000,
    loan_to_value_pct         |-> 50,
    liquidation_threshold_pct |-> 100,
    pyth_oracle               |-> TRUE ]

MCConfigs  == {BaseConfig,
               [BaseConfig EXCEPT !.status = 1],
               [BaseConfig EXCEPT !.protocol_fee = 5000]}
OneConfig  == {BaseConfig}
MCAmounts  == {2}
OneToken   == {1}

Message(price, age) ==
  [ verified |-> TRUE, price |-> price, conf |-> 0, up |-> 1, down |-> 1,
    publish_time |-> age ]

\* Nothing tells one user from another, or one reserve; each run has two of
\* either at most, so that this set is a group.
Symmetry == Permutations(Users) \cup Permutations(Reserves)

\* One price, and messages to be refused: not verified, too old, too uncertain.
MCMessages ==
  { Message(1, 0), Message(3, 2),
    [Message(3, 0) EXCEPT !.verified = FALSE], [Message(3, 0) EXCEPT !.conf = 1] }
===============================================================================
