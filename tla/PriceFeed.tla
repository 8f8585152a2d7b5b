------------------------------- MODULE PriceFeed -------------------------------
(***************************************************************************)
(* get_pyth_price (utils/prices.rs): which Pyth messages the program       *)
(* accepts, and the scaled price it reads from one.  A message carries its *)
(* decimal exponent as a fraction up / down of powers of ten.              *)
(***************************************************************************)
EXTENDS FixedPoint

CONSTANT MAX_AGE_SECONDS  \* oldest price accepted

ASSUME AgeAssumption == MAX_AGE_SECONDS \in Nat

CONFIDENCE_FACTOR == 50

\* A PriceUpdateV2 account: what Pyth signed, and how far it was verified.
MessageType ==
  [ verified     : BOOLEAN,
    price        : Int,
    conf         : Nat,
    up           : Nat \ {0},
    down         : Nat \ {0},
    publish_time : Int ]

\* A publish time ahead of the clock is accepted: its age is negative.
CanGetPythPrice(m, now) ==
  /\ m.verified
  /\ now - m.publish_time <= MAX_AGE_SECONDS
  /\ m.price > 0
  /\ Smaller(m.conf * CONFIDENCE_FACTOR, MAX_U64) <= m.price
  /\ CanMul(m.price, RATE_SCALE)
  /\ CanMul(m.price * RATE_SCALE, m.up)

\* Rounded down, to 0 for a price below one unit of the scale.
pyth_price_sf(m) == MulDiv(m.price * RATE_SCALE, m.up, m.down)
================================================================================
