------------------------------ MODULE ShareVault ------------------------------
(***************************************************************************)
(* What a reserve promises its depositors, and nothing else: shares in a   *)
(* pool of assets whose worth never falls.  Lending, interest, fees and    *)
(* rounding are left to the reserve that implements this.                  *)
(***************************************************************************)
EXTENDS Integers, TLAPS

VARIABLES
  assets,  \* liquidity that belongs to the shareholders
  shares   \* shares outstanding

svars == <<assets, shares>>

\* A share is worth at least as much after the step as before it.
KeepsWorth == assets' * shares >= assets * shares'

Init == assets = 0 /\ shares = 0

\* Assets come in and shares are issued, the first ones at par.
Issue ==
  /\ shares' >= shares
  /\ assets' > assets
  /\ IF shares = 0 THEN shares' <= assets' - assets ELSE KeepsWorth

\* Shares are given back for no more than their part of the assets.
Redeem ==
  /\ shares' < shares
  /\ KeepsWorth

\* The assets earn; no step takes from them without redeeming shares.
Earn == shares' = shares /\ assets' >= assets

Next ==
  /\ assets' \in Nat
  /\ shares' \in Nat
  /\ Issue \/ Redeem \/ Earn

Spec == Init /\ [][Next]_svars

\* The worth of a share starts at par, so it never is below 1: what an account
\* that implements the vault owes its shareholders, it has.
WorthAtLeastPar ==
  /\ assets \in Nat
  /\ shares \in Nat
  /\ shares <= assets

\* With b for a, and t for s, a worth of at least par stays so.
LEMMA ParArithmetic ==
  ASSUME NEW a \in Nat, NEW s \in Nat \ {0}, NEW b \in Nat, NEW t \in Nat,
         s <= a, b * s >= a * t
  PROVE  t <= b
  <1>1. a * t >= s * t
    OBVIOUS
  <1>2. b * s >= t * s
    BY <1>1
  <1> QED BY <1>2

\* Steps that keep the worth of a share keep it at par or above.
THEOREM ParKept == Spec => []WorthAtLeastPar
  <1>1. Init => WorthAtLeastPar
    BY DEF Init, WorthAtLeastPar
  <1>2. ASSUME WorthAtLeastPar, [Next]_svars PROVE WorthAtLeastPar'
    <2>1. CASE UNCHANGED svars
      BY <1>2, <2>1 DEF WorthAtLeastPar, svars
    <2>2. ASSUME Next PROVE WorthAtLeastPar'
      <3>1. /\ assets \in Nat /\ shares \in Nat /\ shares <= assets
            /\ assets' \in Nat /\ shares' \in Nat
        BY <1>2, <2>2 DEF WorthAtLeastPar, Next
      <3>2. CASE shares # 0 /\ KeepsWorth
        BY <3>1, <3>2, ParArithmetic DEF KeepsWorth, WorthAtLeastPar
      <3>3. CASE Issue /\ shares = 0
        <4>1. shares' <= assets' - assets
          BY <3>3 DEF Issue
        <4>2. \A a, b, t \in Nat : t <= b - a => t <= b
          OBVIOUS
        <4>3. shares' <= assets'
          BY <3>1, <4>1, <4>2
        <4> QED BY <3>1, <4>3 DEF WorthAtLeastPar
      <3>4. CASE Earn
        BY <3>1, <3>4 DEF Earn, WorthAtLeastPar
      <3>5. Issue /\ shares # 0 => KeepsWorth
        BY DEF Issue
      <3>6. Redeem => shares # 0 /\ KeepsWorth
        BY <3>1 DEF Redeem
      <3> QED BY <2>2, <3>2, <3>3, <3>4, <3>5, <3>6 DEF Next
    <2> QED BY <1>2, <2>1, <2>2
  <1> QED BY <1>1, <1>2, PTL DEF Spec
===============================================================================
