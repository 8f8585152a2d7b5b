------------------------------- MODULE Addresses -------------------------------
(***************************************************************************)
(* The addresses that accounts refer to each other by.                     *)
(***************************************************************************)

CONSTANTS
  Reserves,   \* addresses of reserves
  NoReserve   \* Pubkey::default(): the key of an empty slot, or one not set yet

ASSUME AddressAssumption == NoReserve \notin Reserves
===============================================================================
