---------------------------- MODULE VwapEngine ----------------------------
(***************************************************************************)
(* VwapEngine of include/ofe/analytics/vwap_engine.h: its three sums.  The *)
(* snapshot divides them; VWAP and variance are compared by cross          *)
(* multiplication here, and the bands are VWAP plus and minus one and two  *)
(* square roots of the variance.                                           *)
(***************************************************************************)
EXTENDS Integers

ResetVwap == [priceVolume |-> 0, price2Volume |-> 0, volume |-> 0]

(* Mutant: the squares are not weighted by volume.                         *)
AddTradeUnweighted(s, price, volume) ==
  [priceVolume |-> s.priceVolume + price * volume,
   price2Volume |-> s.price2Volume + price * price,
   volume |-> s.volume + volume]

AddTrade(s, price, volume) ==
  IF volume <= 0 THEN s
  ELSE [priceVolume |-> s.priceVolume + price * volume,
        price2Volume |-> s.price2Volume + price * price * volume,
        volume |-> s.volume + volume]

(* The variance times the square of the volume, before max(0, .).          *)
ScaledVariance(s) == s.price2Volume * s.volume - s.priceVolume * s.priceVolume
===========================================================================
