---------------------------- MODULE MCMarketDays ----------------------------
(* Instances of MarketDays for TLC. *)
EXTENDS MarketDays, TLC

CONSTANTS background, page

MCOne == {background}
MCTwo == {background, page}
MCScheduler == {"scheduler"}
MCCli == {"cli"}
MCNoFiller == {}
MCNoFaults == {}
MCStoreHolds == {"fetch", "snapwrite", "gate", "cancel", "crash"}
MCPreserve == {"preserve"}
MCCandle == {"candle"}

MCSymmetry == Permutations({background, page})
=============================================================================
