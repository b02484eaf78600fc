--------------------------- MODULE MCSymbolHalts ---------------------------
(* Instances of SymbolHalts for TLC. *)
EXTENDS SymbolHalts, TLC

CONSTANTS a, b, page1, page2

MCOneSymbol == {a}
MCTwoSymbols == {a, b}
MCOnePage == {page1}
MCNoPage == {}
MCBare == {"bare"}
MCDated == {"bare", "dated"}
MCOneItem == {"bare", "dated", "worded", "full"}
MCRepeated == {"bare", "twice"}
MCClear == {"halt", "reopen", "other"}
MCReopen == {"reopen"}
MCPair == {"halt", "reopen"}
MCHalts == {"halt", "both"}
MCUndated == {"undated"}
MCNoFaults == {}

MCSymbolSymmetry == Permutations(MCTwoSymbols)
=============================================================================
