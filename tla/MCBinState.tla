----------------------------- MODULE MCBinState -----------------------------
EXTENDS BinState
OneBin == <<1>>
TwoBins == <<1, 2>>
=============================================================================
