----------------------------- MODULE MCMdecDma -----------------------------
\* Frames of none, one or two macroblocks, with padding before, between and
\* behind them and with a macroblock cut short behind a whole one; slices shorter
\* and longer than a macroblock.
EXTENDS MdecDma

MCStreams ==
  {<<"pad">>, <<"data", "data", "data">>,
   <<"pad", "data", "data", "pad", "data", "data", "pad">>}
JustData == {"data"}
MCOutSizes == {1, 3}
MCCounts == {0, 3}
=============================================================================
