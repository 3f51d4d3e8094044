----------------------------- MODULE MCRegisters -----------------------------
\* Seven registers of which three are reserved: symbols run out of registers,
\* and scratch registers are taken before and after the prologue.
EXTENDS Registers
=============================================================================
