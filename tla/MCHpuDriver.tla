---------------------------- MODULE MCHpuDriver -----------------------------
EXTENDS HpuDriver, TLC

=============================================================================
