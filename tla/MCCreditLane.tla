---------------------------- MODULE MCCreditLane ----------------------------
\* Model-checking instance of CreditLane; the window sizes are in the cfg.
EXTENDS CreditLane
=============================================================================
