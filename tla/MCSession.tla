------------------------------- MODULE MCSession -------------------------------
EXTENDS Session

===============================================================================
