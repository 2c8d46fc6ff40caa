------------------------------ MODULE MCWtopRun ------------------------------
EXTENDS WtopRun

MCBudgets == {<<0, 0>>, <<3, 0>>, <<3, 2>>}
MCRoomy == {<<5, 0>>}
=============================================================================
