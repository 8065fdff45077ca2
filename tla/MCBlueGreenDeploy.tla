------------------------- MODULE MCBlueGreenDeploy -------------------------
EXTENDS BlueGreenDeploy
=============================================================================
