---------------------------- MODULE MCJacdacUart ----------------------------
EXTENDS JacdacUart
=============================================================================
