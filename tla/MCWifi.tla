------------------------------- MODULE MCWifi -------------------------------
\* Instances of Wifi for TLC.
EXTENDS Wifi
=============================================================================
