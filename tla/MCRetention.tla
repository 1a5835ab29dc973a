---------------------------- MODULE MCRetention ----------------------------
\* Retention with two windows (the settings and the wizard), instantiated for TLC.
EXTENDS Retention
=============================================================================
