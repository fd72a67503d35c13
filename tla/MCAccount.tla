----------------------------- MODULE MCAccount -----------------------------
EXTENDS Account

MCLimits == {0, 5}
=============================================================================
