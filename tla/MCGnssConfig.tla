---------------------------- MODULE MCGnssConfig ----------------------------
\* Configuration files for GnssConfig: nothing set, a legal delay, legal values
\* with RTCM, an illegal delay without it.
EXTENDS GnssConfig

File(s, d, r) == [scale |-> s, delay |-> d, rtcm |-> r]

SomeConfs == {File("none", "none", FALSE), File("none", "60", FALSE),
              File("UTC", "60", TRUE), File("UTC", "0", FALSE)}

=============================================================================
