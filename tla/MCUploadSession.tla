--------------------------- MODULE MCUploadSession ---------------------------
EXTENDS UploadSession

\* One record of the boot before, with an uptime this boot reaches too.
MCRecovered == <<[sequence |-> 0, current |-> FALSE, uptime |-> 1]>>

\* With discovery and NTP, or with neither.
MCAnswering == {{"discovery", "ntp"}, {}}
===============================================================================
