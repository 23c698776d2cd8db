---------------------------- MODULE MCBoardStatus ----------------------------
EXTENDS BoardStatus

\* Everything starts, or all but one task, or no radio.
MCBoots ==
    {Task, Task \ {"sensor"}, Task \ {"mic"}, Task \ {"storage"}, Task \ {"wifi", "pairing"}}

MCResults == {"Success", "TransportFailed"}
MCRuntimes == {"Advertising", "Error"}
===============================================================================
