---------------------------- MODULE MCProvision ----------------------------
EXTENDS Provision
\* two networks; two passwords for the first, one that is too long for the other
MCCreds ==
  {[ssid |-> "A", pwd |-> "p"], [ssid |-> "A", pwd |-> "q"],
   [ssid |-> "B", pwd |-> "p"], [ssid |-> "B", pwd |-> "long"]}
MCLong == {"long"}
MCDefault == [ssid |-> "A", pwd |-> "p"]
MCCallers == {worker, shell}
=============================================================================
