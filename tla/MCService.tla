------------------------------ MODULE MCService ------------------------------
(* Instances of ServiceManager for TLC. *)
EXTENDS ServiceManager

Targets     == {"dns1", "dns2", "ip1", "ip2", "ipv6"}
IPTargets   == {"ip1", "ip2", "ipv6"}
IPv6Targets == {"ipv6"}
=============================================================================
