---------------------------- MODULE MCSystemProxy ----------------------------
(***************************************************************************)
(* Small instances of SystemProxy.  A user without a proxy, and one behind *)
(* a proxy configured by a PAC file: between them every value occurs both  *)
(* present and absent, and equal to and different from what a capture      *)
(* writes.                                                                 *)
(***************************************************************************)
EXTENDS SystemProxy

MCValues == {"on", "off", "<local>", "8899", "corp", "pac", "absent"}

NoProxy == [n \in Names |->
    CASE n = "ProxyEnable" -> "off" [] n = "AutoDetect" -> "on" [] OTHER -> "absent"]
PacProxy == [n \in Names |->
    CASE n = "ProxyEnable" -> "on" [] n = "ProxyServer" -> "corp" [] n = "AutoConfigURL" -> "pac"
      [] n = "AutoDetect" -> "off" [] OTHER -> "absent"]

MCUserSettings == {NoProxy, PacProxy}
MCPorts == {"8899"}
MCAbsent == "absent"
=============================================================================
