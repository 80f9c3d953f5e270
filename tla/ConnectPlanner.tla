--------------------------- MODULE ConnectPlanner ---------------------------
(***************************************************************************)
(* ConnectNetworkTransactionPlanner::plan (network_transaction.rs): the    *)
(* six operations of a full-tunnel connect, their kinds and scopes, and    *)
(* the apply order with and without the kill switch.  Payloads are left to *)
(* the Setting of the modules that use the plan.                           *)
(***************************************************************************)
EXTENDS Naturals, Sequences

\* The vector the planner builds, in array order.
ConnectKeys == <<"001_preserve_endpoint_route", "002_set_tunnel_address",
                 "003_set_tunnel_mtu", "004_route_full_tunnel", "005_set_dns",
                 "006_apply_firewall">>

KeySet == {ConnectKeys[i] : i \in 1..Len(ConnectKeys)}

\* operations[3..].rotate_right(1): the last element moves in front of the tail.
RotateTail(s) == SubSeq(s, 1, 3) \o <<s[Len(s)]>> \o SubSeq(s, 4, Len(s) - 1)

Planned(killSwitch) ==
  IF killSwitch THEN RotateTail(ConnectKeys) ELSE ConnectKeys

\* apply_order is the index in the planned vector plus one.
PlannedOrder(killSwitch, key) ==
  CHOOSE i \in 1..Len(ConnectKeys) : Planned(killSwitch)[i] = key

PlannedKind(killSwitch, key) ==
  CASE key = "004_route_full_tunnel"  -> "route"
    [] key = "005_set_dns"            -> "dns"
    [] key = "002_set_tunnel_address" -> "address"
    [] key = "006_apply_firewall"     ->
         IF killSwitch THEN "firewallOn" ELSE "firewallOff"
    [] OTHER                          -> "other"
=============================================================================
