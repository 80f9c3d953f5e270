------------------------ MODULE MCNetworkTransaction ------------------------
(***************************************************************************)
(* Instances of NetworkTransaction: two connect plans of the planner, with *)
(* and without the kill switch, and plans only a library caller can make:  *)
(* one that repeats a setting, one that contradicts it, a short one, one   *)
(* with an operation that cannot be rolled back, and one the validation    *)
(* refuses.                                                                *)
(***************************************************************************)
EXTENDS NetworkTransaction, ConnectPlanner, TLC

Connects == {"connect", "plain"} \cap Txns

\* <<key, order, kind, scope, setting, reversible>> of the hand-made plans.
HandMade(t) ==
  CASE t = "repeats" -> {<<"a", 1, "dns", "005_set_dns", 1, TRUE>>,
                         <<"b", 4, "dns", "005_set_dns", 1, TRUE>>}
    [] t = "conflict" -> {<<"a", 1, "dns", "005_set_dns", 1, TRUE>>,
                         <<"b", 2, "dns", "005_set_dns", 2, TRUE>>}
    [] t = "short"   -> {<<"a", 1, "dns", "005_set_dns", 1, TRUE>>,
                         <<"b", 2, "other", "003_set_tunnel_mtu", 1, TRUE>>}
    [] t = "oneway"  -> {<<"a", 3, "other", "003_set_tunnel_mtu", 1, TRUE>>,
                         <<"b", 7, "address", "002_set_tunnel_address", 1, FALSE>>}
    [] t = "unsafe"  -> {<<"a", 1, "route", "004_route_full_tunnel", 1, TRUE>>,
                         <<"b", 2, "firewallOn", "006_apply_firewall", 1, TRUE>>}
    [] OTHER         -> {}

Planner(t) == {<<k, PlannedOrder(t = "connect", k), PlannedKind(t = "connect", k),
                 k, t, TRUE>> : k \in KeySet}

RowsOf(t) == IF t \in Connects THEN Planner(t) ELSE HandMade(t)
Rows == UNION {{<<t, r>> : r \in RowsOf(t)} : t \in Txns}

MCOps == {<<r[1], r[2][1]>> : r \in Rows}
RowOf(o) == CHOOSE r \in Rows : <<r[1], r[2][1]>> = o

\* f @@ <<>> is f, tabulated once instead of computed at every use.
MCTxnOf == [o \in MCOps |-> o[1]] @@ <<>>
MCApplyOrder == [o \in MCOps |-> RowOf(o)[2][2]] @@ <<>>
MCKind == [o \in MCOps |-> RowOf(o)[2][3]] @@ <<>>
MCScope == [o \in MCOps |-> RowOf(o)[2][4]] @@ <<>>
MCSetting == [o \in MCOps |-> <<o[1], RowOf(o)[2][5]>>] @@ <<>>
MCReversible == {o \in MCOps : RowOf(o)[2][6]}
=============================================================================
