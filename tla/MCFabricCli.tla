---------------------------- MODULE MCFabricCli ----------------------------
(***************************************************************************)
(* Two organizations with a peer each; commands for all peers, for one     *)
(* peer, for one organization, or for one that does not exist.             *)
(***************************************************************************)
EXTENDS FabricCli, TLC

CONSTANTS o1, o2, p1, p2, nobody, w1, w2

MCPeersOf == o1 :> <<p1>> @@ o2 :> <<p2>>
MCFlags == {[peers |-> {}, orgs |-> {}], [peers |-> {p2}, orgs |-> {}],
            [peers |-> {}, orgs |-> {o2}], [peers |-> {}, orgs |-> {nobody}]}
MCWallets == {{"Admin", "User1"}, {"User1"}}
MCPolicies == {None, {{o1, o2}}}
=============================================================================
