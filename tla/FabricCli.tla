----------------------------- MODULE FabricCli -----------------------------
(***************************************************************************)
(* An operator who sets up a Fabric network with fabric-cli, one command   *)
(* after the other, and then calls the chaincode (fabric-cli/action,       *)
(* fabric-cli/channel, fabric-cli/chaincode).                              *)
(*                                                                         *)
(* A command works on the peers its flags select.  join and install loop   *)
(* over the organizations of these peers in the order of a Go map; a peer  *)
(* or a whole organization may fail to answer, and the operator may stop   *)
(* the command between two organizations.  The other commands make one     *)
(* request.  What the commands report, the queries among them, is all the  *)
(* operator knows.  Told that all peers joined and have the version that   *)
(* was deployed last, it turns to invoke and query, which hand their calls *)
(* to the executor of module Executor; with these a behaviour ends.        *)
(*                                                                         *)
(* A command that fails before its first request changes nothing and is    *)
(* not a step; without --user it needs the identity Admin or User1 of the  *)
(* organization it works for.  A policy is the set of the sets of          *)
(* organizations that satisfy it.                                          *)
(***************************************************************************)
EXTENDS Executor, Functions

CONSTANTS
  Orgs,       \* organizations of the SDK's configuration
  PeersOf,    \* the peers of each, in the order of its configuration
  Versions,   \* of the one chaincode
  Wallets,    \* identities that an organization may have
  Flags,      \* what --peer and --orgid may say
  Policies,   \* what --policy may say; None: nothing
  MaxFaults   \* bound on requests that are not answered

ASSUME FabricCliAssumption ==
  /\ IsFiniteSet(Orgs) /\ DOMAIN PeersOf = Orgs
  /\ \A o, q \in Orgs : o # q => Range(PeersOf[o]) \cap Range(PeersOf[q]) = {}
  /\ \A p \in Policies \ {None} : p \subseteq SUBSET Orgs
  /\ MaxFaults \in Nat

VARIABLES
  wallet,     \* identities of each organization, which no command changes
  created,    \* the channel exists
  joined,     \* peers on it
  installed,  \* peers that have each version
  deployed,   \* the version in use on the channel, and its policy
  cmd,        \* the command that runs
  told,       \* what the operator knows of joined, installed and deployed.version
  faults

network == <<wallet, created, joined, installed, deployed>>
session == <<cmd, told, faults>>
cliVars == <<vars, network, session>>

OrgPeers(o) == Range(PeersOf[o])
Peers       == UNION {OrgPeers(o) : o \in Orgs}
OrgsOf(ps)  == {o \in Orgs : OrgPeers(o) \cap ps # {}}

NotDeployed == [version |-> None, policy |-> {}]
NoCommand   == [op |-> "none", version |-> None, peers |-> {}, fixed |-> FALSE,
                todo |-> {}, err |-> FALSE, clean |-> TRUE]
Commands    == [op : {"none", "join", "install", "invoke", "query"},
                version : Versions \cup {None}, peers : SUBSET Peers, fixed : BOOLEAN,
                todo : SUBSET Orgs, err : BOOLEAN, clean : BOOLEAN]

CliTypeOK ==
  /\ TypeOK
  /\ wallet \in [Orgs -> Wallets]
  /\ created \in BOOLEAN /\ joined \subseteq Peers /\ installed \in [Versions -> SUBSET Peers]
  /\ deployed \in [version : Versions \cup {None}, policy : SUBSET SUBSET Orgs]
  /\ cmd \in Commands
  /\ told \in [joined : SUBSET Peers, installed : [Versions -> SUBSET Peers],
              version : Versions \cup {None}]
  /\ faults \in 0 .. MaxFaults

-----------------------------------------------------------------------------
(* Action.Initialize: the peers of a command. *)

Flagged(f) == f.peers # {} \/ f.orgs # {}

\* getPeers: --peer wins over --orgid, an unknown organization selects nobody,
\* an unknown peer is an error
Known(f) == f.peers \subseteq Peers
Selected(f) ==
  IF ~Flagged(f) THEN Peers
  ELSE IF f.peers # {} THEN f.peers
  ELSE UNION {OrgPeers(o) : o \in f.orgs \cap Orgs}

\* Peer: the first of the list, which Initialize collects from a Go map
FirstOf(o, ps) == SelectSeq(PeersOf[o], LAMBDA p : p \in ps)[1]
Firsts(ps) == {FirstOf(o, ps) : o \in OrgsOf(ps)}

\* OrgID, or the command itself, gives up without a peer
HasPeers(f) == Known(f) /\ Selected(f) # {}

\* Only identities that exist are used: nobody is enrolled.
OrgUser(o, name) == name \in wallet[o]
OrgAdminUser(o) == OrgUser(o, "Admin")
OrgOfPeer(p) == CHOOSE o \in Orgs : p \in OrgPeers(o)

\* A client belongs to the organization of the first peer: the possible first
\* peers for which a command gets one.
User(f)            == {p \in Firsts(Selected(f)) : OrgUser(OrgOfPeer(p), "User1")}
ChannelClient(f)   == User(f)
ChannelProvider(f) == User(f)
ResourceMgmtClientForOrg(o) == OrgAdminUser(o)
ResourceMgmtClient(f) == {p \in Firsts(Selected(f)) : ResourceMgmtClientForOrg(OrgOfPeer(p))}

Waiting == cmd.op = "none" /\ main = "new"

-----------------------------------------------------------------------------
(* Commands of one request. *)

Learn(what, value) == told' = [told EXCEPT ![what] = value]

\* Once the request took effect its answer may still be lost: then the operator
\* does not know what is deployed.
Answered(v) ==
  \/ Learn("version", v) /\ UNCHANGED faults
  \/ Learn("version", None) /\ faults < MaxFaults /\ faults' = faults + 1

\* the command has no --peer, and the orderer refuses a channel that exists
CreateChannel(f) ==
  /\ Waiting /\ f.peers = {} /\ HasPeers(f) /\ ResourceMgmtClient(f) # {} /\ ~created
  /\ created' = TRUE
  /\ UNCHANGED <<vars, wallet, joined, installed, deployed, session>>

\* One peer is asked.  A chaincode that is deployed already is an error of
\* Fabric 1.4 that the command does not take for "chaincode exists".
AcceptAll == {{}}
Instantiate(f, v, policy) ==
  /\ Waiting /\ HasPeers(f) /\ deployed = NotDeployed
  /\ ResourceMgmtClient(f) \cap joined \cap installed[v] # {}
  /\ deployed' = [version |-> v, policy |-> IF policy = None THEN AcceptAll ELSE policy]
  /\ Answered(v)
  /\ UNCHANGED <<vars, wallet, created, joined, installed, cmd>>

\* All selected peers are asked.  Without --policy any member of the
\* organizations of --orgid may sign, and nobody if there is none.
SignedByAnyMember(orgs) == {{o} : o \in orgs}
Upgrade(f, v, policy) ==
  /\ Waiting /\ HasPeers(f) /\ ResourceMgmtClient(f) # {}
  /\ deployed # NotDeployed /\ deployed.version # v
  /\ Selected(f) \subseteq joined \cap installed[v]
  /\ policy = None => f.orgs \subseteq Orgs
  /\ deployed' = [version |-> v,
                  policy |-> IF policy = None THEN SignedByAnyMember(f.orgs) ELSE policy]
  /\ Answered(v)
  /\ UNCHANGED <<vars, wallet, created, joined, installed, cmd>>

\* chaincode info, asked of one peer
GetInfo(f) ==
  /\ Waiting /\ HasPeers(f) /\ deployed # NotDeployed
  /\ ChannelClient(f) \cap joined # {}
  /\ Learn("version", deployed.version)
  /\ UNCHANGED <<vars, network, cmd, faults>>

\* query channels and query installed, for one --peer
OnePeer(f) ==
  Waiting /\ Known(f) /\ Cardinality(f.peers) = 1 /\ ResourceMgmtClient(f) # {}
QueryChannels(f) ==
  /\ OnePeer(f) /\ Learn("joined", told.joined \cup (f.peers \cap joined))
  /\ UNCHANGED <<vars, network, cmd, faults>>
QueryInstalled(f) ==
  /\ OnePeer(f)
  /\ Learn("installed", [v \in Versions |-> told.installed[v] \cup (f.peers \cap installed[v])])
  /\ UNCHANGED <<vars, network, cmd, faults>>

\* query peers: those that the discovery service finds on the channel
QueryPeers(f) ==
  /\ Waiting /\ HasPeers(f) /\ ChannelProvider(f) # {}
  /\ \E found \in SUBSET joined : Learn("joined", told.joined \cup found)
  /\ UNCHANGED <<vars, network, cmd, faults>>

-----------------------------------------------------------------------------
(* join and install *)

Begin(op, f, v) ==
  /\ Waiting /\ Known(f)
  /\ cmd' = [NoCommand EXCEPT !.op = op, !.version = v, !.peers = Selected(f),
                              !.todo = OrgsOf(Selected(f))]
  /\ UNCHANGED <<vars, network, told, faults>>

BeginJoin(f)       == Selected(f) # {} /\ Begin("join", f, None)
BeginInstall(f, v) == Begin("install", f, v)

\* Nobody, one peer, or the whole organization (its client, the orderer) fails.
Failing(ps) == {{}, ps} \cup {{p} : p \in ps}
Fail(lost) == faults' = faults + (IF lost = {} THEN 0 ELSE 1) /\ faults' <= MaxFaults

\* An error is kept, and the loop goes on with the next organization.
Tried_Last(o, bad, lost) ==
  [cmd EXCEPT !.todo = @ \ {o}, !.err = bad, !.clean = @ /\ lost = {}]
Tried_Stops(o, bad, lost) ==
  [cmd EXCEPT !.todo = IF bad THEN {} ELSE @ \ {o}, !.err = @ \/ bad, !.clean = @ /\ lost = {}]
Tried(o, bad, lost) ==
  [cmd EXCEPT !.todo = @ \ {o}, !.err = @ \/ bad, !.clean = @ /\ lost = {}]

\* a peer that has joined refuses to join again
JoinOrg(o) ==
  LET ps == cmd.peers \cap OrgPeers(o)
  IN /\ cmd.op = "join" /\ o \in cmd.todo /\ ResourceMgmtClientForOrg(o)
     /\ \E lost \in Failing(ps) :
          /\ Fail(lost)
          /\ joined' = IF created THEN joined \cup (ps \ lost) ELSE joined
          /\ cmd' = Tried(o, ~created \/ lost # {} \/ ps \cap joined # {}, lost)
     /\ UNCHANGED <<vars, wallet, created, installed, deployed, told>>

\* "already installed" is no error
InstallOrg(o) ==
  LET ps == cmd.peers \cap OrgPeers(o)
  IN /\ cmd.op = "install" /\ o \in cmd.todo /\ ResourceMgmtClientForOrg(o)
     /\ \E lost \in Failing(ps) :
          /\ Fail(lost)
          /\ installed' = [installed EXCEPT ![cmd.version] = @ \cup (ps \ lost)]
          /\ cmd' = Tried(o, lost # {}, lost)
     /\ UNCHANGED <<vars, wallet, created, joined, deployed, told>>

\* No client for the organization: nothing is asked of it.
NoClient(o) ==
  /\ o \in cmd.todo /\ ~ResourceMgmtClientForOrg(o)
  /\ cmd' = Tried(o, TRUE, {})
  /\ UNCHANGED <<vars, network, told, faults>>

\* return lastErr
Finish ==
  /\ cmd.op \in {"join", "install"} /\ cmd.todo = {}
  /\ cmd' = NoCommand
  /\ \/ cmd.err /\ UNCHANGED told
     \/ ~cmd.err /\ cmd.op = "join" /\ Learn("joined", told.joined \cup cmd.peers)
     \/ /\ ~cmd.err /\ cmd.op = "install"
        /\ Learn("installed", [told.installed EXCEPT ![cmd.version] = @ \cup cmd.peers])
  /\ UNCHANGED <<vars, network, faults>>

Interrupt ==
  /\ cmd.op \in {"join", "install"} /\ cmd.todo # {}
  /\ cmd' = NoCommand
  /\ UNCHANGED <<vars, network, told, faults>>

-----------------------------------------------------------------------------
(* invoke and query *)

SetUp ==
  /\ told.version # None /\ told.joined = Peers /\ told.installed[told.version] = Peers

\* --peer and --orgid fix the peers of a call, and so does the static provider
Fixed(f, static) == Flagged(f) \/ static
Call(op, f, static) ==
  /\ Waiting /\ SetUp /\ HasPeers(f) /\ ChannelClient(f) # {} /\ Start
  /\ cmd' = [NoCommand EXCEPT !.op = op, !.peers = Selected(f), !.fixed = Fixed(f, static)]
  /\ UNCHANGED <<network, told, faults>>

Satisfied(ps) == ps # {} /\ \E s \in deployed.policy : s \subseteq OrgsOf(ps)

\* Peers that are fixed must all answer, and for an invoke their signatures must
\* do.  Otherwise the SDK looks for peers whose signatures do.
Able == IF deployed = NotDeployed THEN {} ELSE joined \cap installed[deployed.version]
Answerable ==
  IF cmd.fixed
    THEN cmd.peers \subseteq Able /\ (cmd.op = "invoke" => Satisfied(cmd.peers))
    ELSE Satisfied(Able)

\* completedCB: the retries included a call succeeds, or it failed
Completed ==
  \/ ran' = ran /\ UNCHANGED faults
  \/ ran' # ran /\ Answerable /\ failed' = failed /\ UNCHANGED faults
  \/ ran' # ran /\ ~Answerable /\ failed' = failed + 1 /\ UNCHANGED faults
  \/ ran' # ran /\ Answerable /\ failed' = failed + 1 /\ faults < MaxFaults /\ faults' = faults + 1

Calling == UNCHANGED <<network, cmd, told>>
CliMain == Main /\ Calling /\ UNCHANGED faults
CliDispatcher == Dispatcher /\ Calling /\ UNCHANGED faults
CliWorker(w) == Worker(w) /\ Completed /\ Calling

-----------------------------------------------------------------------------

CliInit ==
  /\ Init
  /\ wallet \in [Orgs -> Wallets]
  /\ created = FALSE /\ joined = {} /\ installed = [v \in Versions |-> {}]
  /\ deployed = NotDeployed /\ cmd = NoCommand
  /\ told = [joined |-> {}, installed |-> [v \in Versions |-> {}], version |-> None]
  /\ faults = 0

Setup ==
  \/ \E f \in Flags : CreateChannel(f) \/ BeginJoin(f)
                      \/ GetInfo(f) \/ QueryChannels(f) \/ QueryInstalled(f) \/ QueryPeers(f)
  \/ \E f \in Flags, v \in Versions : BeginInstall(f, v)
  \/ \E f \in Flags, v \in Versions, p \in Policies : Instantiate(f, v, p) \/ Upgrade(f, v, p)
  \/ \E o \in Orgs : JoinOrg(o) \/ InstallOrg(o) \/ NoClient(o)
  \/ Finish \/ Interrupt

CliNext ==
  \/ Setup
  \/ \E f \in Flags, op \in {"invoke", "query"}, static \in BOOLEAN : Call(op, f, static)
  \/ CliMain \/ CliDispatcher \/ \E w \in Workers : CliWorker(w)

CliSpec == CliInit /\ [][CliNext]_cliVars

\* As for Executor: nothing is assumed of the operator.
CliFairSpec ==
  /\ CliSpec /\ WF_cliVars(CliMain) /\ WF_cliVars(CliDispatcher)
  /\ \A w \in Workers : WF_cliVars(CliWorker(w))

-----------------------------------------------------------------------------
(* Properties. *)

\* What the commands report can be relied on (lastErr of join and install): no
\* call fails but for a fault, unless the policy cannot be met, by anybody or by
\* the peers that the operator chose for the call.
Serves ==
  main # "new" /\ Satisfied(IF cmd.fixed THEN cmd.peers ELSE Peers) => failed <= faults

\* A join or an install that ran to its end has done its work on every peer it
\* selected and has a client for, whatever it reports, in particular if another
\* organization failed or some peers had joined before, but for those that did
\* not answer (the loops over PeersByOrg).
EveryOrgTried ==
  [][LET ps == {p \in cmd.peers : ResourceMgmtClientForOrg(OrgOfPeer(p))}
     IN cmd'.op = "none" /\ cmd.todo = {} /\ cmd.clean /\ created =>
          /\ cmd.op = "join" => ps \subseteq joined
          /\ cmd.op = "install" => ps \subseteq installed[cmd.version]]_cmd

=============================================================================
