---------------------------- MODULE LaunchRequest ----------------------------
(***************************************************************************)
(* What CreateVM checks of a launch before the machine is defined: the     *)
(* network it names and the address it asks for (vm_manager.py:            *)
(* prepare_network_interface, network/manager.py: validate_ip, cloudinit.py)*)
(* and its SSH key, beside the requests of Registry that add and delete    *)
(* keys.  How the machine itself is put together is VmLifecycle's.         *)
(*                                                                         *)
(* An address is a number below Space.  A network is its address and the   *)
(* number of addresses that its prefix leaves it: a power of two, which    *)
(* nothing here depends on.  VirtualNetwork rows come from the operator    *)
(* and do not change: CreateNetwork never gets to its save                 *)
(* (create_bridge_to_lan_network reads an attribute that does not exist).  *)
(* They are of type BridgeToLan, the only one CreateNetwork knows.         *)
(***************************************************************************)
EXTENDS Registry, Integers

CONSTANTS Space,      \* the addresses there are: 2^32 in the code
          Networks,   \* the config of VirtualNetwork rows: [network, size]
          Addresses,  \* that clients ask for
          Machines    \* ids of launched machines: a bound

NetworkRow == [network : 0..(Space - 1), size : 1..Space]

ASSUME NetworksAssumption == Space \in Nat \ {0} /\ Networks \subseteq NetworkRow
ASSUME AddressesAssumption == Addresses \subseteq 0..(Space - 1) /\ None \notin Addresses

VARIABLES request,   \* each process: the launch it serves, past the network
          launched   \* of each launched machine, its interface and key

launch == <<request, launched>>

(* What cloud-init is told of the network. *)
Interface == [network : Networks, dhcp4 : BOOLEAN, address : Addresses \cup {None}]
Launch == [step : {"key", "define"}, key : Names \cup {None}, interface : Interface]
NoLaunch == [step |-> "none"]

(* Every variable keeps to its values, a worker serves one request, and a guest
   has either an address or dhcp. *)
LaunchTypeOK ==
  /\ request \in [Procs -> Launch \cup {NoLaunch}]
  /\ DOMAIN launched \subseteq Machines
  /\ \A m \in DOMAIN launched : /\ launched[m] \in Interface
                                  /\ launched[m].dhcp4 <=> launched[m].address = None
  /\ \A p \in Procs : request[p] # NoLaunch => Idle(p)

LaunchInit == /\ Init
              /\ request = [p \in Procs |-> NoLaunch]
              /\ launched = [m \in {} |-> NoLaunch]

-----------------------------------------------------------------------------
(* ipaddress.ip_network and its hosts() *)

(* Host bits set: ip_network raises ValueError. *)
Strict(n) == n.network % n.size = 0

(* The broadcast address is taken for a host. *)
Hosts_WithBroadcast(n) ==
  IF n.size <= 2 THEN n.network..(n.network + n.size - 1)
  ELSE (n.network + 1)..(n.network + n.size - 1)

(* All addresses of a network of one or two; else not the first and the last. *)
Hosts(n) ==
  IF n.size <= 2 THEN n.network..(n.network + n.size - 1)
  ELSE (n.network + 1)..(n.network + n.size - 2)

ValidateIp(n, a) == Strict(n) /\ a \in Hosts(n)

(* Without an address the interface is static all the same. *)
GenerateNetworkConfig_NeverDhcp(n, a) == [network |-> n, dhcp4 |-> FALSE, address |-> a]

(* A static address, which is not checked here, or dhcp. *)
GenerateNetworkConfig(n, a) == [network |-> n, dhcp4 |-> a = None, address |-> a]

-----------------------------------------------------------------------------
Serve(p, r) == request' = [request EXCEPT ![p] = r]
Free(p) == Idle(p) /\ request[p] = NoLaunch

(* prepare_network_interface, the first lookup of CreateVM that a client's mere
   words decide.  A refused request is cleaned up after (VmLifecycle). *)
PrepareNetworkInterface(p, n, a, k) ==
  /\ p \in ApiWorkers /\ Free(p)
  /\ a # None => ValidateIp(n, a)
  /\ Serve(p, [step |-> "key", key |-> k,
               interface |-> GenerateNetworkConfig(n, a)])
  /\ UNCHANGED <<vars, launched>>

(* get() raises unless exactly one key of the account has the name. *)
PrepareSshKeys(p) ==
  LET r == request[p] IN
  /\ r.step = "key"
  /\ IF r.key = None \/ Cardinality({k \in keys : k.name = r.key}) = 1
     THEN Serve(p, [r EXCEPT !.step = "define", !.key = None])
     ELSE Serve(p, NoLaunch)
  /\ UNCHANGED <<vars, launched>>

(* The rest of the launch succeeds, or fails and is cleaned up. *)
Define(p) ==
  /\ request[p].step = "define"
  /\ Serve(p, NoLaunch)
  /\ \/ \E m \in Machines \ DOMAIN launched :
          launched' = [x \in DOMAIN launched \cup {m} |->
                         IF x = m THEN request[p].interface ELSE launched[x]]
     \/ UNCHANGED launched
  /\ UNCHANGED vars

LaunchCrash(p) == /\ p \in CrashingProcs /\ request[p] # NoLaunch
                  /\ Serve(p, NoLaunch)
                  /\ UNCHANGED <<vars, launched>>

LaunchNext ==
  \E p \in Procs :
       \/ request[p] = NoLaunch /\ Step(p) /\ UNCHANGED launch
       \/ \E n \in Networks, a \in Addresses \cup {None}, k \in Names \cup {None} :
            PrepareNetworkInterface(p, n, a, k)
       \/ PrepareSshKeys(p) \/ Define(p) \/ LaunchCrash(p)

LaunchSpec == LaunchInit /\ [][LaunchNext]_<<vars, launch>>

-----------------------------------------------------------------------------
(* Properties *)

(* An address of the same network bits whose host bits, where there are two or
   more, are neither all zeros (the network) nor all ones (its broadcast). *)
HostBits(n, a) == a % n.size
Usable(n, a) ==
  /\ a \div n.size = n.network \div n.size
  /\ n.size > 2 => HostBits(n, a) \notin {0, n.size - 1}

(* A machine launched with an address of its own has one that its network can
   use. *)
AddressIsUsable ==
  \A m \in DOMAIN launched :
    LET i == launched[m] IN ~i.dhcp4 => Usable(i.network, i.address)
=============================================================================
