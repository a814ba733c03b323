------------------------- MODULE LaunchRequestProofs -------------------------
(***************************************************************************)
(* Theorems about LaunchRequest, for any networks of any sizes and any     *)
(* addresses asked for.  What validate_ip accepts is usable by the         *)
(* arithmetic of hosts(); from there on a request carries its interface    *)
(* unchanged to the machine it defines.                                    *)
(***************************************************************************)
EXTENDS RegistryProofs

Static(i) == i.dhcp4 <=> i.address = None
Fits(i) == ~i.dhcp4 => Usable(i.network, i.address)

(* The interface of a launch under way is one that the machine may get. *)
Prepared == \A p \in Procs : request[p] # NoLaunch =>
  Static(request[p].interface) /\ Fits(request[p].interface)

LaunchInv == LaunchTypeOK /\ Prepared /\ AddressIsUsable

-----------------------------------------------------------------------------
(* The addresses of a block share its quotient and are told apart by the rest. *)
LEMMA BlockDivision ==
  ASSUME NEW s \in Nat \ {0}, NEW w \in Int, NEW a \in Int,
         w % s = 0, a - w \in 0..(s - 1)
  PROVE  a \div s = w \div s /\ a % s = a - w
<1>1. a \div s = w \div s
  OBVIOUS
<1>2. a % s = a - w
  OBVIOUS
<1> QED BY <1>1, <1>2

(* ValidateIp: an address that lies among the hosts() of a network whose host
   bits are not set has the network's bits, and host bits of its own. *)
LEMMA ValidIsUsable ==
  ASSUME NEW n \in Networks, NEW a \in Addresses, ValidateIp(n, a)
  PROVE  Usable(n, a)
<1>1. n.size \in Nat \ {0} /\ n.network \in Int /\ a \in Int
  BY NetworksAssumption, AddressesAssumption DEF NetworkRow
<1>2. n.network % n.size = 0
  BY DEF ValidateIp, Strict
<1>3. a - n.network \in 0..(n.size - 1)
  BY <1>1 DEF ValidateIp, Hosts
<1>4. n.size > 2 => a - n.network \notin {0, n.size - 1}
  BY <1>1 DEF ValidateIp, Hosts
<1>5. /\ a \div n.size = n.network \div n.size
      /\ a % n.size = a - n.network
  BY <1>1, <1>2, <1>3, BlockDivision
<1> QED BY <1>4, <1>5 DEF Usable, HostBits

-----------------------------------------------------------------------------
(* A step of Registry moves the process that takes it. *)
LEMMA OwnStep ==
  ASSUME TypeOK, NEW p \in Procs, Step(p)
  PROVE  \A q \in Procs \ {p} : pc'[q] = pc[q]
<1>1. pc \in [Procs -> DOMAIN Args]
  BY DEF TypeOK
<1>2. \/ UNCHANGED pc
      \/ \E l, x : Goto(p, l, x)
  <2>1. CASE Request(p)
    BY <2>1 DEF Request, ImportKey, GenerateKey, CheckName, FindKey, CreateAccessKey,
                CreateUserAccess, InsertAccessKey, FindAccessKey, FindService
  <2>2. CASE Run(p)
    BY <2>2 DEF Run, CheckFingerprint, SaveKey, DeleteKey, SaveAccessKey,
                DeleteAccessKey, CreateService, Return
  <2>3. CASE Crash(p)
    BY <2>3 DEF Crash, Return
  <2> QED BY <2>1, <2>2, <2>3 DEF Step
<1> QED BY <1>1, <1>2 DEF Goto

LEMMA LaunchStep ==
  ASSUME TypeOK, LaunchInv, [LaunchNext]_<<vars, launch>>
  PROVE  LaunchInv'
<1> USE DEF launch, LaunchInv
<1>1. CASE UNCHANGED <<vars, launch>>
  BY <1>1 DEF vars, LaunchTypeOK, Prepared, AddressIsUsable, Idle
<1>2. ASSUME NEW p \in Procs, request[p] = NoLaunch, Step(p), UNCHANGED launch
      PROVE  LaunchInv'
  <2>1. \A q \in Procs : request[q] # NoLaunch => pc'[q] = pc[q]
    BY <1>2, OwnStep
  <2> QED BY <1>2, <2>1 DEF LaunchTypeOK, Prepared, AddressIsUsable, Idle
<1>3. ASSUME NEW p \in Procs, NEW n \in Networks, NEW a \in Addresses \cup {None},
             NEW k \in Names \cup {None}, PrepareNetworkInterface(p, n, a, k)
      PROVE  LaunchInv'
  <2> DEFINE i == GenerateNetworkConfig(n, a)
             r == [step |-> "key", key |-> k, interface |-> i]
  <2>1. i \in Interface /\ Static(i)
    BY DEF GenerateNetworkConfig, Interface, Static
  <2>2. Fits(i)
    BY <1>3, ValidIsUsable DEF PrepareNetworkInterface, GenerateNetworkConfig, Fits
  <2>3. r \in Launch /\ r.interface = i
    BY <2>1 DEF Launch
  <2>4. /\ request' = [request EXCEPT ![p] = r] /\ pc' = pc /\ pc[p] = "none"
        /\ UNCHANGED launched
    BY <1>3 DEF PrepareNetworkInterface, Serve, vars, Free, Idle
  <2> HIDE DEF i, r
  <2> QED BY <2>1, <2>2, <2>3, <2>4 DEF LaunchTypeOK, Prepared, AddressIsUsable, Idle
<1>4. ASSUME NEW p \in Procs, PrepareSshKeys(p)
      PROVE  LaunchInv'
  <2>1. pc' = pc /\ UNCHANGED launched
    BY <1>4 DEF PrepareSshKeys, vars
  <2>2. PICK r \in Launch : r = request[p]
    BY <1>4 DEF PrepareSshKeys, LaunchTypeOK, NoLaunch
  <2>3. r # NoLaunch
    BY <1>4, <2>2 DEF PrepareSshKeys, NoLaunch
  <2>4. PICK s \in Launch \cup {NoLaunch} :
          /\ request' = [request EXCEPT ![p] = s]
          /\ s # NoLaunch => s.interface = r.interface
    BY <1>4, <2>2 DEF PrepareSshKeys, Serve, Launch
  <2> QED BY <2>1, <2>2, <2>3, <2>4 DEF LaunchTypeOK, Prepared, AddressIsUsable, Idle
<1>5. ASSUME NEW p \in Procs, Define(p)
      PROVE  LaunchInv'
  <2>1. pc' = pc /\ request' = [request EXCEPT ![p] = NoLaunch]
    BY <1>5 DEF Define, vars, Serve
  <2>2. PICK r \in Launch : r = request[p] /\ r # NoLaunch
    BY <1>5 DEF Define, LaunchTypeOK, NoLaunch
  <2>3. r.interface \in Interface /\ Static(r.interface) /\ Fits(r.interface)
    BY <2>2 DEF Launch, Prepared
  <2>4. \/ UNCHANGED launched
        \/ \E m \in Machines : launched' = [x \in DOMAIN launched \cup {m} |->
                                  IF x = m THEN r.interface ELSE launched[x]]
    BY <1>5, <2>2 DEF Define
  <2>5. LaunchTypeOK'
    BY <2>1, <2>3, <2>4 DEF LaunchTypeOK, Idle, Static
  <2>6. Prepared' /\ AddressIsUsable'
    BY <2>1, <2>3, <2>4 DEF LaunchTypeOK, Prepared, AddressIsUsable, Fits
  <2> QED BY <2>5, <2>6
<1>6. ASSUME NEW p \in Procs, LaunchCrash(p)
      PROVE  LaunchInv'
  BY <1>6 DEF LaunchCrash, Serve, vars, LaunchTypeOK, Prepared, AddressIsUsable, Idle
<1> QED BY <1>1, <1>2, <1>3, <1>4, <1>5, <1>6 DEF LaunchNext

LEMMA LaunchInvHolds == LaunchSpec => []LaunchInv
<1>1. LaunchInit => LaunchInv
  BY DEF LaunchInit, LaunchInv, LaunchTypeOK, Prepared, AddressIsUsable
<1>2. LaunchSpec => []TypeOK
  BY LaunchesOnlyRead, TypeCorrect, PTL
<1>3. TypeOK /\ LaunchInv /\ [LaunchNext]_<<vars, launch>> => LaunchInv'
  BY LaunchStep
<1> QED BY <1>1, <1>2, <1>3, PTL DEF LaunchSpec

(* CreateVM: a request is a launch or nothing, and a machine gets an address or
   dhcp, never both. *)
THEOREM LaunchTypeCorrect == LaunchSpec => []LaunchTypeOK
BY LaunchInvHolds, PTL DEF LaunchInv

(* validate_ip: whatever networks there are and whatever a client asks for, an
   address that a machine is launched with is one that its network can use. *)
THEOREM AddressesAreUsable == LaunchSpec => []AddressIsUsable
BY LaunchInvHolds, PTL DEF LaunchInv
=============================================================================
