---------------------------- MODULE SubnetConfig ----------------------------
(***************************************************************************)
(* What the configuration routes do to the JSON of one Kea daemon: shared  *)
(* networks, subnets, reservations and options (ez_kea/routes/dhcp4.py,    *)
(* dhcp6.py and options.py).                                               *)
(*                                                                         *)
(* A request is one step: with_config_lock keeps two requests on one file  *)
(* apart (ConfigStore says when).  Its parameters are whatever a form can  *)
(* hold, a stale one included: every name, subnet and client, whether or   *)
(* not it is still in the file.  A request that changes nothing, because   *)
(* it is refused or does not find what it names, is a stuttering step.     *)
(*                                                                         *)
(* A subnet's CIDR is the set of its addresses.  A shared network is a     *)
(* slot, the JSON object, apart from the name it has, for nothing in the   *)
(* file keeps two objects from having one name.  The order of the lists is *)
(* left out, as are the addresses of reservations, the values of options   *)
(* and the pools of delegated prefixes.                                    *)
(***************************************************************************)
EXTENDS Naturals, FiniteSets

CONSTANTS
  Families,  \* a subset of {"4", "6"}
  Slots,     \* bound: shared networks there can be at once
  Names,     \* names of shared networks; "standalone", which the URLs of
             \*   options.py reserve, is not one of them
  Cidrs,     \* the subnets that can be entered, sets of addresses
  Ranges,    \* the pools that can be entered, sets of addresses
  Strip,     \* Strip[n]: the name n without the blanks around it, None if that
             \*   is all there is (str.strip)
  Clients,   \* MAC addresses, or DUIDs
  Others,    \* options other than "routers"
  MaxId,     \* bound: subnet ids
  MaxRes,    \* bound: reservations of one client in one subnet
  Alone,     \* the place of a standalone subnet: no shared network
  None       \* no name

Options == Others \cup {"routers"}

ASSUME SubnetConfigAssumption ==
  /\ Families \subseteq {"4", "6"}
  /\ Alone \notin Slots
  /\ Alone \notin Names
  /\ None \notin Names
  /\ Strip \in [Names \cup {None} -> Names \cup {None}]
  /\ Strip[None] = None
  /\ {MaxId, MaxRes} \subseteq Nat
  /\ \A c \in Cidrs : c # {}
  /\ "routers" \notin Others

VARIABLES
  family,  \* the daemon whose file this is
  name,    \* name[i]: the name of shared network i, None if there is none
  subnets  \* every subnet, with its place: a shared network or Alone

vars == <<family, name, subnets>>

\* A pool is {} in a subnet that is "static only".
Subnet == [id : 1..MaxId, cidr : Cidrs, place : Slots \cup {Alone},
           pool : Ranges \cup {{}}, options : SUBSET Options,
           reservations : [Clients -> 0..MaxRes]]

\* The bootstrapped file has neither networks nor subnets.
Init ==
  /\ family \in Families
  /\ name = [i \in Slots |-> None]
  /\ subnets = {}

-----------------------------------------------------------------------------
(* Shared networks *)

\* The shared networks of a name: one at most, as NamesDiffer says.
Named(n) == {i \in Slots : name[i] = n}

NewSharedNetwork(n) ==
  /\ Named(n) = {}
  /\ \E i \in Slots : /\ name[i] = None
                      /\ name' = [name EXCEPT ![i] = n]
  /\ UNCHANGED <<family, subnets>>

\* Faulty: the subnets of the network become standalone.
DeleteSharedNetworkOnly(n) ==
  /\ name' = [i \in Slots |-> IF name[i] = n THEN None ELSE name[i]]
  /\ subnets' = {IF s.place \in Named(n) THEN [s EXCEPT !.place = Alone] ELSE s :
                   s \in subnets}
  /\ UNCHANGED family

\* The network goes, and so do the subnets that are nested in it.
DeleteSharedNetwork(n) ==
  /\ name' = [i \in Slots |-> IF name[i] = n THEN None ELSE name[i]]
  /\ subnets' = {s \in subnets : s.place \notin Named(n)}
  /\ UNCHANGED family

\* Faulty: the name is taken to be new.
EditSharedNetworkUnchecked(old, new) ==
  \E i \in Named(old) : /\ name' = [name EXCEPT ![i] = new]
                        /\ UNCHANGED <<family, subnets>>

EditSharedNetwork(old, new) ==
  \E i \in Named(old) : /\ Named(new) \subseteq {i}
                        /\ name' = [name EXCEPT ![i] = new]
                        /\ UNCHANGED <<family, subnets>>

-----------------------------------------------------------------------------
(* Subnets *)

\* Faulty: only the subnets nested in shared networks are looked at.
NestedOverlap(c) == \E s \in subnets : s.place # Alone /\ s.cidr \cap c # {}

\* has_overlap: standalone subnets and nested ones.
HasOverlap(c) == \E s \in subnets : s.cidr \cap c # {}

\* Faulty: the number of subnets, plus one.
CountedId(n) == n = Cardinality(subnets) + 1

\* _next_subnet_id: the largest id in use, or 0, plus one.
NextSubnetId(n) ==
  /\ \A s \in subnets : s.id < n
  /\ n = 1 \/ \E s \in subnets : n = s.id + 1

\* validate_ip_range, or no range at all.
ValidPool(c, p) == p \subseteq c

\* Faulty: the network is taken to be there.
PlaceForKnown(n, i) ==
  IF n = None THEN i = Alone /\ UNCHANGED name
  ELSE i \in Slots /\ Named(n) \subseteq {i} /\ UNCHANGED name

\* The place a form means by a name, None for a standalone subnet; a shared
\* network that is not there yet is created.
PlaceFor(n, i) ==
  IF n = None THEN i = Alone /\ UNCHANGED name
  ELSE \/ i \in Named(n) /\ UNCHANGED name
       \/ /\ Named(n) = {}
          /\ i \in Slots /\ name[i] = None
          /\ name' = [name EXCEPT ![i] = n]

AddSubnet(n, c, p, options) ==
  /\ ~HasOverlap(c)
  /\ ValidPool(c, p)
  /\ \E id \in 1..MaxId, i \in Slots \cup {Alone} :
       /\ NextSubnetId(id)
       /\ PlaceFor(Strip[n], i)
       /\ subnets' = subnets \cup
            {[id |-> id, cidr |-> c, place |-> i, pool |-> p, options |-> options,
              reservations |-> [m \in Clients |-> 0]]}
  /\ UNCHANGED family

NewSubnet4(n, c, p) == family = "4" /\ AddSubnet(n, c, p, {"routers"})
NewSubnet6(n, c, p) == family = "6" /\ AddSubnet(n, c, p, {})

\* Is s the subnet that a form with name n and CIDR c deletes, or shows the
\* options of?
IsAt(s, n, c) ==
  /\ s.cidr = c
  /\ s.place \in IF n = None THEN {Alone} ELSE Named(n)

\* Faulty: the subnet is looked for by its CIDR, and what is nested in the
\* shared network goes with it.
DeleteNeighbours(n, c) ==
  /\ \E s \in subnets : IsAt(s, n, c)
  /\ subnets' = {s \in subnets : \A t \in subnets : IsAt(t, n, c) => s.place # t.place}
  /\ UNCHANGED <<family, name>>

\* Only the DHCPv4 form strips the name.
DeleteSubnet(n, c) ==
  /\ subnets' = {s \in subnets : ~IsAt(s, IF family = "4" THEN Strip[n] ELSE n, c)}
  /\ UNCHANGED <<family, name>>

\* _find_subnet4, _find_subnet6: by the CIDR alone, wherever it is.
Found(c) == {s \in subnets : s.cidr = c}

Replace(s, t) ==
  /\ subnets' = (subnets \ {s}) \cup {t}
  /\ UNCHANGED <<family, name>>

\* The CIDR is locked; "option-data" is written anew.
EditSubnet4(c, p) ==
  /\ family = "4"
  /\ ValidPool(c, p)
  /\ \E s \in Found(c) : Replace(s, [s EXCEPT !.pool = p, !.options = {"routers"}])

\* Faulty: the subnet is written anew, as it was created.
EditSubnet6Rebuilt(c, p) ==
  /\ family = "6"
  /\ ValidPool(c, p)
  /\ \E s \in Found(c) :
       Replace(s, [s EXCEPT !.pool = p, !.reservations = [m \in Clients |-> 0]])

\* Faulty: the options are replaced, as edit_subnet replaces them.
EditSubnet6LikeV4(c, p) ==
  /\ family = "6"
  /\ ValidPool(c, p)
  /\ \E s \in Found(c) : Replace(s, [s EXCEPT !.pool = p, !.options = {}])

EditSubnet6(c, p) ==
  /\ family = "6"
  /\ ValidPool(c, p)
  /\ \E s \in Found(c) : Replace(s, [s EXCEPT !.pool = p])

-----------------------------------------------------------------------------
(* Reservations *)

\* Nothing keeps a client from having two of them in one subnet.
NewReservation(c, m) ==
  \E s \in Found(c) :
    /\ s.reservations[m] < MaxRes
    /\ Replace(s, [s EXCEPT !.reservations[m] = @ + 1])

DeleteReservation(c, m) ==
  \E s \in Found(c) :
    /\ s.reservations[m] > 0
    /\ Replace(s, [s EXCEPT !.reservations[m] = @ - 1])

\* The older form of dhcp4's route: all of a shared network's, of one client.
DeleteReservations4(n, m) ==
  /\ family = "4"
  /\ Strip[n] # None
  /\ subnets' = {IF s.place \in Named(Strip[n]) THEN [s EXCEPT !.reservations[m] = 0] ELSE s :
                   s \in subnets}
  /\ UNCHANGED <<family, name>>

\* The client of a reservation may change, to one that has none.
EditReservation(c, m, new) ==
  \E s \in Found(c) :
    /\ s.reservations[m] > 0
    /\ new # m
    /\ s.reservations[new] = 0
    /\ Replace(s, [s EXCEPT !.reservations[m] = @ - 1, !.reservations[new] = @ + 1])

-----------------------------------------------------------------------------
(* Options *)

SetOption(n, c, o) ==
  \E s \in subnets : IsAt(s, n, c) /\ Replace(s, [s EXCEPT !.options = @ \cup {o}])

DeleteOption(n, c, o) ==
  \E s \in subnets : IsAt(s, n, c) /\ Replace(s, [s EXCEPT !.options = @ \ {o}])

-----------------------------------------------------------------------------
Networks == \E n \in Names :
  \/ NewSharedNetwork(n)
  \/ DeleteSharedNetwork(n)
  \/ \E new \in Names : EditSharedNetwork(n, new)

SubnetRoutes == \E c \in Cidrs :
  \/ \E n \in Names \cup {None}, p \in Ranges \cup {{}} :
       NewSubnet4(n, c, p) \/ NewSubnet6(n, c, p)
  \/ \E n \in Names \cup {None} : DeleteSubnet(n, c)
  \/ \E p \in Ranges \cup {{}} : EditSubnet4(c, p) \/ EditSubnet6(c, p)

Reservations == \E m \in Clients :
  \/ \E c \in Cidrs : \/ NewReservation(c, m)
                      \/ DeleteReservation(c, m)
                      \/ \E new \in Clients : EditReservation(c, m, new)
  \/ \E n \in Names : DeleteReservations4(n, m)

OptionRoutes == \E n \in Names \cup {None}, c \in Cidrs, o \in Options :
  SetOption(n, c, o) \/ DeleteOption(n, c, o)

Next == Networks \/ SubnetRoutes \/ Reservations \/ OptionRoutes

Spec == Init /\ [][Next]_vars

-----------------------------------------------------------------------------
(* Properties *)

\* Every variable has its type, and a nested subnet is in a network that is
\* there.
TypeOK ==
  /\ family \in Families
  /\ name \in [Slots -> Names \cup {None}]
  /\ subnets \subseteq Subnet
  /\ \A s \in subnets : s.place = Alone \/ name[s.place] # None

\* No address is in two subnets, standalone or nested: Kea would refuse the
\* file, or serve one client from two places (has_overlap).
NoOverlaps == \A s, t \in subnets : s # t => s.cidr \cap t.cidr = {}

\* No two subnets have the same id, which is all that Kea's leases record
\* (_next_subnet_id, state_index's _subnet_id_map).
IdsDiffer == \A s, t \in subnets : s # t => s.id # t.id

\* No two shared networks have the same name, whichever route made or renamed
\* them: it is how every form finds a network.
NamesDiffer == \A i, j \in Slots : i # j /\ name[i] # None => name[i] # name[j]

\* A subnet keeps the id, the CIDR and the place it was made with: "A subnet's
\* CIDR is locked once created" (README.md:139), and no route gives a subnet
\* another id or moves it, whichever of the two one knows it by.
IdentityKept == [][\A s \in subnets, t \in subnets' :
  s.id = t.id \/ s.cidr = t.cidr =>
    s.id = t.id /\ s.cidr = t.cidr /\ s.place = t.place]_vars

\* A request that changes a subnet's reservations changes nothing else: nothing
\* of the subnet, and no other subnet but, where dhcp4's older form takes a
\* client out of a shared network, those of that network.  It takes from one
\* client only, one reservation or, with that form, all it has there.
Losers(s, t) == {m \in Clients : t.reservations[m] < s.reservations[m]}

ReservationsKept == [][\A s \in subnets, t \in subnets' :
  s.cidr = t.cidr /\ s.reservations # t.reservations =>
    /\ t = [s EXCEPT !.reservations = t.reservations]
    /\ UNCHANGED name
    /\ \A u \in subnets \ {s} :
         u \in subnets' \/ (family = "4" /\ s.place # Alone /\ u.place = s.place)
    /\ Cardinality(Losers(s, t)) <= 1
    /\ \A m \in Losers(s, t) :
         \/ t.reservations[m] = s.reservations[m] - 1
         \/ family = "4" /\ s.place # Alone /\ t.reservations[m] = 0]_vars

\* A subnet goes alone, and then nothing else changes, or with the shared
\* network around it and all that is nested there.
SubnetsGoOneByOne == [][\A s \in subnets :
  (\A t \in subnets' : t.cidr # s.cidr) =>
    \/ UNCHANGED name /\ subnets' = subnets \ {s}
    \/ /\ s.place # Alone
       /\ name' = [name EXCEPT ![s.place] = None]
       /\ subnets' = {t \in subnets : t.place # s.place}]_vars

\* The options of a DHCPv6 subnet change one at a time and alone, on their own
\* page: editing the subnet leaves them as they are (edit_subnet6), while the
\* DHCPv4 route replaces them (dhcp4.py:304).
OptionsKept6 == [][\A s \in subnets, t \in subnets' :
  family = "6" /\ s.cidr = t.cidr /\ s.options # t.options =>
    /\ t = [s EXCEPT !.options = t.options]
    /\ \E o \in Options : s.options \ {o} = t.options \ {o}]_vars
=============================================================================
