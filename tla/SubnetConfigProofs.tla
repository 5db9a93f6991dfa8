------------------------- MODULE SubnetConfigProofs -------------------------
(***************************************************************************)
(* What SubnetConfig promises for any number of networks, subnets, clients *)
(* and ids.                                                                *)
(*                                                                         *)
(* A route gives a shared network a name (NamesOne), takes a subnet         *)
(* (TakesOne) or a network and what is nested there (TakesNetwork), adds a *)
(* subnet (Adds), changes a subnet in place (ChangesOne), or takes a       *)
(* client's reservations out of a network (Clears).  The lemma EveryStep   *)
(* says that there is no other step, and each theorem is about these six.  *)
(* That a step keeps types, or keeps subnets apart, needs less of them:    *)
(* what it drops (Drops) and that what it changes in place keeps its id,   *)
(* CIDR and place (Rewrites).                                              *)
(***************************************************************************)
EXTENDS SubnetConfig, FiniteSetTheorems, TLAPS

\* t is s, rewritten.
Same(s, t) == s.id = t.id /\ s.cidr = t.cidr /\ s.place = t.place

\* ... with reservations that changed alone and by one, and, in DHCPv6, with
\* options that did.
Gentle(s, t) ==
  /\ s.reservations # t.reservations =>
       /\ t = [s EXCEPT !.reservations = t.reservations]
       /\ \E m \in Clients : /\ Losers(s, t) \subseteq {m}
                             /\ m \in Losers(s, t) =>
                                  t.reservations[m] = s.reservations[m] - 1
  /\ family = "6" /\ s.options # t.options =>
       /\ t = [s EXCEPT !.options = t.options]
       /\ \E o \in Options : s.options \ {o} = t.options \ {o}

ChangesOne == \E s \in subnets, t \in Subnet : Same(s, t) /\ Gentle(s, t) /\ Replace(s, t)

Clears == \E n \in Names, m \in Clients :
  /\ family = "4"
  /\ subnets' = {IF s.place \in Named(n) THEN [s EXCEPT !.reservations[m] = 0] ELSE s :
                   s \in subnets}
  /\ UNCHANGED <<family, name>>

TakesOne == \E c \in Cidrs :
  /\ subnets' \subseteq subnets
  /\ \A s \in subnets \ subnets' : s.cidr = c
  /\ UNCHANGED <<family, name>>

TakesNetwork == \E n \in Names : DeleteSharedNetwork(n)

NamesOne == \E i \in Slots, n \in Names :
  /\ Named(n) \subseteq {i}
  /\ name' = [name EXCEPT ![i] = n]
  /\ UNCHANGED <<family, subnets>>

Adds == \E s \in Subnet, n \in Names \cup {None} :
  /\ ~HasOverlap(s.cidr)
  /\ NextSubnetId(s.id)
  /\ PlaceFor(n, s.place)
  /\ subnets' = subnets \cup {s}
  /\ UNCHANGED family

Rewrites ==
  /\ \E f \in [subnets -> Subnet] : /\ \A s \in subnets : Same(s, f[s])
                                   /\ subnets' = {f[s] : s \in subnets}
  /\ UNCHANGED <<family, name>>

Drops ==
  /\ subnets' \subseteq subnets
  /\ name' \in [Slots -> Names \cup {None}]
  /\ \A i \in Slots : name'[i] \in {name[i], None}
  /\ \A s \in subnets' : s.place = Alone \/ name'[s.place] = name[s.place]
  /\ UNCHANGED family

\* What changes subnets in place rewrites them.
LEMMA ChangesRewrite ==
  ASSUME TypeOK, ChangesOne \/ Clears
  PROVE  Rewrites
<1>1. CASE ChangesOne
  <2>1. PICK s \in subnets, t \in Subnet : Same(s, t) /\ Replace(s, t)
    BY <1>1 DEF ChangesOne
  <2> DEFINE f == [u \in subnets |-> IF u = s THEN t ELSE u]
  <2>2. f \in [subnets -> Subnet]
    BY DEF TypeOK
  <2>3. \A u \in subnets : Same(u, f[u])
    BY <2>1 DEF Same
  <2>4. subnets' = {f[u] : u \in subnets}
    <3>1. subnets' = (subnets \ {s}) \cup {t}
      BY <2>1 DEF Replace
    <3>2. ASSUME NEW x \in subnets' PROVE x \in {f[u] : u \in subnets}
      BY <3>1, <3>2
    <3>3. ASSUME NEW u \in subnets PROVE f[u] \in subnets'
      BY <3>1
    <3> QED
      BY <3>2, <3>3
  <2>5. UNCHANGED <<family, name>>
    BY <2>1 DEF Replace
  <2> QED
    BY <2>2, <2>3, <2>4, <2>5 DEF Rewrites
<1>2. CASE Clears
  <2>1. PICK n \in Names, m \in Clients :
          subnets' = {IF s.place \in Named(n) THEN [s EXCEPT !.reservations[m] = 0] ELSE s :
                        s \in subnets}
    BY <1>2 DEF Clears
  <2> DEFINE f == [s \in subnets |-> IF s.place \in Named(n)
                                    THEN [s EXCEPT !.reservations[m] = 0] ELSE s]
  <2>2. f \in [subnets -> Subnet] /\ \A s \in subnets : Same(s, f[s])
    BY SubnetConfigAssumption DEF TypeOK, Subnet, Same
  <2>3. subnets' = {f[s] : s \in subnets}
    BY <2>1
  <2> QED
    BY <1>2, <2>2, <2>3 DEF Rewrites, Clears
<1> QED
  BY <1>1, <1>2

LEMMA TakesDrop ==
  ASSUME TypeOK, TakesOne \/ TakesNetwork
  PROVE  Drops
<1> USE SubnetConfigAssumption
<1>1. CASE TakesOne
  BY <1>1 DEF TakesOne, Drops, TypeOK
<1>2. CASE TakesNetwork
  <2>1. PICK n \in Names :
          /\ name' = [i \in Slots |-> IF name[i] = n THEN None ELSE name[i]]
          /\ subnets' = {s \in subnets : s.place \notin Named(n)}
          /\ family' = family
    BY <1>2 DEF TakesNetwork, DeleteSharedNetwork
  <2>2. \A s \in subnets : s.place \in Slots \cup {Alone}
    BY DEF TypeOK, Subnet
  <2>3. /\ name' \in [Slots -> Names \cup {None}]
        /\ \A i \in Slots : name'[i] \in {name[i], None}
    BY <2>1 DEF TypeOK
  <2>4. \A s \in subnets' : s.place = Alone \/ name'[s.place] = name[s.place]
    BY <2>1, <2>2 DEF Named
  <2> QED
    BY <2>1, <2>3, <2>4 DEF Drops
<1> QED
  BY <1>1, <1>2

\* What the handlers do to the file: one of six things, or nothing.
LEMMA EveryStep ==
  ASSUME TypeOK, [Next]_vars
  PROVE  ChangesOne \/ Clears \/ TakesOne \/ TakesNetwork \/ NamesOne \/ Adds \/ UNCHANGED vars
<1> USE SubnetConfigAssumption
<1>1. ASSUME NEW n \in Names, NewSharedNetwork(n) PROVE NamesOne
  BY <1>1 DEF NewSharedNetwork, NamesOne
<1>2. ASSUME NEW n \in Names, NEW m \in Names, EditSharedNetwork(n, m) PROVE NamesOne
  BY <1>2 DEF EditSharedNetwork, NamesOne, Named
<1>3. ASSUME NEW n \in Names \cup {None}, NEW c \in Cidrs, NEW p \in Ranges \cup {{}},
             NEW o \in SUBSET Options, AddSubnet(n, c, p, o)
      PROVE  Adds
  <2>1. PICK id \in 1..MaxId, i \in Slots \cup {Alone} :
          /\ NextSubnetId(id)
          /\ PlaceFor(Strip[n], i)
          /\ subnets' = subnets \cup
               {[id |-> id, cidr |-> c, place |-> i, pool |-> p, options |-> o,
                 reservations |-> [m \in Clients |-> 0]]}
    BY <1>3 DEF AddSubnet
  <2> DEFINE s == [id |-> id, cidr |-> c, place |-> i, pool |-> p, options |-> o,
                   reservations |-> [m \in Clients |-> 0]]
  <2>2. s \in Subnet
    BY DEF Subnet
  <2>3. s.cidr = c /\ s.id = id /\ s.place = i /\ Strip[n] \in Names \cup {None}
    OBVIOUS
  <2> QED
    BY <1>3, <2>1, <2>2, <2>3 DEF AddSubnet, Adds
<1>4. ASSUME NEW n \in Names \cup {None}, NEW c \in Cidrs, DeleteSubnet(n, c) PROVE TakesOne
  <2>1. \A s \in subnets \ subnets' : s.cidr = c
    BY <1>4 DEF DeleteSubnet, IsAt
  <2>2. subnets' \subseteq subnets /\ UNCHANGED <<family, name>>
    BY <1>4 DEF DeleteSubnet
  <2> QED
    BY <2>1, <2>2 DEF TakesOne
<1>5. ASSUME NEW c \in Cidrs, NEW p \in Ranges \cup {{}}, EditSubnet4(c, p) PROVE ChangesOne
  <2>1. PICK s \in subnets : Replace(s, [s EXCEPT !.pool = p, !.options = {"routers"}])
    BY <1>5 DEF EditSubnet4, Found
  <2> DEFINE t == [s EXCEPT !.pool = p, !.options = {"routers"}]
  <2>2. {"routers"} \in SUBSET Options /\ s \in Subnet
    BY DEF Options, TypeOK
  <2>3. t \in Subnet /\ Same(s, t) /\ t.reservations = s.reservations
    BY <2>2 DEF Subnet, Same
  <2>4. Gentle(s, t)
    BY <1>5, <2>3 DEF Gentle, EditSubnet4
  <2> QED
    BY <2>1, <2>3, <2>4 DEF ChangesOne
<1>6. ASSUME NEW c \in Cidrs, NEW p \in Ranges \cup {{}}, EditSubnet6(c, p) PROVE ChangesOne
  <2>1. PICK s \in subnets : Replace(s, [s EXCEPT !.pool = p])
    BY <1>6 DEF EditSubnet6, Found
  <2> DEFINE t == [s EXCEPT !.pool = p]
  <2>2. s \in Subnet
    BY DEF TypeOK
  <2>3. t \in Subnet /\ Same(s, t) /\ t.reservations = s.reservations /\ t.options = s.options
    BY <2>2 DEF Subnet, Same
  <2>4. Gentle(s, t)
    BY <2>3 DEF Gentle
  <2> QED
    BY <2>1, <2>3, <2>4 DEF ChangesOne
<1>7. ASSUME NEW s \in subnets, NEW r \in [Clients -> 0..MaxRes], NEW m \in Clients,
             \A k \in Clients \ {m} : ~ (r[k] < s.reservations[k]),
             r[m] < s.reservations[m] => r[m] = s.reservations[m] - 1,
             Replace(s, [s EXCEPT !.reservations = r])
      PROVE  ChangesOne
  <2> DEFINE t == [s EXCEPT !.reservations = r]
  <2>1. s \in Subnet
    BY DEF TypeOK
  <2>2. /\ t \in Subnet /\ Same(s, t) /\ t.options = s.options
        /\ t.reservations = r /\ t = [s EXCEPT !.reservations = t.reservations]
    BY <2>1 DEF Subnet, Same
  <2>3. Gentle(s, t)
    <3> HIDE DEF t
    <3>1. Losers(s, t) \subseteq {m} /\ (m \in Losers(s, t) => r[m] = s.reservations[m] - 1)
      BY <1>7, <2>2 DEF Losers
    <3> QED
      BY <2>2, <3>1 DEF Gentle
  <2> QED
    BY <1>7, <2>2, <2>3 DEF ChangesOne
<1>8. ASSUME NEW c \in Cidrs, NEW m \in Clients, NewReservation(c, m) PROVE ChangesOne
  <2>1. PICK s \in subnets : /\ s.reservations[m] < MaxRes
                            /\ Replace(s, [s EXCEPT !.reservations[m] = @ + 1])
    BY <1>8 DEF NewReservation, Found
  <2> DEFINE r == [s.reservations EXCEPT ![m] = @ + 1]
  <2>2. s.reservations \in [Clients -> 0..MaxRes]
    BY DEF TypeOK, Subnet
  <2>3. /\ r \in [Clients -> 0..MaxRes]
        /\ \A k \in Clients \ {m} : ~ (r[k] < s.reservations[k])
        /\ r[m] < s.reservations[m] => r[m] = s.reservations[m] - 1
    BY <2>1, <2>2
  <2> QED
    BY <1>7, <2>1, <2>3
<1>9. ASSUME NEW c \in Cidrs, NEW m \in Clients, DeleteReservation(c, m) PROVE ChangesOne
  <2>1. PICK s \in subnets : /\ s.reservations[m] > 0
                            /\ Replace(s, [s EXCEPT !.reservations[m] = @ - 1])
    BY <1>9 DEF DeleteReservation, Found
  <2> DEFINE r == [s.reservations EXCEPT ![m] = @ - 1]
  <2>2. s.reservations \in [Clients -> 0..MaxRes]
    BY DEF TypeOK, Subnet
  <2>3. /\ r \in [Clients -> 0..MaxRes]
        /\ \A k \in Clients \ {m} : ~ (r[k] < s.reservations[k])
        /\ r[m] < s.reservations[m] => r[m] = s.reservations[m] - 1
    BY <2>1, <2>2
  <2> QED
    BY <1>7, <2>1, <2>3
<1>10. ASSUME NEW n \in Names, NEW m \in Clients, DeleteReservations4(n, m) PROVE Clears
  BY <1>10 DEF DeleteReservations4, Clears
<1>11. ASSUME NEW c \in Cidrs, NEW m \in Clients, NEW new \in Clients, EditReservation(c, m, new)
       PROVE  ChangesOne
  <2>1. PICK s \in subnets :
          /\ s.reservations[m] > 0
          /\ new # m
          /\ s.reservations[new] = 0
          /\ Replace(s, [s EXCEPT !.reservations[m] = @ - 1, !.reservations[new] = @ + 1])
    BY <1>11 DEF EditReservation, Found
  <2> DEFINE r == [s.reservations EXCEPT ![m] = @ - 1, ![new] = @ + 1]
  <2>2. s \in Subnet /\ s.reservations \in [Clients -> 0..MaxRes]
    BY DEF TypeOK, Subnet
  <2>3. /\ r \in [Clients -> 0..MaxRes]
        /\ \A k \in Clients \ {m} : ~ (r[k] < s.reservations[k])
        /\ r[m] < s.reservations[m] => r[m] = s.reservations[m] - 1
    BY <2>1, <2>2
  <2>4. [s EXCEPT !.reservations[m] = @ - 1, !.reservations[new] = @ + 1]
          = [s EXCEPT !.reservations = r]
    BY <2>2 DEF Subnet
  <2> QED
    BY <1>7, <2>1, <2>3, <2>4
<1>12. ASSUME NEW s \in subnets, NEW p \in SUBSET Options, NEW o \in Options,
              p \ {o} = s.options \ {o}, Replace(s, [s EXCEPT !.options = p])
       PROVE  ChangesOne
  <2> DEFINE t == [s EXCEPT !.options = p]
  <2>1. s \in Subnet
    BY DEF TypeOK
  <2>2. /\ t \in Subnet /\ Same(s, t) /\ t.reservations = s.reservations
        /\ t.options = p /\ t = [s EXCEPT !.options = t.options]
    BY <2>1 DEF Subnet, Same
  <2>3. Gentle(s, t)
    BY <1>12, <2>2 DEF Gentle
  <2> QED
    BY <1>12, <2>2, <2>3 DEF ChangesOne
<1>13. ASSUME NEW n \in Names \cup {None}, NEW c \in Cidrs, NEW o \in Options,
              SetOption(n, c, o) \/ DeleteOption(n, c, o)
       PROVE  ChangesOne
  <2>1. PICK s \in subnets : \/ Replace(s, [s EXCEPT !.options = @ \cup {o}])
                            \/ Replace(s, [s EXCEPT !.options = @ \ {o}])
    BY <1>13 DEF SetOption, DeleteOption
  <2>2. s.options \cup {o} \in SUBSET Options /\ s.options \ {o} \in SUBSET Options
    BY DEF TypeOK, Subnet
  <2>3. /\ (s.options \cup {o}) \ {o} = s.options \ {o}
        /\ (s.options \ {o}) \ {o} = s.options \ {o}
    OBVIOUS
  <2>4. CASE Replace(s, [s EXCEPT !.options = @ \cup {o}])
    BY <1>12, <2>2, <2>3, <2>4
  <2>5. CASE Replace(s, [s EXCEPT !.options = @ \ {o}])
    BY <1>12, <2>2, <2>3, <2>5
  <2> QED
    BY <2>1, <2>4, <2>5
<1>14. CASE Networks
  BY <1>1, <1>2, <1>14 DEF Networks, TakesNetwork
<1>15. CASE SubnetRoutes
  <2>1. {} \in SUBSET Options /\ {"routers"} \in SUBSET Options
    BY DEF Options
  <2>2. PICK c \in Cidrs :
          \/ \E n \in Names \cup {None}, p \in Ranges \cup {{}} :
               NewSubnet4(n, c, p) \/ NewSubnet6(n, c, p)
          \/ \E n \in Names \cup {None} : DeleteSubnet(n, c)
          \/ \E p \in Ranges \cup {{}} : EditSubnet4(c, p) \/ EditSubnet6(c, p)
    BY <1>15 DEF SubnetRoutes
  <2>3. ASSUME NEW n \in Names \cup {None}, NEW p \in Ranges \cup {{}},
               NewSubnet4(n, c, p) \/ NewSubnet6(n, c, p)
        PROVE  Adds
    BY <1>3, <2>1, <2>3 DEF NewSubnet4, NewSubnet6
  <2> QED
    BY <1>4, <1>5, <1>6, <2>2, <2>3
<1>16. CASE Reservations
  BY <1>8, <1>9, <1>10, <1>11, <1>16 DEF Reservations
<1>17. CASE OptionRoutes
  BY <1>13, <1>17 DEF OptionRoutes
<1> QED
  BY <1>14, <1>15, <1>16, <1>17 DEF Next

\* As much of it as types and the distances between subnets need.
LEMMA EveryKind ==
  ASSUME TypeOK, [Next]_vars
  PROVE  Rewrites \/ Drops \/ NamesOne \/ Adds \/ UNCHANGED vars
  BY EveryStep, ChangesRewrite, TakesDrop

-----------------------------------------------------------------------------
\* Every variable keeps its type, and a nested subnet's network is there.
THEOREM TypeCorrect == Spec => []TypeOK
<1> USE SubnetConfigAssumption
<1>1. Init => TypeOK
  BY DEF Init, TypeOK
<1>2. TypeOK /\ [Next]_vars => TypeOK'
  <2> SUFFICES ASSUME TypeOK, [Next]_vars PROVE TypeOK'
    OBVIOUS
  <2>1. CASE Rewrites
    BY <2>1 DEF Rewrites, TypeOK, Same
  <2>2. CASE Drops
    BY <2>2 DEF Drops, TypeOK, Subnet
  <2>3. CASE NamesOne
    BY <2>3 DEF NamesOne, TypeOK, Subnet
  <2>4. CASE Adds
    BY <2>4 DEF Adds, PlaceFor, Named, TypeOK, Subnet
  <2>5. CASE UNCHANGED vars
    BY <2>5 DEF vars, TypeOK
  <2> QED
    BY <2>1, <2>2, <2>3, <2>4, <2>5, EveryKind
<1> QED
  BY <1>1, <1>2, PTL DEF Spec

\* Subnets never overlap and never share an id: a route that adds one compares
\* it with all the others, standalone or nested, and no other route changes a
\* CIDR or an id.  The two are proved together, for both are about the pairs
\* of subnets that a step makes.
Apart == NoOverlaps /\ IdsDiffer

LEMMA StayApart ==
  ASSUME TypeOK, Apart, [Next]_vars
  PROVE  Apart'
<1>1. CASE Rewrites
  <2>1. PICK f \in [subnets -> Subnet] : /\ \A s \in subnets : Same(s, f[s])
                                       /\ subnets' = {f[s] : s \in subnets}
    BY <1>1 DEF Rewrites
  <2>2. ASSUME NEW s \in subnets', NEW t \in subnets', s # t
        PROVE  s.cidr \cap t.cidr = {} /\ s.id # t.id
    <3>1. PICK u \in subnets, v \in subnets : s = f[u] /\ t = f[v]
      BY <2>1
    <3>2. u # v
      BY <2>2, <3>1
    <3> QED
      BY <2>1, <3>1, <3>2 DEF Same, Apart, NoOverlaps, IdsDiffer
  <2> QED
    BY <2>2 DEF Apart, NoOverlaps, IdsDiffer
<1>2. CASE Drops
  BY <1>2 DEF Drops, Apart, NoOverlaps, IdsDiffer
<1>3. CASE NamesOne
  BY <1>3 DEF NamesOne, Apart, NoOverlaps, IdsDiffer
<1>4. CASE Adds
  <2>1. PICK s \in Subnet : /\ ~HasOverlap(s.cidr)
                            /\ NextSubnetId(s.id)
                            /\ subnets' = subnets \cup {s}
    BY <1>4 DEF Adds
  <2>2. ASSUME NEW t \in subnets PROVE s.cidr \cap t.cidr = {} /\ s.id # t.id
    <3>1. t.id < s.id /\ t.cidr \cap s.cidr = {}
      BY <2>1 DEF HasOverlap, NextSubnetId
    <3>2. t.id \in Nat /\ s.id \in Nat
      BY SubnetConfigAssumption DEF TypeOK, Subnet
    <3> QED
      BY <3>1, <3>2
  <2> QED
    BY <2>1, <2>2 DEF Apart, NoOverlaps, IdsDiffer
<1>5. CASE UNCHANGED vars
  BY <1>5 DEF vars, Apart, NoOverlaps, IdsDiffer
<1> QED
  BY <1>1, <1>2, <1>3, <1>4, <1>5, EveryKind

LEMMA AlwaysApart == Spec => []Apart
<1>1. Init => Apart
  BY DEF Init, Apart, NoOverlaps, IdsDiffer
<1>2. TypeOK /\ Apart /\ [Next]_vars => Apart'
  BY StayApart
<1> QED
  BY <1>1, <1>2, TypeCorrect, PTL DEF Spec

\* No address is ever in two subnets.
THEOREM SubnetsNeverOverlap == Spec => []NoOverlaps
<1>1. Apart => NoOverlaps
  BY DEF Apart
<1> QED
  BY <1>1, AlwaysApart, PTL

\* No two subnets ever have the same id.
THEOREM IdsTellSubnetsApart == Spec => []IdsDiffer
<1>1. Apart => IdsDiffer
  BY DEF Apart
<1> QED
  BY <1>1, AlwaysApart, PTL

\* No two shared networks ever have the same name, whichever of the three
\* routes gave it to them.
THEOREM NamesTellNetworksApart == Spec => []NamesDiffer
<1> USE SubnetConfigAssumption
<1>1. Init => NamesDiffer
  BY DEF Init, NamesDiffer
<1>2. TypeOK /\ NamesDiffer /\ [Next]_vars => NamesDiffer'
  <2> SUFFICES ASSUME TypeOK, NamesDiffer, [Next]_vars PROVE NamesDiffer'
    OBVIOUS
  <2>1. CASE Rewrites \/ UNCHANGED vars
    BY <2>1 DEF Rewrites, vars, NamesDiffer
  <2>2. CASE Drops
    BY <2>2 DEF Drops, NamesDiffer
  <2>3. CASE NamesOne
    BY <2>3 DEF NamesOne, Named, TypeOK, NamesDiffer
  <2>4. CASE Adds
    BY <2>4 DEF Adds, PlaceFor, Named, TypeOK, NamesDiffer
  <2> QED
    BY <2>1, <2>2, <2>3, <2>4, EveryKind
<1> QED
  BY <1>1, <1>2, TypeCorrect, PTL DEF Spec

\* Two subnets of one state that have an id or a CIDR in common are one.
LEMMA OneSubnet ==
  ASSUME TypeOK, Apart, NEW s \in subnets, NEW t \in subnets, s.id = t.id \/ s.cidr = t.cidr
  PROVE  s = t
<1>1. s.cidr # {}
  BY SubnetConfigAssumption DEF TypeOK, Subnet
<1> QED
  BY <1>1 DEF Apart, NoOverlaps, IdsDiffer

\* A subnet that is added has neither the id nor the CIDR of another.
LEMMA AddedIsNew ==
  ASSUME TypeOK, NEW s \in subnets, NEW t \in Subnet, NextSubnetId(t.id), ~HasOverlap(t.cidr)
  PROVE  s.id # t.id /\ s.cidr # t.cidr
<1>1. s.id < t.id /\ s.id \in Nat /\ t.id \in Nat
  BY SubnetConfigAssumption DEF NextSubnetId, TypeOK, Subnet
<1>2. s.cidr # {}
  BY SubnetConfigAssumption DEF TypeOK, Subnet
<1> QED
  BY <1>1, <1>2 DEF HasOverlap

\* A subnet's id, CIDR and place never change: two subnets of consecutive
\* states with one id or one CIDR are one subnet, for subnets stay apart, and a
\* route that keeps a subnet keeps all three.
THEOREM IdentityIsLocked == Spec => IdentityKept
<1> DEFINE Step == \A s \in subnets, t \in subnets' :
                     s.id = t.id \/ s.cidr = t.cidr =>
                       s.id = t.id /\ s.cidr = t.cidr /\ s.place = t.place
<1>1. TypeOK /\ Apart /\ [Next]_vars => [Step]_vars
  <2> SUFFICES ASSUME TypeOK, Apart, [Next]_vars, NEW s \in subnets, NEW t \in subnets',
                      s.id = t.id \/ s.cidr = t.cidr
               PROVE  s.id = t.id /\ s.cidr = t.cidr /\ s.place = t.place
    OBVIOUS
  <2>1. CASE Rewrites
    <3>1. PICK u \in subnets : Same(u, t)
      BY <2>1 DEF Rewrites
    <3> QED
      BY <3>1, OneSubnet DEF Same
  <2>2. CASE Drops \/ NamesOne \/ UNCHANGED vars
    BY <2>2, OneSubnet DEF Drops, NamesOne, vars
  <2>3. CASE Adds
    BY <2>3, AddedIsNew, OneSubnet DEF Adds
  <2> QED
    BY <2>1, <2>2, <2>3, EveryKind
<1> QED
  BY <1>1, TypeCorrect, AlwaysApart, PTL DEF Spec, IdentityKept

\* What a step makes of a subnet that it keeps: the very subnet, or, alone of
\* all of them, a gently changed one, or one of a network that is cleared of a
\* client.
LEMMA OneChanges ==
  ASSUME TypeOK, Apart, [Next]_vars, NEW s \in subnets, NEW t \in subnets',
         s.cidr = t.cidr, s # t
  PROVE  \/ Gentle(s, t) /\ Replace(s, t)
         \/ Clears
<1>1. CASE ChangesOne
  <2>1. PICK u \in subnets, v \in Subnet : Same(u, v) /\ Gentle(u, v) /\ Replace(u, v)
    BY <1>1 DEF ChangesOne
  <2>2. t = v
    BY <2>1, OneSubnet DEF Replace
  <2>3. s = u
    BY <2>1, <2>2, OneSubnet DEF Same
  <2> QED
    BY <2>1, <2>2, <2>3
<1>2. CASE TakesOne \/ TakesNetwork \/ NamesOne \/ UNCHANGED vars
  BY <1>2, TakesDrop, OneSubnet DEF Drops, NamesOne, vars
<1>3. CASE Adds
  BY <1>3, AddedIsNew, OneSubnet DEF Adds
<1> QED
  BY <1>1, <1>2, <1>3, EveryStep

\* A request that changes a subnet's reservations changes nothing else of it,
\* and no other subnet unless a network is cleared of the client; what it takes
\* is one client's.
THEOREM ReservationsStay == Spec => ReservationsKept
<1> DEFINE Kept == \A s \in subnets, t \in subnets' :
             s.cidr = t.cidr /\ s.reservations # t.reservations =>
               /\ t = [s EXCEPT !.reservations = t.reservations]
               /\ UNCHANGED name
               /\ \A u \in subnets \ {s} :
                    u \in subnets' \/ (family = "4" /\ s.place # Alone /\ u.place = s.place)
               /\ Cardinality(Losers(s, t)) <= 1
               /\ \A m \in Losers(s, t) :
                    \/ t.reservations[m] = s.reservations[m] - 1
                    \/ family = "4" /\ s.place # Alone /\ t.reservations[m] = 0
<1>1. TypeOK /\ Apart /\ NamesDiffer /\ [Next]_vars => [Kept]_vars
  <2> SUFFICES ASSUME TypeOK, Apart, NamesDiffer, [Next]_vars,
                      NEW s \in subnets, NEW t \in subnets',
                      s.cidr = t.cidr, s.reservations # t.reservations
               PROVE  /\ t = [s EXCEPT !.reservations = t.reservations]
                      /\ UNCHANGED name
                      /\ \A u \in subnets \ {s} :
                           u \in subnets' \/ (family = "4" /\ s.place # Alone /\ u.place = s.place)
                      /\ Cardinality(Losers(s, t)) <= 1
                      /\ \A m \in Losers(s, t) :
                           \/ t.reservations[m] = s.reservations[m] - 1
                           \/ family = "4" /\ s.place # Alone /\ t.reservations[m] = 0
    OBVIOUS
  <2>1. ASSUME NEW m, Losers(s, t) \subseteq {m} PROVE Cardinality(Losers(s, t)) <= 1
    <3>1. IsFiniteSet({m}) /\ Cardinality({m}) = 1
      BY FS_Singleton
    <3>2. Cardinality(Losers(s, t)) <= Cardinality({m})
      BY <2>1, <3>1, FS_Subset
    <3> QED
      BY <3>1, <3>2
  <2>2. CASE Gentle(s, t) /\ Replace(s, t)
    <3>1. /\ t = [s EXCEPT !.reservations = t.reservations]
          /\ \E m \in Clients : /\ Losers(s, t) \subseteq {m}
                                /\ m \in Losers(s, t) =>
                                     t.reservations[m] = s.reservations[m] - 1
      BY <2>2 DEF Gentle
    <3>2. UNCHANGED name /\ \A u \in subnets \ {s} : u \in subnets'
      BY <2>2 DEF Replace
    <3> QED
      BY <2>1, <3>1, <3>2
  <2>3. CASE Clears
    <3>1. PICK n \in Names, m \in Clients :
            /\ family = "4" /\ UNCHANGED name
            /\ subnets' = {IF u.place \in Named(n) THEN [u EXCEPT !.reservations[m] = 0] ELSE u :
                             u \in subnets}
      BY <2>3 DEF Clears
    <3>2. PICK u \in subnets :
            t = IF u.place \in Named(n) THEN [u EXCEPT !.reservations[m] = 0] ELSE u
      BY <3>1
    <3>3. s = u
      <4>1. u.cidr = t.cidr
        BY <3>2 DEF TypeOK, Subnet
      <4> QED
        BY <4>1, OneSubnet
    <3>4. s.place \in Named(n) /\ t = [s EXCEPT !.reservations[m] = 0]
      BY <3>2, <3>3
    <3>5. /\ t = [s EXCEPT !.reservations = t.reservations]
          /\ Losers(s, t) \subseteq {m}
          /\ t.reservations[m] = 0
      BY <3>4 DEF TypeOK, Subnet, Losers
    <3>6. s.place # Alone /\ name[s.place] # None
      BY <3>4, SubnetConfigAssumption DEF Named
    <3>7. ASSUME NEW v \in subnets PROVE v \in subnets' \/ v.place = s.place
      <4>1. CASE v.place \in Named(n)
        BY <3>4, <3>6, <4>1 DEF Named, NamesDiffer
      <4>2. CASE v.place \notin Named(n)
        BY <3>1, <4>2
      <4> QED
        BY <4>1, <4>2
    <3> QED
      BY <2>1, <3>1, <3>5, <3>6, <3>7
  <2> QED
    BY <2>2, <2>3, OneChanges
<1>2. ReservationsKept <=> [][Kept]_vars
  BY DEF ReservationsKept
<1> HIDE DEF Kept
<1> QED
  BY <1>1, <1>2, TypeCorrect, AlwaysApart, NamesTellNetworksApart, PTL DEF Spec

\* The options of a DHCPv6 subnet change one at a time, and alone.
THEOREM OptionsStay6 == Spec => OptionsKept6
<1> DEFINE Kept == \A s \in subnets, t \in subnets' :
             family = "6" /\ s.cidr = t.cidr /\ s.options # t.options =>
               /\ t = [s EXCEPT !.options = t.options]
               /\ \E o \in Options : s.options \ {o} = t.options \ {o}
<1>1. TypeOK /\ Apart /\ [Next]_vars => [Kept]_vars
  <2> SUFFICES ASSUME TypeOK, Apart, [Next]_vars, NEW s \in subnets, NEW t \in subnets',
                      family = "6", s.cidr = t.cidr, s.options # t.options
               PROVE  /\ t = [s EXCEPT !.options = t.options]
                      /\ \E o \in Options : s.options \ {o} = t.options \ {o}
    OBVIOUS
  <2>1. Gentle(s, t)
    BY OneChanges DEF Clears
  <2> QED
    BY <2>1 DEF Gentle
<1>2. OptionsKept6 <=> [][Kept]_vars
  BY DEF OptionsKept6
<1> HIDE DEF Kept
<1> QED
  BY <1>1, <1>2, TypeCorrect, AlwaysApart, PTL DEF Spec

\* A subnet goes alone or with the shared network around it: no two subnets
\* have one CIDR, and no two networks one name.
THEOREM SubnetsStay == Spec => SubnetsGoOneByOne
<1> DEFINE Stays == \A s \in subnets :
             (\A t \in subnets' : t.cidr # s.cidr) =>
               \/ UNCHANGED name /\ subnets' = subnets \ {s}
               \/ /\ s.place # Alone
                  /\ name' = [name EXCEPT ![s.place] = None]
                  /\ subnets' = {t \in subnets : t.place # s.place}
<1>1. TypeOK /\ Apart /\ NamesDiffer /\ [Next]_vars => [Stays]_vars
  <2> SUFFICES ASSUME TypeOK, Apart, NamesDiffer, [Next]_vars, NEW s \in subnets,
                      \A t \in subnets' : t.cidr # s.cidr
               PROVE  \/ UNCHANGED name /\ subnets' = subnets \ {s}
                      \/ /\ s.place # Alone
                         /\ name' = [name EXCEPT ![s.place] = None]
                         /\ subnets' = {t \in subnets : t.place # s.place}
    OBVIOUS
  <2>1. s \notin subnets'
    OBVIOUS
  <2>2. ~ Rewrites
    BY DEF Rewrites, Same
  <2>3. ~ (Adds \/ NamesOne \/ UNCHANGED vars)
    BY <2>1 DEF Adds, NamesOne, vars
  <2>4. CASE TakesOne
    <3>1. /\ subnets' \subseteq subnets /\ UNCHANGED name
          /\ \A t \in subnets \ subnets' : t.cidr = s.cidr
      BY <2>1, <2>4 DEF TakesOne
    <3>2. \A t \in subnets \ {s} : t \in subnets'
      BY <3>1, OneSubnet
    <3> QED
      BY <2>1, <3>1, <3>2
  <2>5. CASE TakesNetwork
    <3>1. PICK n \in Names :
            /\ name' = [i \in Slots |-> IF name[i] = n THEN None ELSE name[i]]
            /\ subnets' = {t \in subnets : t.place \notin Named(n)}
      BY <2>5 DEF TakesNetwork, DeleteSharedNetwork
    <3>2. s.place \in Named(n)
      BY <2>1, <3>1
    <3>3. s.place \in Slots /\ s.place # Alone /\ name[s.place] = n /\ n # None
      BY <3>2, SubnetConfigAssumption DEF Named
    <3>4. Named(n) = {s.place}
      BY <3>3 DEF Named, NamesDiffer
    <3>5. subnets' = {t \in subnets : t.place # s.place}
      BY <3>1, <3>4
    <3>6. name' = [name EXCEPT ![s.place] = None]
      BY <3>1, <3>3, <3>4 DEF Named, TypeOK
    <3> QED
      BY <3>3, <3>5, <3>6
  <2> QED
    BY <2>2, <2>3, <2>4, <2>5, EveryStep, ChangesRewrite
<1>2. SubnetsGoOneByOne <=> [][Stays]_vars
  BY DEF SubnetsGoOneByOne
<1> HIDE DEF Stays
<1> QED
  BY <1>1, <1>2, TypeCorrect, AlwaysApart, NamesTellNetworksApart, PTL DEF Spec
=============================================================================
