----------------------------- MODULE PeerProofs -----------------------------
(***************************************************************************)
(* Proofs about peers and users: Channel, for any width of its counters,   *)
(* Federation, which lets other owners add users, for every set of owners, *)
(* grants, namespaces, inbounds and requests, and Policies, which limits   *)
(* users, for any finite set of sessions and addresses and any users,      *)
(* identities and limits.  Policies rests on exact counters: releasing a   *)
(* session leaves a counter in Nat only because it was exact.              *)
(***************************************************************************)
EXTENDS Channel, Federation, Policies, FiniteSetTheorems, SequenceTheorems, TLAPS

-----------------------------------------------------------------------------
(* Channel. *)

Packet == [seq : 1..MaxSequence, form : {"json", "binary"}, zipped : BOOLEAN,
           payload : Payloads]

ChannelTypes ==
    /\ sentSeq \in [Ends -> 0..MaxSequence] /\ receivedSeq \in [Ends -> 0..MaxSequence]
    /\ packets \in [Ends -> SUBSET Packet]
    /\ sealed \in [Ends -> Seq(Payloads)] /\ taken \in [Ends -> Seq(Payloads)]

\* The numbers count what was sealed and taken; a packet carries what was
\* sealed under its number, and no two have the same one.
SealedInv ==
    \A e \in Ends :
       /\ Len(sealed[e]) = sentSeq[e] /\ Len(taken[e]) = receivedSeq[e]
       /\ \A p \in packets[e] : p.seq <= sentSeq[e] /\ p.payload = sealed[e][p.seq]
       /\ \A p, q \in packets[e] : p.seq = q.seq => p = q

\* What an end has taken is what its peer sealed under the same numbers.
TakenInv ==
    \A e \in Ends :
       /\ receivedSeq[e] <= sentSeq[Peer(e)]
       /\ \A i \in 1..receivedSeq[e] : taken[e][i] = sealed[Peer(e)][i]

ChannelInv == ChannelTypes /\ SealedInv /\ TakenInv

\* Each end is the peer of the other.
LEMMA Peers ==
    ASSUME NEW e \in Ends
    PROVE  Peer(e) \in Ends /\ Peer(e) # e /\ Peer(Peer(e)) = e
  <1>1. \A f \in Ends : \E g \in Ends : g # f
    BY DEF Ends
  <1>2. \A f \in Ends : Peer(f) \in Ends /\ Peer(f) # f
    BY <1>1 DEF Peer
  <1>3. QED
    BY <1>2 DEF Ends

\* The packet that is sealed next.
LEMMA NewPacket ==
    ASSUME ChannelInv, NEW e \in Ends, NEW payload \in Payloads, NEW form \in {"json", "binary"},
           NEW zipped \in BOOLEAN, sentSeq[e] # MaxSequence
    PROVE  LET p == [seq |-> sentSeq[e] + 1, form |-> form, zipped |-> zipped, payload |-> payload]
           IN  p \in Packet /\ p.seq = sentSeq[e] + 1 /\ p.payload = payload
  <1>1. sentSeq[e] + 1 \in 1..MaxSequence
    BY ChannelAssumption DEF ChannelInv, ChannelTypes
  <1>2. QED
    BY <1>1 DEF Packet

\* Sealing keeps the invariant.
LEMMA SealInv ==
    ASSUME ChannelInv, NEW e \in Ends, NEW payload \in Payloads, NEW form \in {"json", "binary"},
           NEW zipped \in BOOLEAN, TakeSequence(e, payload, form, zipped)
    PROVE  ChannelInv'
  <1> DEFINE new == [seq |-> sentSeq[e] + 1, form |-> form, zipped |-> zipped, payload |-> payload]
  <1>1. new \in Packet /\ new.seq = sentSeq[e] + 1 /\ new.payload = payload
    BY NewPacket DEF TakeSequence
  <1>2. /\ sentSeq[e] # MaxSequence
        /\ sentSeq' = [sentSeq EXCEPT ![e] = @ + 1]
        /\ packets' = [packets EXCEPT ![e] = @ \cup {new}]
        /\ sealed' = [sealed EXCEPT ![e] = Append(@, payload)]
        /\ UNCHANGED <<receivedSeq, taken>>
    BY DEF TakeSequence
  <1> HIDE DEF new
  <1>3. ChannelTypes'
    <2>1. sentSeq[e] + 1 \in 0..MaxSequence
      BY <1>2, ChannelAssumption DEF ChannelInv, ChannelTypes
    <2>2. Append(sealed[e], payload) \in Seq(Payloads)
      BY DEF ChannelInv, ChannelTypes
    <2>3. packets[e] \cup {new} \in SUBSET Packet
      BY <1>1 DEF ChannelInv, ChannelTypes
    <2>4. QED
      BY <1>2, <2>1, <2>2, <2>3 DEF ChannelInv, ChannelTypes
  <1>4. /\ sealed[e] \in Seq(Payloads) /\ Len(sealed[e]) = sentSeq[e] /\ sentSeq[e] \in Nat
        /\ sentSeq'[e] = sentSeq[e] + 1 /\ sealed'[e] = Append(sealed[e], payload)
        /\ packets'[e] = packets[e] \cup {new}
    BY <1>2 DEF ChannelInv, ChannelTypes, SealedInv
  <1>5. /\ Len(sealed'[e]) = sentSeq'[e] /\ sealed'[e][sentSeq[e] + 1] = payload
        /\ \A i \in 1..sentSeq[e] : sealed'[e][i] = sealed[e][i]
    BY <1>4
  <1>6. SealedInv'
    <2> SUFFICES ASSUME NEW f \in Ends
                 PROVE  /\ Len(sealed'[f]) = sentSeq'[f] /\ Len(taken'[f]) = receivedSeq'[f]
                        /\ \A p \in packets'[f] : p.seq <= sentSeq'[f] /\ p.payload = sealed'[f][p.seq]
                        /\ \A p, q \in packets'[f] : p.seq = q.seq => p = q
      BY DEF SealedInv
    <2>1. CASE f # e
      <3>1. sentSeq'[f] = sentSeq[f] /\ packets'[f] = packets[f] /\ sealed'[f] = sealed[f]
        BY <1>2, <2>1 DEF ChannelInv, ChannelTypes
      <3>2. /\ Len(sealed[f]) = sentSeq[f] /\ Len(taken[f]) = receivedSeq[f]
            /\ \A p \in packets[f] : p.seq <= sentSeq[f] /\ p.payload = sealed[f][p.seq]
            /\ \A p, q \in packets[f] : p.seq = q.seq => p = q
        BY DEF ChannelInv, SealedInv
      <3>3. QED
        BY <1>2, <3>1, <3>2, Zenon
    <2>2. CASE f = e
      <3>1. \A p \in packets[e] : p.seq \in 1..sentSeq[e] /\ p.payload = sealed[e][p.seq]
        BY DEF ChannelInv, ChannelTypes, SealedInv, Packet
      <3>2. \A p \in packets'[e] : p.seq <= sentSeq'[e] /\ p.payload = sealed'[e][p.seq]
        <4> SUFFICES ASSUME NEW p \in packets'[e]
                     PROVE  p.seq <= sentSeq'[e] /\ p.payload = sealed'[e][p.seq]
          OBVIOUS
        <4>1. CASE p = new
          BY <1>1, <1>4, <1>5, <4>1
        <4>2. CASE p \in packets[e]
          <5>1. p.seq \in 1..sentSeq[e] /\ p.payload = sealed[e][p.seq]
            BY <3>1, <4>2
          <5>2. sealed'[e][p.seq] = sealed[e][p.seq]
            BY <1>5, <5>1
          <5>3. QED
            BY <1>4, <5>1, <5>2
        <4>3. QED
          BY <1>4, <4>1, <4>2
      <3>3. \A p, q \in packets'[e] : p.seq = q.seq => p = q
        BY <1>1, <1>4, <3>1 DEF ChannelInv, SealedInv
      <3>4. QED
        BY ZenonT(40), <1>2, <1>5, <2>2, <3>2, <3>3 DEF ChannelInv, SealedInv
    <2>3. QED
      BY <2>1, <2>2
  <1>7. TakenInv'
    <2> SUFFICES ASSUME NEW f \in Ends
                 PROVE  /\ receivedSeq[f] <= sentSeq'[Peer(f)]
                        /\ \A i \in 1..receivedSeq[f] : taken[f][i] = sealed'[Peer(f)][i]
      BY <1>2 DEF TakenInv
    <2>1. /\ receivedSeq[f] <= sentSeq[Peer(f)] /\ receivedSeq[f] \in Nat
          /\ \A i \in 1..receivedSeq[f] : taken[f][i] = sealed[Peer(f)][i]
      BY DEF ChannelInv, ChannelTypes, TakenInv
    <2>2. CASE Peer(f) # e
      BY <1>2, <2>1, <2>2, Peers DEF ChannelInv, ChannelTypes
    <2>3. CASE Peer(f) = e
      <3>1. sentSeq[e] \in Nat /\ sentSeq'[e] = sentSeq[e] + 1
        BY <1>4, Zenon
      <3>2. receivedSeq[f] <= sentSeq[e] /\ \A i \in 1..receivedSeq[f] : taken[f][i] = sealed[e][i]
        BY <2>1, <2>3, Zenon
      <3>3. receivedSeq[f] <= sentSeq'[e] /\ \A i \in 1..receivedSeq[f] : i \in 1..sentSeq[e]
        BY <2>1, <3>1, <3>2
      <3>4. QED
        BY <1>5, <2>3, <3>2, <3>3, Zenon
    <2>4. QED
      BY <2>2, <2>3
  <1>8. QED
    BY <1>3, <1>6, <1>7 DEF ChannelInv

\* Accepting a packet keeps it: its number is the next one, below the last.
LEMMA AcceptInv ==
    ASSUME ChannelInv, NEW e \in Ends, NEW p \in packets[Peer(e)], Accept(e, p)
    PROVE  ChannelInv'
  <1>1. Peer(e) \in Ends /\ p \in Packet
    BY Peers DEF ChannelInv, ChannelTypes
  <1>2. /\ p.seq \in 1..MaxSequence /\ p.payload \in Payloads
        /\ p.seq <= sentSeq[Peer(e)] /\ p.payload = sealed[Peer(e)][p.seq]
    BY <1>1 DEF Packet, ChannelInv, SealedInv
  <1>3. receivedSeq[e] \in 0..MaxSequence /\ taken[e] \in Seq(Payloads) /\ Len(taken[e]) = receivedSeq[e]
    BY DEF ChannelInv, ChannelTypes, SealedInv
  <1>4. p.seq = receivedSeq[e] + 1
    <2>1. p.seq # 0 /\ p.seq = (receivedSeq[e] + 1) % (MaxSequence + 1)
      BY DEF Accept, InSequence
    <2>2. receivedSeq[e] < MaxSequence => (receivedSeq[e] + 1) % (MaxSequence + 1) = receivedSeq[e] + 1
      <3>1. \A m, n \in Nat : m < n => m % n = m
        OBVIOUS
      <3> DEFINE m == receivedSeq[e] + 1
                 n == MaxSequence + 1
      <3>2. m \in Nat /\ n \in Nat /\ (receivedSeq[e] < MaxSequence => m < n)
        BY <1>3, ChannelAssumption
      <3> HIDE DEF m, n
      <3>3. receivedSeq[e] < MaxSequence => m % n = m
        BY <3>1, <3>2, Zenon
      <3>4. QED
        BY <3>3, Zenon DEF m, n
    <2>3. receivedSeq[e] = MaxSequence => (receivedSeq[e] + 1) % (MaxSequence + 1) = 0
      <3>1. \A n \in Nat \ {0} : n % n = 0
        OBVIOUS
      <3>2. QED
        BY <3>1, ChannelAssumption
    <2>4. QED
      BY <1>3, <2>1, <2>2, <2>3, ChannelAssumption
  <1>5. /\ receivedSeq' = [receivedSeq EXCEPT ![e] = p.seq]
        /\ taken' = [taken EXCEPT ![e] = Append(@, p.payload)]
        /\ UNCHANGED <<sentSeq, packets, sealed>>
    BY DEF Accept
  <1>6. ChannelTypes'
    <2>1. Append(taken[e], p.payload) \in Seq(Payloads) /\ p.seq \in 0..MaxSequence
      BY <1>2, <1>3
    <2>2. QED
      BY <1>5, <2>1 DEF ChannelInv, ChannelTypes
  <1>7. /\ receivedSeq'[e] = receivedSeq[e] + 1 /\ taken'[e] = Append(taken[e], p.payload)
        /\ \A f \in Ends \ {e} : receivedSeq'[f] = receivedSeq[f] /\ taken'[f] = taken[f]
    BY <1>4, <1>5 DEF ChannelInv, ChannelTypes
  <1>8. /\ Len(taken'[e]) = receivedSeq'[e] /\ taken'[e][receivedSeq[e] + 1] = p.payload
        /\ \A i \in 1..receivedSeq[e] : taken'[e][i] = taken[e][i]
    BY <1>3, <1>7
  <1>9. SealedInv'
    BY <1>5, <1>7, <1>8 DEF ChannelInv, SealedInv
  <1>10. TakenInv'
    <2> SUFFICES ASSUME NEW f \in Ends
                 PROVE  /\ receivedSeq'[f] <= sentSeq[Peer(f)]
                        /\ \A i \in 1..receivedSeq'[f] : taken'[f][i] = sealed[Peer(f)][i]
      <3>1. sentSeq' = sentSeq /\ sealed' = sealed
        BY <1>5
      <3>2. QED
        BY <3>1, Zenon DEF TakenInv
    <2>0. /\ receivedSeq[f] <= sentSeq[Peer(f)]
          /\ \A i \in 1..receivedSeq[f] : taken[f][i] = sealed[Peer(f)][i]
      BY DEF ChannelInv, TakenInv
    <2>1. CASE f # e
      BY <1>7, <2>0, <2>1, Zenon
    <2>2. CASE f = e
      <3>1. receivedSeq'[e] <= sentSeq[Peer(e)]
        BY <1>2, <1>4, <1>7
      <3>2. ASSUME NEW i \in 1..receivedSeq'[e] PROVE taken'[e][i] = sealed[Peer(e)][i]
        <4>1. CASE i = receivedSeq[e] + 1
          BY <1>2, <1>4, <1>8, <4>1
        <4>2. CASE i \in 1..receivedSeq[e]
          BY <1>8, <2>0, <2>2, <4>2
        <4>3. QED
          BY <1>3, <1>7, <4>1, <4>2
      <3>3. QED
        BY <2>2, <3>1, <3>2
    <2>3. QED
      BY <2>1, <2>2
  <1>11. QED
    BY <1>6, <1>9, <1>10 DEF ChannelInv

\* The invariant holds on a new channel.
LEMMA NewChannelInv ==
    /\ ChannelInit => ChannelInv
    /\ NewChannel => ChannelInv'
  <1>1. \A e \in Ends : Peer(e) \in Ends
    BY Peers
  <1>2. ChannelInit => ChannelInv
    BY <1>1, ChannelAssumption DEF ChannelInit, ChannelInv, ChannelTypes, SealedInv, TakenInv
  <1>3. NewChannel => ChannelInv'
    BY <1>1, ChannelAssumption DEF NewChannel, ChannelInv, ChannelTypes, SealedInv, TakenInv
  <1>4. QED
    BY <1>2, <1>3

\* It holds in every reachable state.
LEMMA ChannelInvariance == ChannelSpec => []ChannelInv
  <1>1. ChannelInv /\ [ChannelNext]_channelVars => ChannelInv'
    <2> SUFFICES ASSUME ChannelInv, [ChannelNext]_channelVars PROVE ChannelInv'
      OBVIOUS
    <2>1. ASSUME NEW e \in Ends, NEW payload \in Payloads, Seal(e, payload) PROVE ChannelInv'
      BY <2>1, SealInv DEF Seal
    <2>2. ASSUME NEW e \in Ends, NEW payload \in Payloads, NEW compress \in {FALSE, e = "agent"},
                 SealBinary(e, payload, compress)
          PROVE  ChannelInv'
      <3>1. PICK zipped \in BOOLEAN : TakeSequence(e, payload, "binary", zipped)
        BY <2>2, Zenon DEF SealBinary
      <3>2. QED
        BY <3>1, SealInv
    <2>3. ASSUME NEW e \in Ends, NEW p \in packets[Peer(e)], OpenJSON(e, p) \/ OpenBinary(e, p)
          PROVE  ChannelInv'
      BY <2>3, AcceptInv DEF OpenJSON, OpenBinary
    <2>4. CASE UNCHANGED channelVars
      BY <2>4 DEF channelVars, ChannelInv, ChannelTypes, SealedInv, TakenInv
    <2>5. QED
      BY <2>1, <2>2, <2>3, <2>4, NewChannelInv DEF ChannelNext
  <1>2. QED
    BY <1>1, NewChannelInv, PTL DEF ChannelSpec

\* An end accepts exactly the first payloads its peer sealed, each once and in
\* order, and no end seals two packets under one number, for every width of
\* the counters and whatever the network does.
THEOREM ExactStream == ChannelSpec => []StreamExact
  <1>1. ChannelInv => StreamExact
    <2> SUFFICES ASSUME ChannelInv, NEW e \in Ends
                 PROVE  /\ \E n \in 0..Len(sealed[e]) : taken[Peer(e)] = SubSeq(sealed[e], 1, n)
                        /\ \A p, q \in packets[e] : p.seq = q.seq => p = q
      BY DEF StreamExact
    <2> DEFINE f == Peer(e)
    <2>1. f \in Ends /\ Peer(f) = e
      BY Peers
    <2>2. /\ taken[f] \in Seq(Payloads) /\ sealed[e] \in Seq(Payloads)
          /\ Len(taken[f]) <= Len(sealed[e])
          /\ \A i \in 1..Len(taken[f]) : taken[f][i] = sealed[e][i]
      BY <2>1 DEF ChannelInv, ChannelTypes, SealedInv, TakenInv
    <2>3. Len(taken[f]) \in 0..Len(sealed[e]) /\ taken[f] = SubSeq(sealed[e], 1, Len(taken[f]))
      BY <2>2
    <2>4. \A p, q \in packets[e] : p.seq = q.seq => p = q
      BY DEF ChannelInv, SealedInv
    <2>5. QED
      BY <2>3, <2>4
  <1>2. QED
    BY <1>1, ChannelInvariance, PTL

-----------------------------------------------------------------------------
(* Federation. *)

\* Every variable keeps its type.
TypeOK ==
    /\ pin \in Owners \cup {None}
    /\ grants \in [Shares -> Grant \cup {None}]
    /\ config \in [Tags -> Inbound \cup {None}]
    /\ results \in [Keys -> Seals \cup {None}]
    /\ request \in Envelope \cup {None}
    /\ ran \in [Keys -> SUBSET Seals]

\* No installed namespace is another one or inside another one.
GrantsApart ==
    \A s, q \in Shares : s # q /\ grants[s] # None /\ grants[q] # None =>
        ~Overlaps(grants[s].namespace, grants[q].namespace)

\* A kept reply answers a ciphertext that ran, and the request whose reply is
\* not kept yet has run and has none.
RepliesRan ==
    /\ \A k \in Keys : results[k] # None => results[k] \in ran[k]
    /\ request # None => /\ request.seal \in ran[Key(request)]
                         /\ results[Key(request)] = None

Inv == TypeOK /\ GrantsApart /\ RepliesRan

-----------------------------------------------------------------------------
(* Names. *)

\* A namespace and a name are sequences of labels, and so is the name brought
\* inside the namespace.
LEMMA ScopedType ==
  ASSUME NEW e \in Names, NEW n \in Namespaces
  PROVE  Scoped(e, n) \in Seq(Labels)
  BY FederationAssumption DEF Scoped

LEMMA EmailType == Emails \subseteq Seq(Labels)
  BY ScopedType, FederationAssumption DEF Emails

\* What Scoped makes is inside the namespace.
LEMMA ScopedInside ==
  ASSUME NEW e \in Names, NEW n \in Namespaces
  PROVE  HasPrefix(Scoped(e, n), n)
  <1>1. /\ e \in Seq(Labels) /\ n \in Seq(Labels) /\ Len(e) \in Nat /\ Len(n) \in Nat
        /\ e # <<>>
    BY FederationAssumption, LenProperties
  <1>2. Len(e) > 0
    BY <1>1, EmptySeq
  <1>3. Len(n \o e) = Len(n) + Len(e)
    BY <1>1, ConcatProperties
  <1>4. SubSeq(n \o e, 1, Len(n)) = n
    BY <1>1, SubSeqOfConcat1
  <1>5. HasPrefix(n \o e, n)
    BY <1>1, <1>2, <1>3, <1>4 DEF HasPrefix
  <1>6. QED
    BY <1>5 DEF Scoped

\* A name begins with two namespaces only when one of them begins with the
\* other.
LEMMA PrefixesOverlap ==
  ASSUME NEW e \in Seq(Labels), NEW n \in Seq(Labels), NEW m \in Seq(Labels),
         HasPrefix(e, n), HasPrefix(e, m)
  PROVE  Overlaps(n, m)
  <1>1. /\ Len(e) \in Nat /\ Len(n) \in Nat /\ Len(m) \in Nat
        /\ Len(e) > Len(n) /\ Len(e) > Len(m)
        /\ n = SubSeq(e, 1, Len(n)) /\ m = SubSeq(e, 1, Len(m))
    BY LenProperties DEF HasPrefix
  <1>2. ASSUME NEW a \in Nat, NEW b \in Nat, a <= b, b < Len(e)
        PROVE  SubSeq(SubSeq(e, 1, b), 1, a) = SubSeq(e, 1, a)
    BY <1>1, <1>2
  <1>3. CASE Len(n) = Len(m)
    BY <1>1, <1>3 DEF Overlaps
  <1>4. CASE Len(n) < Len(m)
    <2>1. SubSeq(m, 1, Len(n)) = n
      BY <1>1, <1>2, <1>4
    <2>2. QED
      BY <1>1, <1>4, <2>1 DEF Overlaps, HasPrefix
  <1>5. CASE Len(m) < Len(n)
    <2>1. SubSeq(n, 1, Len(m)) = m
      BY <1>1, <1>2, <1>5
    <2>2. QED
      BY <1>1, <1>5, <2>1 DEF Overlaps, HasPrefix
  <1>6. Len(n) = Len(m) \/ Len(n) < Len(m) \/ Len(m) < Len(n)
    BY LenProperties
  <1>7. QED
    BY <1>3, <1>4, <1>5, <1>6, Zenon

LEMMA OverlapsSymmetric ==
  ASSUME NEW n, NEW m PROVE Overlaps(n, m) <=> Overlaps(m, n)
  BY DEF Overlaps

-----------------------------------------------------------------------------
(* Types. *)

LEMMA TypeInit == Init => TypeOK
  BY DEF Init, TypeOK, Inbound

LEMMA PreserveType ==
  ASSUME NEW t, NEW desired \in SUBSET Emails, NEW existing \in SUBSET Emails
  PROVE  PreserveFederationUsers(t, desired, existing) \in SUBSET Emails
  BY DEF PreserveFederationUsers

LEMMA ClientsType ==
  ASSUME NEW in \in Inbound
  PROVE  Clients(in) \in SUBSET Emails
  BY DEF Clients, Inbound

LEMMA MergedType ==
  ASSUME NEW t, NEW next \in Inbound, NEW old \in Inbound
  PROVE  Merged(t, next, old) \in Inbound \cup {None}
  <1> DEFINE users == PreserveFederationUsers(t, Clients(next), Clients(old))
  <1>1. users \in SUBSET Emails
    BY ClientsType, PreserveType
  <1> HIDE DEF users
  <1>2. [next EXCEPT !.users = users] \in Inbound
    BY <1>1 DEF Inbound
  <1>3. QED
    BY <1>2, Zenon DEF Merged, users

LEMMA SynchronisedType ==
  ASSUME NEW g \in Grant, NEW in \in Inbound, NEW users \in SUBSET Names
  PROVE  Synchronised(g, in, users) \in SUBSET Emails
  BY ClientsType DEF Synchronised, Emails, Grant

LEMMA SyncType ==
  ASSUME TypeOK, NEW t \in Tags, config[t] # None, NEW users \in SUBSET Emails,
         SyncUsers(t, users)
  PROVE  config' \in [Tags -> Inbound \cup {None}]
  BY DEF TypeOK, SyncUsers, Inbound

LEMMA TypeStep == TypeOK /\ [Next]_vars => TypeOK'
  <1> SUFFICES ASSUME TypeOK, [Next]_vars PROVE TypeOK'
    OBVIOUS
  <1>1. ASSUME NEW s \in Shares, NEW g \in Grant, InstallFederationGrant(s, g) PROVE TypeOK'
    <2>1. grants' \in [Shares -> Grant \cup {None}]
      BY <1>1 DEF InstallFederationGrant, TypeOK
    <2>2. pin' \in Owners
      BY <1>1 DEF InstallFederationGrant, Grant
    <2>3. QED
      BY <1>1, <2>1, <2>2 DEF InstallFederationGrant, TypeOK
  <1>2. ASSUME NEW next \in [Tags -> Inbound \cup {None}], ApplyConfig(next) PROVE TypeOK'
    <2>1. config' = [t \in Tags |-> IF next[t] = None \/ config[t] = None
                                    THEN next[t] ELSE Merged(t, next[t], config[t])]
      BY <1>2, Zenon DEF ApplyConfig
    <2>2. ASSUME NEW t \in Tags, next[t] # None, config[t] # None
          PROVE  Merged(t, next[t], config[t]) \in Inbound \cup {None}
      BY <2>2, MergedType DEF TypeOK
    <2>3. config' \in [Tags -> Inbound \cup {None}]
      BY <2>1, <2>2
    <2>4. QED
      BY <1>2, <2>3 DEF ApplyConfig, TypeOK
  <1>3. ASSUME NEW t \in Tags, NEW desired \in SUBSET Emails, SyncOwnerUsers(t, desired)
        PROVE  TypeOK'
    <2>1. config[t] \in Inbound
      BY <1>3 DEF SyncOwnerUsers, TypeOK
    <2>2. PreserveFederationUsers(t, desired, Clients(config[t])) \in SUBSET Emails
      BY <2>1, ClientsType, PreserveType, Zenon
    <2>3. config' \in [Tags -> Inbound \cup {None}]
      BY <1>3, <2>2, SyncType, Zenon DEF SyncOwnerUsers
    <2>4. QED
      BY <1>3, <2>3 DEF SyncOwnerUsers, TypeOK
  <1>4. ASSUME NEW e \in Envelope, ExecuteFederation(e) PROVE TypeOK'
    <2>1. e.share \in Shares /\ e.inbound \in Tags /\ e.users \in SUBSET Names
            /\ Key(e) \in Keys /\ e.seal \in Seals
      BY DEF Envelope, Key, Keys
    <2>2. grants[e.share] \in Grant
      BY <1>4, <2>1 DEF ExecuteFederation, Permitted, TypeOK
    <2>3. config' \in [Tags -> Inbound \cup {None}]
      <3>1. CASE UNCHANGED config
        BY <3>1 DEF TypeOK
      <3>2. CASE /\ config[e.inbound] # None
                 /\ SyncUsers(e.inbound,
                              Synchronised(grants[e.share], config[e.inbound], e.users))
        <4>1. config[e.inbound] \in Inbound
          BY <2>1, <3>2 DEF TypeOK
        <4>2. Synchronised(grants[e.share], config[e.inbound], e.users) \in SUBSET Emails
          BY <2>1, <2>2, <4>1, SynchronisedType, Zenon
        <4>3. QED
          BY <2>1, <3>2, <4>2, SyncType, Zenon
      <3>3. QED
        BY <1>4, <3>1, <3>2, Zenon DEF ExecuteFederation
    <2>4. ran' \in [Keys -> SUBSET Seals]
      BY <1>4, <2>1 DEF ExecuteFederation, TypeOK
    <2>5. QED
      BY <1>4, <2>3, <2>4 DEF ExecuteFederation, TypeOK
  <1>5. CASE KeepReply
    BY <1>5 DEF KeepReply, TypeOK, Envelope, Key, Keys
  <1>6. CASE LoseReply
    BY <1>6 DEF LoseReply, TypeOK
  <1>7. CASE UNCHANGED vars
    BY <1>7 DEF vars, TypeOK
  <1>8. QED
    BY <1>1, <1>2, <1>3, <1>4, <1>5, <1>6, <1>7, Zenon DEF Next

-----------------------------------------------------------------------------
(* Grants and replies. *)

LEMMA GrantsStep == TypeOK /\ GrantsApart /\ [Next]_vars => GrantsApart'
  <1> SUFFICES ASSUME TypeOK, GrantsApart, [Next]_vars PROVE GrantsApart'
    OBVIOUS
  <1>1. ASSUME NEW s \in Shares, NEW g \in Grant, InstallFederationGrant(s, g)
        PROVE  GrantsApart'
    <2>1. CASE UNCHANGED grants
      BY <2>1 DEF GrantsApart
    <2>2. CASE /\ grants' = [grants EXCEPT ![s] = g]
               /\ \A q \in Shares \ {s} :
                    grants[q] # None => ~Overlaps(grants[q].namespace, g.namespace)
      <3>1. grants'[s] = g /\ \A q \in Shares \ {s} : grants'[q] = grants[q]
        BY <2>2 DEF TypeOK
      <3>2. QED
        BY <2>2, <3>1, OverlapsSymmetric DEF GrantsApart
    <2>3. QED
      BY <1>1, <2>1, <2>2, Zenon DEF InstallFederationGrant
  <1>2. CASE UNCHANGED grants
    BY <1>2 DEF GrantsApart
  <1>3. QED
    BY <1>1, <1>2, Zenon DEF Next, ApplyConfig, SyncOwnerUsers, ExecuteFederation, KeepReply,
       LoseReply, vars

LEMMA RepliesStep == TypeOK /\ RepliesRan /\ [Next]_vars => RepliesRan'
  <1> SUFFICES ASSUME TypeOK, RepliesRan, [Next]_vars PROVE RepliesRan'
    OBVIOUS
  <1>1. CASE UNCHANGED <<results, request, ran>>
    BY <1>1 DEF RepliesRan, Key
  <1>2. ASSUME NEW e \in Envelope, ExecuteFederation(e) PROVE RepliesRan'
    <2>1. Key(e) \in Keys
      BY DEF Envelope, Key, Keys
    <2>2. /\ request' = e /\ results' = results /\ results[Key(e)] = None
          /\ ran' = [ran EXCEPT ![Key(e)] = @ \cup {e.seal}]
      BY <1>2, Zenon DEF ExecuteFederation, Answered
    <2>3. e.seal \in ran'[Key(e)] /\ \A k \in Keys : ran[k] \subseteq ran'[k]
      BY <2>1, <2>2 DEF TypeOK
    <2>4. Key(request)' = Key(e)
      BY <2>2 DEF Key
    <2>5. QED
      BY <2>2, <2>3, <2>4 DEF RepliesRan
  <1>3. CASE KeepReply
    <2>1. Key(request) \in Keys
      BY <1>3 DEF KeepReply, TypeOK, Envelope, Key, Keys
    <2>2. QED
      BY <1>3, <2>1 DEF KeepReply, RepliesRan, TypeOK
  <1>4. CASE LoseReply
    BY <1>4 DEF LoseReply, RepliesRan
  <1>5. QED
    BY <1>1, <1>2, <1>3, <1>4, Zenon DEF Next, InstallFederationGrant, ApplyConfig,
       SyncOwnerUsers, vars

LEMMA Invariance == Spec => []Inv
  <1>1. Init => Inv
    BY TypeInit DEF Init, Inv, GrantsApart, RepliesRan
  <1>2. Inv /\ [Next]_vars => Inv'
    BY TypeStep, GrantsStep, RepliesStep DEF Inv
  <1>3. QED
    BY <1>1, <1>2, PTL DEF Spec

-----------------------------------------------------------------------------
(* The theorems. *)

\* No user is inside the namespaces of two installed grants, whatever order the
\* grants, their revisions and their revocations came in.
THEOREM DisjointNamespaces == Spec => []NamespacesDisjoint
  <1>1. Inv => NamespacesDisjoint
    <2> SUFFICES ASSUME Inv, NEW s \in Shares, NEW q \in Shares, s # q, grants[s] # None,
                        grants[q] # None, NEW e \in Emails,
                        HasPrefix(e, grants[s].namespace), HasPrefix(e, grants[q].namespace)
                 PROVE  FALSE
      BY DEF NamespacesDisjoint
    <2>1. grants[s].namespace \in Namespaces /\ grants[q].namespace \in Namespaces
      BY DEF Inv, TypeOK, Grant
    <2>2. /\ grants[s].namespace \in Seq(Labels) /\ grants[q].namespace \in Seq(Labels)
          /\ e \in Seq(Labels)
      BY <2>1, EmailType, FederationAssumption
    <2>3. Overlaps(grants[s].namespace, grants[q].namespace)
      BY <2>2, PrefixesOverlap, Zenon
    <2>4. QED
      BY <2>3 DEF Inv, GrantsApart
  <1>2. QED
    BY <1>1, Invariance, PTL

\* A step that runs a request is one of executeFederation.
LEMMA RunsRequest ==
  ASSUME [Next]_vars, request = None, request' # None
  PROVE  \E e \in Envelope : ExecuteFederation(e)
  BY Zenon DEF Next, vars, InstallFederationGrant, ApplyConfig, SyncOwnerUsers, KeepReply,
     LoseReply

\* What a request changes: users of one inbound of its grant.
LEMMA RequestChanges ==
  ASSUME TypeOK, NEW e \in Envelope, ExecuteFederation(e), NEW t \in Tags,
         config'[t] # config[t]
  PROVE  /\ grants[e.share] \in Grant /\ t \in grants[e.share].inbounds
         /\ config[t] \in Inbound
         /\ config'[t].users = Synchronised(grants[e.share], config[t], e.users)
         /\ e.users \in SUBSET Names
  <1>1. e.share \in Shares /\ e.users \in SUBSET Names
    BY DEF Envelope
  <1>2. grants[e.share] \in Grant
    BY <1>1 DEF ExecuteFederation, Permitted, TypeOK
  <1>3. /\ e.inbound \in grants[e.share].inbounds /\ config[e.inbound] # None
        /\ config' = [config EXCEPT ![e.inbound].users =
                        Synchronised(grants[e.share], config[e.inbound], e.users)]
    BY Zenon DEF ExecuteFederation, SyncUsers
  <1>4. t = e.inbound
    BY <1>3 DEF TypeOK
  <1>5. config[t] \in Inbound
    BY <1>3, <1>4 DEF TypeOK
  <1>6. QED
    BY <1>1, <1>2, <1>3, <1>4, <1>5 DEF Inbound

\* Where no protocol keeps its users as accounts, the users a request changes
\* are inside the namespace of its grant.
LEMMA ChangedInside ==
  ASSUME AccountProtocols = {}, NEW g \in Grant, NEW in \in Inbound, NEW users \in SUBSET Names,
         NEW u \in Changed(in.users, Synchronised(g, in, users))
  PROVE  HasPrefix(u, g.namespace)
  <1>1. Clients(in) = in.users
    BY DEF Clients
  <1>2. g.namespace \in Namespaces
    BY DEF Grant
  <1>3. \A v \in users : HasPrefix(Scoped(v, g.namespace), g.namespace)
    BY <1>2, ScopedInside
  <1>4. QED
    BY <1>1, <1>3 DEF Changed, Synchronised

\* A consumer's request changes nothing outside the inbounds shared with it and
\* nobody outside its namespace.  The hypothesis is what the run
\* federation_accounts shows to be needed.
THEOREM ConsumersConfined ==
  ASSUME AccountProtocols = {}
  PROVE  Spec => ConsumerConfined
  <1>1. ASSUME Inv, [Next]_vars, request = None, request' # None,
               NEW t \in {i \in Tags : config'[i] # config[i]}
        PROVE  /\ t \in grants[request'.share].inbounds
               /\ \A u \in Changed(config[t].users, config'[t].users) :
                    HasPrefix(u, grants[request'.share].namespace)
    <2>1. PICK e \in Envelope : ExecuteFederation(e)
      BY <1>1, RunsRequest
    <2>2. request' = e
      BY <2>1 DEF ExecuteFederation
    <2>3. /\ grants[e.share] \in Grant /\ t \in grants[e.share].inbounds
          /\ config[t] \in Inbound
          /\ config'[t].users = Synchronised(grants[e.share], config[t], e.users)
          /\ e.users \in SUBSET Names
      BY <1>1, <2>1, RequestChanges DEF Inv
    <2>4. ASSUME NEW u \in Changed(config[t].users, config'[t].users)
          PROVE  HasPrefix(u, grants[e.share].namespace)
      BY <2>3, ChangedInside
    <2>5. QED
      BY <2>2, <2>3, <2>4
  <1>2. Inv /\ [Next]_vars =>
          [request = None /\ request' # None =>
             LET g == grants[request'.share] IN
             \A t \in {i \in Tags : config'[i] # config[i]} :
               /\ t \in g.inbounds
               /\ \A e \in Changed(config[t].users, config'[t].users) :
                    HasPrefix(e, g.namespace)]_vars
    BY <1>1, Zenon
  <1>3. QED
    BY <1>2, Invariance, PTL DEF Spec, ConsumerConfined

\* The owner's lists and configurations leave the reserved users of an inbound
\* that stays as they were.
LEMMA ReservedKept ==
  ASSUME NEW t, NEW desired, NEW existing, NEW s \in Shares,
         grants[s] # None, t \in grants[s].inbounds,
         NEW u \in Changed(existing, PreserveFederationUsers(t, desired, existing))
  PROVE  ~HasPrefix(u, grants[s].namespace)
  <1>1. HasPrefix(u, grants[s].namespace) => IsReserved(t, u)
    BY DEF IsReserved, Reserved
  <1>2. QED
    BY <1>1 DEF Changed, PreserveFederationUsers

\* In an inbound that stays, a user inside a shared namespace comes and goes
\* only by a request of that namespace's consumer.
THEOREM ConsumersPreserved ==
  ASSUME AccountProtocols = {}
  PROVE  Spec => ConsumerPreserved
  <1> DEFINE Kept ==
        \A t \in Tags, s \in Shares :
          /\ config[t] # None /\ config'[t] # None
          /\ grants[s] # None /\ t \in grants[s].inbounds
          /\ \E e \in Changed(config[t].users, config'[t].users) : HasPrefix(e, grants[s].namespace)
          => request' # None /\ request'.share = s
  <1>1. Inv /\ NamespacesDisjoint /\ [Next]_vars => Kept
    <2> SUFFICES ASSUME Inv, NamespacesDisjoint, [Next]_vars, NEW t \in Tags, NEW s \in Shares,
                        config[t] # None, config'[t] # None,
                        grants[s] # None, t \in grants[s].inbounds,
                        NEW u \in Changed(config[t].users, config'[t].users),
                        HasPrefix(u, grants[s].namespace)
                 PROVE  request' # None /\ request'.share = s
      OBVIOUS
    <2>0. config[t] \in Inbound /\ Clients(config[t]) = config[t].users
      BY DEF Inv, TypeOK, Clients
    <2>1. CASE UNCHANGED config
      BY <2>1 DEF Changed
    <2>2. ASSUME NEW next \in [Tags -> Inbound \cup {None}], ApplyConfig(next) PROVE FALSE
      <3>1. config'[t] = IF next[t] = None \/ config[t] = None
                         THEN next[t] ELSE Merged(t, next[t], config[t])
        BY <2>2, Zenon DEF ApplyConfig
      <3>2. next[t] \in Inbound /\ config'[t] = Merged(t, next[t], config[t])
        BY <3>1
      <3> DEFINE users == PreserveFederationUsers(t, Clients(next[t]), Clients(config[t]))
      <3>3. config'[t] = [next[t] EXCEPT !.users = users]
        BY <3>2, Zenon DEF Merged
      <3> HIDE DEF users
      <3>4. config'[t].users = users
        BY <3>2, <3>3 DEF Inbound
      <3>5. QED
        BY <2>0, <3>4, ReservedKept, Zenon DEF users
    <2>3. ASSUME NEW i \in Tags, NEW desired \in SUBSET Emails, SyncOwnerUsers(i, desired)
          PROVE  FALSE
      <3> DEFINE users == PreserveFederationUsers(i, desired, Clients(config[i]))
      <3>1. config' = [config EXCEPT ![i].users = users]
        BY <2>3 DEF SyncOwnerUsers, SyncUsers
      <3> HIDE DEF users
      <3>2. i = t
        BY <3>1 DEF Inv, TypeOK, Changed
      <3>3. config'[t].users = users
        BY ZenonT(60), <2>0, <3>1, <3>2 DEF Inv, TypeOK, Inbound
      <3>4. QED
        BY <2>0, <3>2, <3>3, ReservedKept, Zenon DEF users
    <2>4. ASSUME NEW e \in Envelope, ExecuteFederation(e)
          PROVE  request' # None /\ request'.share = s
      <3>1. config'[t] # config[t]
        BY DEF Changed
      <3>2. /\ grants[e.share] \in Grant
            /\ config'[t].users = Synchronised(grants[e.share], config[t], e.users)
            /\ e.users \in SUBSET Names
        BY <2>4, <3>1, RequestChanges DEF Inv
      <3>3. HasPrefix(u, grants[e.share].namespace)
        BY <2>0, <3>2, ChangedInside
      <3>4. u \in Emails
        <4>1. Synchronised(grants[e.share], config[t], e.users) \in SUBSET Emails
          BY <2>0, <3>2, SynchronisedType, Zenon
        <4>2. QED
          BY <2>0, <3>2, <4>1 DEF Changed, Inbound
      <3>5. e.share \in Shares /\ grants[e.share] # None
        BY ZenonT(60), <2>4 DEF Envelope, ExecuteFederation, Permitted
      <3>6. e.share = s
        BY <3>3, <3>4, <3>5 DEF NamespacesDisjoint
      <3>7. QED
        BY <2>4, <3>6, NoEnvelope DEF ExecuteFederation
    <2>5. QED
      BY <2>1, <2>2, <2>3, <2>4, Zenon DEF Next, InstallFederationGrant, KeepReply, LoseReply, vars
  <1>2. Inv /\ NamespacesDisjoint /\ [Next]_vars => [Kept]_vars
    BY <1>1
  <1>3. QED
    BY <1>2, Invariance, DisjointNamespaces, PTL DEF Spec, ConsumerPreserved

\* Once a reply is kept under a request id nothing runs under it again, and
\* what is kept answers a ciphertext that ran.
THEOREM RequestsAnsweredOnce == Spec => AnsweredOnce
  <1> DEFINE Once ==
        \A k \in Keys :
          /\ results[k] # None => ran'[k] = ran[k] /\ results'[k] = results[k]
          /\ results'[k] # None => results'[k] \in ran'[k]
  <1>1. Inv /\ Inv' /\ [Next]_vars => Once
    <2> SUFFICES ASSUME Inv, Inv', [Next]_vars, NEW k \in Keys
                 PROVE  /\ results[k] # None => ran'[k] = ran[k] /\ results'[k] = results[k]
                        /\ results'[k] # None => results'[k] \in ran'[k]
      OBVIOUS
    <2>1. results'[k] # None => results'[k] \in ran'[k]
      BY ZenonT(60) DEF Inv, RepliesRan
    <2>2. ASSUME NEW e \in Envelope, ExecuteFederation(e), results[k] # None
          PROVE  ran'[k] = ran[k] /\ results'[k] = results[k]
      BY <2>2 DEF ExecuteFederation, Answered, Inv, TypeOK
    <2>3. ASSUME KeepReply, results[k] # None
          PROVE  ran'[k] = ran[k] /\ results'[k] = results[k]
      BY <2>3 DEF KeepReply, Inv, TypeOK, RepliesRan
    <2>4. QED
      BY <2>1, <2>2, <2>3, Zenon DEF Next, InstallFederationGrant, ApplyConfig, SyncOwnerUsers,
         LoseReply, vars
  <1>2. Inv /\ Inv' /\ [Next]_vars => [Once]_vars
    BY <1>1
  <1>3. QED
    BY <1>2, Invariance, PTL DEF Spec, AnsweredOnce

-----------------------------------------------------------------------------
(* Policies. *)

\* The inductive invariant.
PoliciesInv == PoliciesTypeOK /\ CountsExact /\ SpliceUnlimited /\ DisabledClosed

\* state(email) always finds a user.
LEMMA UserType ==
    ASSUME PoliciesTypeOK, NEW e \in Identities
    PROVE  User(e) \in Users
  BY PoliciesAssumption DEF PoliciesTypeOK, User

\* The sessions of a user are finitely many, in total and per address.
LEMMA OfFinite ==
    ASSUME active \subseteq Sessions, NEW u, NEW i
    PROVE  /\ IsFiniteSet(Of(u)) /\ IsFiniteSet(From(u, i))
           /\ Cardinality(Of(u)) \in Nat /\ Cardinality(From(u, i)) \in Nat
  <1>1. Of(u) \in SUBSET Sessions /\ From(u, i) \in SUBSET Sessions
    BY DEF Of, From
  <1>2. IsFiniteSet(Of(u)) /\ IsFiniteSet(From(u, i))
    BY <1>1, FS_Subset, PoliciesAssumption
  <1> QED
    BY <1>2, FS_CardinalityType

\* Admitting a session adds it to its user and to no other.
LEMMA AdmitOf ==
    ASSUME PoliciesTypeOK, NEW s \in Sessions, NEW e \in Identities, NEW i \in IPs,
           AdmitSession(s, e, i), NEW u, NEW j
    PROVE  /\ Of(u)' = IF u = User(e) THEN Of(u) \cup {s} ELSE Of(u)
           /\ From(u, j)' = IF u = User(e) /\ j = i THEN From(u, j) \cup {s} ELSE From(u, j)
           /\ s \notin Of(u) /\ s \notin From(u, j)
  <1>1. \A t \in active : t # s /\ t \in Sessions /\ who'[t] = who[t]
    BY DEF AdmitSession, PoliciesTypeOK
  <1>2. who'[s] = [email |-> e, ip |-> i] /\ active' = active \cup {s} /\ byEmail' = byEmail
    BY DEF AdmitSession, PoliciesTypeOK
  <1>3. Of(u)' = IF u = User(e) THEN Of(u) \cup {s} ELSE Of(u)
    BY <1>1, <1>2 DEF Of, User
  <1>4. From(u, j)' = IF u = User(e) /\ j = i THEN From(u, j) \cup {s} ELSE From(u, j)
    BY SMTT(30), <1>1, <1>2, <1>3 DEF Of, From
  <1> QED
    BY <1>1, <1>3, <1>4 DEF Of, From

\* Releasing a session removes it from its user, the one it has then.
LEMMA ReleaseOf ==
    ASSUME PoliciesTypeOK, NEW s \in Sessions, Release(s), NEW u, NEW j
    PROVE  /\ Of(u)' = Of(u) \ {s}
           /\ From(u, j)' = From(u, j) \ {s}
           /\ s \in Of(u) <=> u = User(who[s].email)
           /\ s \in From(u, j) <=> u = User(who[s].email) /\ j = who[s].ip
  BY ZenonT(60) DEF Release, Of, From, User, PoliciesTypeOK

\* Steps that leave identities and admissions alone leave Of and From alone.
LEMMA SameOf ==
    ASSUME UNCHANGED <<byEmail, active, who>>
    PROVE  \A u, i : Of(u)' = Of(u) /\ From(u, i)' = From(u, i)
  BY DEF Of, From, User

-----------------------------------------------------------------------------
\* The invariant holds initially.
LEMMA PoliciesInitInv == PoliciesInit => PoliciesInv
  <1> SUFFICES ASSUME PoliciesInit PROVE PoliciesInv
    OBVIOUS
  <1>1. PoliciesTypeOK
    BY PoliciesAssumption DEF PoliciesInit, Empty, PoliciesTypeOK
  <1>2. \A u \in Users, i \in IPs : Of(u) = {} /\ From(u, i) = {}
    BY DEF PoliciesInit, Of, From
  <1>3. CountsExact
    <2> SUFFICES ASSUME NEW u \in Users
                 PROVE  /\ connections[u] = Cardinality(Of(u))
                        /\ \A i \in IPs : ips[u][i] = Cardinality(From(u, i))
      BY DEF CountsExact
    <2>1. Of(u) = {}
      BY DEF PoliciesInit, Of
    <2> QED
      BY ZenonT(60), <1>2, <2>1, FS_EmptySet DEF PoliciesInit
  <1>4. SpliceUnlimited /\ DisabledClosed
    BY DEF PoliciesInit, SpliceUnlimited, DisabledClosed
  <1> QED
    BY <1>1, <1>3, <1>4 DEF PoliciesInv

\* Admission keeps the invariant.
LEMMA AdmitInv ==
    ASSUME PoliciesInv, NEW s \in Sessions, NEW e \in Identities, NEW i \in IPs, AdmitSession(s, e, i)
    PROVE  PoliciesInv'
  <1> USE DEF PoliciesInv
  <1>1. User(e) \in Users
    BY UserType
  <1>2. PoliciesTypeOK'
    BY <1>1 DEF PoliciesTypeOK, AdmitSession
  <1>3. CountsExact'
    <2> SUFFICES ASSUME NEW u \in Users
                 PROVE  /\ connections'[u] = Cardinality(Of(u)')
                        /\ \A j \in IPs : ips'[u][j] = Cardinality(From(u, j)')
      BY DEF CountsExact
    <2>1. connections'[u] = Cardinality(Of(u)')
      <3>1. connections'[u] = IF u = User(e) THEN connections[u] + 1 ELSE connections[u]
        BY <1>1 DEF AdmitSession, PoliciesTypeOK
      <3>2. IsFiniteSet(Of(u))
        BY ZenonT(60), OfFinite DEF PoliciesTypeOK
      <3>3. Cardinality(Of(u) \cup {s}) = Cardinality(Of(u)) + 1
        BY ZenonT(60), <3>2, AdmitOf, FS_AddElement
      <3>4. Of(u)' = IF u = User(e) THEN Of(u) \cup {s} ELSE Of(u)
        BY ZenonT(60), AdmitOf
      <3>5. connections[u] = Cardinality(Of(u))
        BY DEF CountsExact
      <3> QED
        BY <3>1, <3>3, <3>4, <3>5
    <2>2. ASSUME NEW j \in IPs
          PROVE  ips'[u][j] = Cardinality(From(u, j)')
      <3>1. ips'[u][j] = IF u = User(e) /\ j = i THEN ips[u][j] + 1 ELSE ips[u][j]
        BY <1>1 DEF AdmitSession, PoliciesTypeOK
      <3>2. IsFiniteSet(From(u, j))
        BY OfFinite DEF PoliciesTypeOK
      <3>3. Cardinality(From(u, j) \cup {s}) = Cardinality(From(u, j)) + 1
        BY ZenonT(60), <3>2, AdmitOf, FS_AddElement
      <3>4. From(u, j)' = IF u = User(e) /\ j = i THEN From(u, j) \cup {s} ELSE From(u, j)
        BY AdmitOf
      <3>5. ips[u][j] = Cardinality(From(u, j))
        BY DEF CountsExact
      <3> QED
        BY <3>1, <3>3, <3>4, <3>5
    <2> QED
      BY <2>1, <2>2
  <1>4. SpliceUnlimited' /\ DisabledClosed'
    <2>1. \A t \in Sessions : t # s => who'[t] = who[t]
      BY ZenonT(60) DEF AdmitSession, PoliciesTypeOK
    <2>2. SpliceUnlimited'
      BY <2>1 DEF AdmitSession, PoliciesTypeOK, SpliceUnlimited, User
    <2>3. who'[s].email = e /\ ~ byUser'[User(e)'].disabled
      BY ZenonT(60) DEF AdmitSession, Admissible, PoliciesTypeOK, User
    <2>4. DisabledClosed'
      BY <2>1, <2>3 DEF AdmitSession, PoliciesTypeOK, DisabledClosed, User
    <2> QED
      BY <2>2, <2>4
  <1> QED
    BY <1>2, <1>3, <1>4

\* Releasing keeps the invariant: the counters it decrements are at least one.
LEMMA ReleaseInv ==
    ASSUME PoliciesInv, NEW s \in Sessions, Release(s)
    PROVE  PoliciesInv'
  <1> USE DEF PoliciesInv
  <1> DEFINE w == User(who[s].email)
             a == who[s].ip
  <1>1. w \in Users /\ a \in IPs /\ who[s].email \in Identities
    BY UserType DEF PoliciesTypeOK
  <1>2. ASSUME NEW u \in Users
        PROVE  connections'[u] = Cardinality(Of(u)') /\ connections'[u] \in Nat
    <2>1. connections'[u] = IF u = w THEN connections[u] - 1 ELSE connections[u]
      BY <1>1 DEF Release, PoliciesTypeOK
    <2>2. IsFiniteSet(Of(u))
      BY ZenonT(60), OfFinite DEF PoliciesTypeOK
    <2>3. /\ IsFiniteSet(Of(u) \ {s})
          /\ Cardinality(Of(u) \ {s}) = IF s \in Of(u) THEN Cardinality(Of(u)) - 1 ELSE Cardinality(Of(u))
      BY ZenonT(60), <2>2, FS_RemoveElement
    <2>4. Of(u)' = Of(u) \ {s} /\ (s \in Of(u) <=> u = w)
      BY ZenonT(60), ReleaseOf
    <2>5. connections[u] = Cardinality(Of(u))
      BY DEF CountsExact
    <2>6. connections'[u] = Cardinality(Of(u)')
      BY <2>1, <2>3, <2>4, <2>5
    <2>7. Cardinality(Of(u)') \in Nat
      BY <2>3, <2>4, FS_CardinalityType
    <2> QED
      BY <2>6, <2>7
  <1>3. ASSUME NEW u \in Users, NEW j \in IPs
        PROVE  ips'[u][j] = Cardinality(From(u, j)') /\ ips'[u][j] \in Nat
    <2>1. IsFiniteSet(From(u, j))
      BY OfFinite DEF PoliciesTypeOK
    <2>2. /\ IsFiniteSet(From(u, j) \ {s})
          /\ Cardinality(From(u, j) \ {s}) =
               IF s \in From(u, j) THEN Cardinality(From(u, j)) - 1 ELSE Cardinality(From(u, j))
      BY <2>1, FS_RemoveElement
    <2>3. From(u, j)' = From(u, j) \ {s} /\ (s \in From(u, j) <=> u = w /\ j = a)
      BY ReleaseOf
    <2>4. ips[u][j] = Cardinality(From(u, j)) /\ ips[u][j] \in Nat
      BY DEF CountsExact, PoliciesTypeOK
    <2>5. s \in From(u, j) => ips[u][j] > 0
      BY <2>1, <2>4, FS_EmptySet
    <2>6. ips'[u][j] = IF u = w /\ j = a
                       THEN IF ips[u][j] > 0 THEN ips[u][j] - 1 ELSE 0
                       ELSE ips[u][j]
      BY <1>1 DEF Release, PoliciesTypeOK
    <2>7. ips'[u][j] = Cardinality(From(u, j)')
      BY <2>2, <2>3, <2>4, <2>5, <2>6
    <2>8. Cardinality(From(u, j)') \in Nat
      BY <2>2, <2>3, FS_CardinalityType
    <2> QED
      BY <2>7, <2>8
  <1>4. CountsExact'
    BY <1>2, <1>3 DEF CountsExact
  <1>5. PoliciesTypeOK'
    <2>1. connections' \in [Users -> Nat]
      <3>1. connections' = [connections EXCEPT ![w] = @ - 1]
        BY DEF Release
      <3>2. DOMAIN connections' = Users /\ connections' = [u \in Users |-> connections'[u]]
        BY ZenonT(60), <3>1 DEF PoliciesTypeOK
      <3> QED
        BY <3>2, <1>2
    <2>2. ips' \in [Users -> [IPs -> Nat]]
      BY ZenonT(60), <1>1, <1>3 DEF Release, PoliciesTypeOK
    <2> QED
      BY <2>1, <2>2 DEF Release, PoliciesTypeOK
  <1>6. SpliceUnlimited' /\ DisabledClosed'
    BY ZenonT(60) DEF Release, SpliceUnlimited, DisabledClosed, User
  <1> QED
    BY <1>4, <1>5, <1>6

\* A new list keeps the invariant: apply counts the sessions again and closes
\* what the list forbids.
LEMMA ApplyInv ==
    ASSUME PoliciesInv, NEW list \in Lists, Apply(list)
    PROVE  PoliciesInv'
  <1> USE DEF PoliciesInv
  <1>1. \A u, i : Cardinality(Of(u)') \in Nat /\ Cardinality(From(u, i)') \in Nat
    <2> TAKE u, i
    <2>1. Of(u)' \in SUBSET Sessions /\ From(u, i)' \in SUBSET Sessions
      BY DEF Apply, PoliciesTypeOK, Of, From
    <2>2. IsFiniteSet(Of(u)') /\ IsFiniteSet(From(u, i)')
      BY <2>1, FS_Subset, PoliciesAssumption
    <2> QED
      BY <2>2, FS_CardinalityType
  <1>2. PoliciesTypeOK'
    <2>1. Forbidden(list.limit, list.owner) \subseteq Sessions
      BY ZenonT(60) DEF Forbidden, PoliciesTypeOK
    <2>2. byUser' \in [Users -> Limits] /\ byEmail' \in [Identities -> Users \cup {NoUser}]
      BY DEF Apply, Lists
    <2> QED
      BY ZenonT(60), <1>1, <2>1, <2>2 DEF Apply, PoliciesTypeOK
  <1>3. CountsExact'
    BY DEF Apply, CountsExact
  <1>4. SpliceUnlimited' /\ DisabledClosed'
    BY ZenonT(60) DEF Apply, Forbidden, SpliceUnlimited, DisabledClosed, User, PoliciesTypeOK
  <1> QED
    BY <1>2, <1>3, <1>4

\* The other steps leave identities, admissions and counters alone.
LEMMA SessionInv ==
    ASSUME PoliciesInv, NEW s \in Sessions,
           Finish(s) \/ Terminate(s) \/ BeginUnboundedSplice(s) \/ EndSplice(s)
    PROVE  PoliciesInv'
  <1> USE DEF PoliciesInv, Finish, Terminate, BeginUnboundedSplice, EndSplice
  <1>1. PoliciesTypeOK'
    BY ZenonT(60) DEF PoliciesTypeOK
  <1>2. UNCHANGED <<byUser, byEmail, connections, ips, active, who>>
    BY Zenon
  <1>3. CountsExact'
    <2> HIDE DEF Finish, Terminate, BeginUnboundedSplice, EndSplice
    <2> QED
      BY <1>2, SameOf DEF CountsExact
  <1>4. SpliceUnlimited'
    BY <1>2 DEF SpliceUnlimited, User
  <1>5. DisabledClosed'
    BY <1>2 DEF DisabledClosed, User
  <1> QED
    BY <1>1, <1>3, <1>4, <1>5

\* A new process has no sessions.
LEMMA RestartInv ==
    ASSUME PoliciesInv, NEW list \in Lists, Restart(list)
    PROVE  PoliciesInv'
  <1>1. PoliciesTypeOK'
    BY DEF PoliciesInv, PoliciesTypeOK, Restart, Lists
  <1>2. \A u, i : Of(u)' = {} /\ From(u, i)' = {}
    BY DEF Restart, Of, From
  <1>3. CountsExact'
    BY <1>2, FS_EmptySet DEF CountsExact, Restart
  <1>4. SpliceUnlimited' /\ DisabledClosed'
    BY DEF Restart, SpliceUnlimited, DisabledClosed
  <1> QED
    BY <1>1, <1>3, <1>4 DEF PoliciesInv

\* Every step, or a step that changes nothing, keeps the invariant.
LEMMA PoliciesNextInv == PoliciesInv /\ [PoliciesNext]_policiesVars => PoliciesInv'
  <1> SUFFICES ASSUME PoliciesInv, [PoliciesNext]_policiesVars PROVE PoliciesInv'
    OBVIOUS
  <1>1. CASE \E s \in Sessions, e \in Identities, i \in IPs : AdmitSession(s, e, i)
    BY <1>1, AdmitInv
  <1>2. CASE \E s \in Sessions : Release(s)
    BY <1>2, ReleaseInv
  <1>3. CASE \E s \in Sessions :
               Finish(s) \/ Terminate(s) \/ BeginUnboundedSplice(s) \/ EndSplice(s)
    BY <1>3, SessionInv
  <1>4. CASE \E list \in Lists : Apply(list)
    BY <1>4, ApplyInv
  <1>5. CASE \E list \in Lists : Restart(list)
    BY <1>5, RestartInv
  <1>6. CASE UNCHANGED policiesVars
    <2>1. UNCHANGED <<byEmail, active, who>>
      BY <1>6 DEF policiesVars
    <2>2. CountsExact'
      BY <1>6, <2>1, SameOf DEF PoliciesInv, CountsExact, policiesVars
    <2> QED
      BY <1>6, <2>2 DEF PoliciesInv, PoliciesTypeOK, SpliceUnlimited, DisabledClosed, User, policiesVars
  <1> QED
    BY <1>1, <1>2, <1>3, <1>4, <1>5, <1>6 DEF PoliciesNext

-----------------------------------------------------------------------------
\* The invariant holds in every reachable state.
THEOREM PoliciesInvariant == PoliciesSpec => []PoliciesInv
  BY PoliciesInitInv, PoliciesNextInv, PTL DEF PoliciesSpec

\* The types of policies.go's state, its counters never below zero.
THEOREM TypeCorrect == PoliciesSpec => []PoliciesTypeOK
  BY PoliciesInvariant, PTL DEF PoliciesInv

\* The counters admission is judged by are the open sessions of the user, in
\* total and per address (AdmitSession, its release closure, apply).
THEOREM CountersExact == PoliciesSpec => []CountsExact
  BY PoliciesInvariant, PTL DEF PoliciesInv

\* No unlimited splice outlives the policy that forbids it, and no session the
\* disabling of its user, unless it is being closed (BeginUnboundedSplice,
\* AdmitSession, apply).
THEOREM ForbiddenAreClosed == PoliciesSpec => []ForbiddenClosed
  BY PoliciesInvariant, PTL DEF PoliciesInv, ForbiddenClosed

-----------------------------------------------------------------------------
(* The limits. *)

\* Only an admission gives a user more sessions while owners stay the same.
LEMMA OnlyAdmissionAdds ==
    ASSUME PoliciesInv, PoliciesNext, byEmail' = byEmail, NEW u, ~ (Of(u)' \subseteq Of(u))
    PROVE  \E s \in Sessions, e \in Identities, i \in IPs : AdmitSession(s, e, i)
  <1>1. ASSUME NEW s \in Sessions, Release(s) PROVE FALSE
    BY ZenonT(60), <1>1, ReleaseOf DEF PoliciesInv
  <1>2. ASSUME NEW s \in Sessions,
               Finish(s) \/ Terminate(s) \/ BeginUnboundedSplice(s) \/ EndSplice(s)
        PROVE  FALSE
    <2>1. UNCHANGED <<byEmail, active, who>>
      BY <1>2 DEF Finish, Terminate, BeginUnboundedSplice, EndSplice
    <2> QED
      BY <2>1, SameOf
  <1>3. ASSUME NEW list \in Lists, Apply(list) PROVE FALSE
    <2>1. UNCHANGED <<byEmail, active, who>>
      BY <1>3 DEF Apply
    <2> QED
      BY <2>1, SameOf
  <1>4. ASSUME NEW list \in Lists, Restart(list) PROVE FALSE
    BY <1>4 DEF Restart, Of
  <1> QED
    BY <1>1, <1>2, <1>3, <1>4 DEF PoliciesNext

\* An admission leaves the user within the connection limit.
LEMMA AdmitWithinLimit ==
    ASSUME PoliciesInv, NEW s \in Sessions, NEW e \in Identities, NEW i \in IPs, AdmitSession(s, e, i),
           NEW u \in Users, u = User(e)
    PROVE  /\ ~ byUser[u].disabled
           /\ byUser[u].connections > 0 => Cardinality(Of(u)') <= byUser[u].connections
  <1>1. Cardinality(Of(u)) \in Nat /\ IsFiniteSet(Of(u))
    BY ZenonT(60), OfFinite DEF PoliciesInv, PoliciesTypeOK
  <1>2. Cardinality(Of(u)') = Cardinality(Of(u)) + 1
    <2>1. Of(u)' = Of(u) \cup {s} /\ s \notin Of(u)
      BY AdmitOf DEF PoliciesInv
    <2> QED
      BY ZenonT(60), <1>1, <2>1, FS_AddElement
  <1>3. connections[u] = Cardinality(Of(u))
    BY DEF PoliciesInv, CountsExact
  <1>4. byUser[u].connections \in Nat
    <2>1. byUser[u] \in Policy
      BY PoliciesAssumption, Zenon DEF PoliciesInv, PoliciesTypeOK
    <2> QED
      BY <2>1 DEF Policy
  <1> QED
    BY <1>1, <1>2, <1>3, <1>4 DEF AdmitSession, Admissible

\* The sessions open for a user never grow beyond the connection limit in
\* force, and never at all for a disabled user (AdmitSession).
LEMMA ConnectionsAreKept ==
    ASSUME PoliciesInv, PoliciesNext, NEW u \in Users
    PROVE  ConnectionsKept(u)
  <1> SUFFICES ASSUME byEmail' = byEmail, Cardinality(Of(u)') > Cardinality(Of(u))
               PROVE  /\ ~ byUser[u].disabled
                      /\ byUser[u].connections > 0
                           => Cardinality(Of(u)') <= byUser[u].connections
    BY DEF ConnectionsKept
  <1>1. ~ (Of(u)' \subseteq Of(u))
    <2>1. IsFiniteSet(Of(u)) /\ Cardinality(Of(u)) \in Nat
      BY ZenonT(60), OfFinite DEF PoliciesInv, PoliciesTypeOK
    <2>2. ASSUME Of(u)' \subseteq Of(u) PROVE FALSE
      <3>1. IsFiniteSet(Of(u)') /\ Cardinality(Of(u)') <= Cardinality(Of(u))
        BY <2>1, <2>2, FS_Subset
      <3>2. Cardinality(Of(u)') \in Nat
        BY <3>1, FS_CardinalityType
      <3> QED
        BY <2>1, <3>1, <3>2
    <2> QED
      BY <2>2
  <1>2. PICK s \in Sessions, e \in Identities, i \in IPs : AdmitSession(s, e, i)
    BY <1>1, OnlyAdmissionAdds
  <1>3. u = User(e)
    BY ZenonT(60), <1>1, <1>2, AdmitOf DEF PoliciesInv
  <1> QED
    BY <1>2, <1>3, AdmitWithinLimit

\* The addresses with a counter are the addresses of the open sessions.
LEMMA AddressesAreSources ==
    ASSUME PoliciesInv, NEW u \in Users
    PROVE  Addresses(u) = Sources(u)
  <1>1. ASSUME NEW i \in IPs PROVE ips[u][i] > 0 <=> From(u, i) # {}
    <2>1. IsFiniteSet(From(u, i)) /\ Cardinality(From(u, i)) \in Nat
      BY OfFinite DEF PoliciesInv, PoliciesTypeOK
    <2>2. ips[u][i] = Cardinality(From(u, i))
      BY DEF PoliciesInv, CountsExact
    <2> QED
      BY <2>1, <2>2, FS_EmptySet
  <1>2. \A s \in Of(u) : who[s].ip \in IPs
    BY DEF PoliciesInv, PoliciesTypeOK, Of
  <1> QED
    BY <1>1, <1>2 DEF Addresses, Sources, From

\* No user's open sessions start using an address beyond the address limit in
\* force (AdmitSession).
LEMMA AddressesAreKept ==
    ASSUME PoliciesInv, PoliciesNext, NEW u \in Users
    PROVE  AddressesKept(u)
  <1> SUFFICES ASSUME byEmail' = byEmail,
                      ~ (Sources(u)' \subseteq Sources(u)), byUser[u].ips > 0
               PROVE  Cardinality(Sources(u)') <= byUser[u].ips
    BY DEF AddressesKept
  <1>1. PICK s \in Sessions, e \in Identities, i \in IPs : AdmitSession(s, e, i)
    <2>1. CASE ~ (Of(u)' \subseteq Of(u))
      BY <2>1, OnlyAdmissionAdds
    <2>2. CASE Of(u)' \subseteq Of(u)
      <3>1. PICK t \in Of(u)' : who'[t].ip \notin Sources(u)
        BY DEF Sources
      <3>2. t \in Of(u) /\ who'[t] # who[t]
        BY <2>2, <3>1 DEF Sources
      <3>3. who' # who
        BY <3>2
      <3> QED
        BY ZenonT(60), <3>3 DEF PoliciesNext, Release, Finish, Terminate, BeginUnboundedSplice, EndSplice,
                    Apply, Restart
    <2> QED
      BY <2>1, <2>2
  <1> DEFINE new == [email |-> e, ip |-> i]
  <1>a. /\ s \notin active /\ who' = [who EXCEPT ![s] = new]
        /\ active \subseteq Sessions /\ DOMAIN who = Sessions
    BY <1>1, Zenon DEF AdmitSession, PoliciesInv, PoliciesTypeOK
  <1>2. \A t \in active : t # s /\ who'[t] = who[t]
    BY <1>a, Zenon
  <1>3. who'[s].ip = i
    BY <1>a
  <1>4. Of(u)' = (IF u = User(e) THEN Of(u) \cup {s} ELSE Of(u)) /\ Of(u) \subseteq active
    <2>1. Of(u) \subseteq active
      BY DEF Of
    <2>2. QED
      BY <1>1, <2>1, AdmitOf, Zenon DEF PoliciesInv
  <1>5. u = User(e) /\ Sources(u)' = Sources(u) \cup {i} /\ i \notin Sources(u)
    <2>1. \A t \in Of(u) : who'[t] = who[t]
      BY <1>2, <1>4, Zenon
    <2>2. Sources(u)' = {who'[t].ip : t \in Of(u)'}
      BY Zenon DEF Sources
    <2>3. {who'[t].ip : t \in Of(u)} = Sources(u)
      BY <2>1, Zenon DEF Sources
    <2>4. u = User(e) /\ Of(u)' = Of(u) \cup {s}
      BY <1>4, <2>2, <2>3, Zenon
    <2>5. Sources(u)' = Sources(u) \cup {i}
      BY <1>3, <2>2, <2>3, <2>4
    <2>6. QED
      BY <2>4, <2>5, Zenon
  <1>6. ips[u][i] = 0
    BY <1>5, AddressesAreSources DEF Addresses, PoliciesInv, PoliciesTypeOK
  <1>7. Cardinality(Sources(u)) < byUser[u].ips
    BY <1>1, <1>5, <1>6, AddressesAreSources DEF AdmitSession, Admissible
  <1>8. IsFiniteSet(Sources(u))
    <2>1. Addresses(u) \in SUBSET IPs
      BY DEF Addresses
    <2> QED
      BY <2>1, AddressesAreSources, FS_Subset, PoliciesAssumption
  <1>9. Cardinality(Sources(u)) \in Nat
        /\ Cardinality(Sources(u) \cup {i}) = Cardinality(Sources(u)) + 1
    BY <1>5, <1>8, FS_AddElement, FS_CardinalityType
  <1>10. byUser[u].ips \in Nat
    BY PoliciesAssumption DEF PoliciesInv, PoliciesTypeOK, Policy
  <1> QED
    BY <1>5, <1>7, <1>9, <1>10

\* Admission keeps the connection limit and the address limit in force of every
\* user (AdmitSession).
THEOREM AdmissionLimited == PoliciesSpec => LimitsInForce
  <1>1. PoliciesInv /\ [PoliciesNext]_policiesVars => [\A u \in Users : ConnectionsKept(u) /\ AddressesKept(u)]_policiesVars
    BY ConnectionsAreKept, AddressesAreKept
  <1> QED
    BY <1>1, PoliciesInvariant, PTL DEF PoliciesSpec, LimitsInForce

=============================================================================
