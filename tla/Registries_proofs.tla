-------------------------- MODULE Registries_proofs --------------------------
(***************************************************************************)
(* Proofs about the registries and about what depends on no state but its  *)
(* input: the tunnels, the model registry, the private routes, the         *)
(* tolerance of the webhook and the compliance scripts, for any services,  *)
(* ports, replacements, queries, octets, delays, recorders and seconds.    *)
(***************************************************************************)
EXTENDS MCRegistries, Webhooks, Texts_proofs, OAuth_proofs, SequenceTheorems, FiniteSetTheorems,
        WellFoundedInduction, TLAPS

-----------------------------------------------------------------------------
(* The tunnels.                                                             *)

\* A set of places that has one has a first one, and Min is it.
LEMMA FirstPlace ==
  ASSUME NEW S, S \subseteq Nat, S # {}
  PROVE  Min(S) \in S /\ \A k \in S : Min(S) <= k
<1>1. \E m \in S : \A k \in S : ~(<<k, m>> \in OpToRel(<, Nat))
  BY NatLessThanWellFounded, WFMin
<1>2. PICK m \in S : \A k \in S : ~(<<k, m>> \in OpToRel(<, Nat))
  BY <1>1
<1>3. \A k \in S : m <= k
  <2> TAKE k \in S
  <2>1. k \in Nat /\ m \in Nat
    OBVIOUS
  <2>2. ~(k < m)
    BY <1>2, <2>1 DEF OpToRel
  <2>3. QED BY <2>1, <2>2
<1>4. QED BY <1>3 DEF Min

LEMMA FirstIsOne ==
  ASSUME NEW S, S \subseteq Nat, NEW m \in S, \A k \in S : m <= k
  PROVE  Min(S) = m
<1>1. Min(S) \in S /\ Min(S) <= m
  BY FirstPlace
<1>2. m <= Min(S) /\ m \in Nat /\ Min(S) \in Nat
  BY <1>1
<1>3. QED BY <1>1, <1>2

-----------------------------------------------------------------------------
Handed == [tunnel : TunnelRecords, service : Services, at : Nat]

UniqueIds == \A i, j \in DOMAIN tunnels : tunnels[i].id = tunnels[j].id => i = j

\* What was handed out went by the id of its service and its millisecond, no
\* two tunnels of the Map have one id, and what was handed out stands there
\* until its id is given again.
TunnelsInv ==
  /\ millis \in 0 .. EndOfTunnels
  /\ tunnels \in Seq(TunnelRecords)
  /\ UniqueIds
  /\ handed \in Seq(Handed)
  /\ \A i \in DOMAIN handed : /\ handed[i].at \in 0 .. millis
                              /\ handed[i].tunnel.id = Id(handed[i].service, handed[i].at)
  /\ HandedIsRegistered

\* Two tunnels are kept for one another when they differ in nothing but status.
LEMMA KeptFields ==
  ASSUME NEW t \in TunnelRecords, NEW u \in TunnelRecords
  PROVE  [u EXCEPT !.status = t.status] = t <=>
           /\ u.id = t.id /\ u.provider = t.provider /\ u.label = t.label
           /\ u.port = t.port /\ u.protocol = t.protocol
BY DEF TunnelRecords

\* t stands at place p of seq, which is that of its id in the Map or a new last one.
PutAt(seq, t, p) ==
  /\ seq \in Seq(TunnelRecords)
  /\ p \in DOMAIN seq /\ seq[p] = t
  /\ DOMAIN tunnels \subseteq DOMAIN seq
  /\ p \in DOMAIN tunnels => tunnels[p].id = t.id
  /\ p \notin DOMAIN tunnels => \A i \in DOMAIN tunnels : i < p
  /\ \A i \in DOMAIN seq \ {p} : /\ i \in DOMAIN tunnels /\ seq[i] = tunnels[i]
                                 /\ tunnels[i].id # t.id

\* Map.set puts a tunnel at one place and leaves every other as it is.
LEMMA SetPuts ==
  ASSUME TunnelsInv, NEW t \in TunnelRecords
  PROVE  \E p : PutAt(Set(t), t, p)
<1>1. tunnels \in Seq(TunnelRecords) /\ UniqueIds
  BY DEF TunnelsInv
<1>2. DOMAIN tunnels = 1 .. Len(tunnels) /\ Len(tunnels) \in Nat
  BY <1>1
<1>3. CASE Where(t.id) = {}
  <2> DEFINE new == Append(tunnels, t)
             p == Len(tunnels) + 1
  <2>1. Set(t) = new
    BY <1>3 DEF Set
  <2>2. /\ new \in Seq(TunnelRecords) /\ Len(new) = p
        /\ \A i \in 1 .. Len(tunnels) : new[i] = tunnels[i]
        /\ new[p] = t
    BY <1>1, AppendProperties
  <2>3. DOMAIN new = 1 .. p
    BY <2>2
  <2>4. \A i \in DOMAIN tunnels : tunnels[i].id # t.id
    BY <1>3 DEF Where
  <2> HIDE DEF new
  <2>5. PutAt(new, t, p)
    BY <1>2, <2>2, <2>3, <2>4 DEF PutAt
  <2>6. QED BY <2>1, <2>5
<1>4. CASE Where(t.id) # {}
  <2> DEFINE p == CHOOSE i \in Where(t.id) : TRUE
             new == [tunnels EXCEPT ![p] = t]
  <2>1. p \in Where(t.id)
    BY <1>4
  <2>2. Set(t) = new
    BY <1>4 DEF Set
  <2>3. p \in DOMAIN tunnels /\ tunnels[p].id = t.id
    BY <2>1 DEF Where
  <2> HIDE DEF p
  <2>4. /\ new \in Seq(TunnelRecords) /\ DOMAIN new = DOMAIN tunnels
        /\ new[p] = t /\ \A i \in DOMAIN tunnels \ {p} : new[i] = tunnels[i]
    BY <1>1, <2>3
  <2>5. \A i \in DOMAIN tunnels \ {p} : tunnels[i].id # t.id
    BY <1>1, <2>3 DEF UniqueIds
  <2> HIDE DEF new
  <2>6. PutAt(new, t, p)
    BY <2>3, <2>4, <2>5 DEF PutAt
  <2>7. QED BY <2>2, <2>6
<1>5. QED BY <1>3, <1>4

\* so the ids stay unique,
LEMMA PutKeepsIds ==
  ASSUME TunnelsInv, NEW t \in TunnelRecords, NEW p, PutAt(tunnels', t, p)
  PROVE  tunnels' \in Seq(TunnelRecords) /\ UniqueIds'
<1>1. UniqueIds
  BY DEF TunnelsInv
<1>2. SUFFICES ASSUME NEW i \in DOMAIN tunnels', NEW j \in DOMAIN tunnels',
                      tunnels'[i].id = tunnels'[j].id, i # j
               PROVE  FALSE
  BY DEF UniqueIds, PutAt
<1>3. CASE i = p \/ j = p
  BY <1>2, <1>3 DEF PutAt
<1>4. CASE i # p /\ j # p
  BY <1>1, <1>2, <1>4 DEF PutAt, UniqueIds
<1>5. QED BY <1>3, <1>4

\* and every tunnel of another id is kept.
LEMMA PutKeepsOthers ==
  ASSUME TunnelsInv, NEW t \in TunnelRecords, NEW p, PutAt(tunnels', t, p),
         NEW u \in TunnelRecords, Kept(u, tunnels), u.id # t.id
  PROVE  Kept(u, tunnels')
<1>1. tunnels \in Seq(TunnelRecords)
  BY DEF TunnelsInv
<1>2. PICK i \in DOMAIN tunnels : [tunnels[i] EXCEPT !.status = u.status] = u
  BY Zenon DEF Kept, Range
<1>3. tunnels[i] \in TunnelRecords
  BY <1>1
<1>4. tunnels[i].id = u.id
  BY <1>2, <1>3, KeptFields
<1>5. i # p
  BY <1>4 DEF PutAt
<1>6. i \in DOMAIN tunnels' /\ tunnels'[i] = tunnels[i]
  BY <1>5 DEF PutAt
<1>7. QED BY <1>2, <1>6, Zenon DEF Kept, Range

\* What Tunnel makes of fields of their types.
LEMMA TunnelTyped ==
  ASSUME NEW name \in TunnelNames, NEW at \in Never .. EndOfTunnels,
         NEW provider \in {"cloudflare", "ngrok"}, NEW status \in Statuses,
         NEW label \in HostLabels \cup {NoLabel}, NEW port \in Nat,
         NEW protocol \in TunnelProtocols
  PROVE  /\ Tunnel(Id(name, at), provider, status, label, port, protocol) \in TunnelRecords
         /\ Tunnel(Id(name, at), provider, status, label, port, protocol).id = Id(name, at)
         /\ Id(name, at).name = name /\ Id(name, at).at = at
<1>1. Id(name, at) \in [name : TunnelNames, at : Never .. EndOfTunnels]
  BY DEF Id
<1>2. QED BY <1>1 DEF Id, Tunnel, TunnelRecords

LEMMA TunnelsInvInit == TunnelsInit => TunnelsInv
<1> SUFFICES ASSUME TunnelsInit PROVE TunnelsInv
  OBVIOUS
<1>1. millis \in 0 .. EndOfTunnels /\ handed \in Seq(Handed) /\ DOMAIN handed = {}
  BY TunnelsAssumption DEF TunnelsInit
<1>2. HandedIsRegistered
  BY <1>1 DEF HandedIsRegistered
<1>3. /\ DOMAIN DefaultTunnels = 1 .. 3
      /\ DefaultTunnels[1] = Tunnel(Id("gateway-dev", Never), "cloudflare", "inactive", "dev-gateway", 4000, "https")
      /\ DefaultTunnels[2] = Tunnel(Id("beacon-dev", Never), "cloudflare", "inactive", "dev-beacon", 5000, "https")
      /\ DefaultTunnels[3] = Tunnel(Id("ssh-tunnel", Never), "cloudflare", "inactive", NoLabel, 22, "ssh")
      /\ Len(DefaultTunnels) = 3
  BY DEF DefaultTunnels
<1>4. /\ DefaultTunnels[1] \in TunnelRecords
      /\ DefaultTunnels[2] \in TunnelRecords
      /\ DefaultTunnels[3] \in TunnelRecords
  <2>1. /\ Never \in Never .. EndOfTunnels /\ "inactive" \in Statuses
        /\ \A protocol \in {"https", "ssh"} : protocol \in TunnelProtocols
        /\ 4000 \in Nat /\ 5000 \in Nat /\ 22 \in Nat
    BY TunnelsAssumption DEF Never, Statuses, TunnelProtocols
  <2>2. "gateway-dev" \in TunnelNames /\ "beacon-dev" \in TunnelNames /\ "ssh-tunnel" \in TunnelNames
    BY DEF TunnelNames
  <2> DEFINE Ids == [name : TunnelNames, at : Never .. EndOfTunnels]
             Urls == HostLabels \cup {NoLabel}
  <2>l. "dev-gateway" \in Urls /\ "dev-beacon" \in Urls /\ NoLabel \in Urls
    BY TunnelsAssumption
  <2>3. /\ Id("gateway-dev", Never) \in Ids
        /\ Id("beacon-dev", Never) \in Ids
        /\ Id("ssh-tunnel", Never) \in Ids
    BY <2>1, <2>2 DEF Id
  <2>4. \A id \in Ids, label \in Urls, port \in Nat, protocol \in {"https", "ssh"} :
          Tunnel(id, "cloudflare", "inactive", label, port, protocol) \in TunnelRecords
    BY <2>1 DEF Tunnel, TunnelRecords
  <2>5. "https" \in {"https", "ssh"} /\ "ssh" \in {"https", "ssh"}
    OBVIOUS
  <2> HIDE DEF Ids, Urls
  <2>6. Tunnel(Id("gateway-dev", Never), "cloudflare", "inactive", "dev-gateway", 4000, "https")
          \in TunnelRecords
    BY <2>1, <2>3, <2>4, <2>5, <2>l
  <2>7. Tunnel(Id("beacon-dev", Never), "cloudflare", "inactive", "dev-beacon", 5000, "https")
          \in TunnelRecords
    BY <2>1, <2>3, <2>4, <2>5, <2>l
  <2>8. Tunnel(Id("ssh-tunnel", Never), "cloudflare", "inactive", NoLabel, 22, "ssh")
          \in TunnelRecords
    BY <2>1, <2>3, <2>4, <2>5, <2>l
  <2>9. QED BY <1>3, <2>6, <2>7, <2>8
<1>5. DefaultTunnels \in Seq(TunnelRecords)
  BY <1>4 DEF DefaultTunnels
<1>6. /\ DefaultTunnels[1].id # DefaultTunnels[2].id
      /\ DefaultTunnels[1].id # DefaultTunnels[3].id
      /\ DefaultTunnels[2].id # DefaultTunnels[3].id
  BY <1>3 DEF Tunnel, Id
<1>7. \A i, j \in 1 .. 3 : DefaultTunnels[i].id = DefaultTunnels[j].id => i = j
  BY <1>6
<1>8. UniqueIds
  BY <1>3, <1>7 DEF UniqueIds, TunnelsInit
<1>9. QED BY <1>1, <1>2, <1>5, <1>8 DEF TunnelsInv, TunnelsInit

\* The history grows at its end and nothing that was handed out is lost from it.
LEMMA TunnelsInvNext == TunnelsInv /\ [TunnelsNext]_tunnelVars => TunnelsInv'
<1> SUFFICES ASSUME TunnelsInv, [TunnelsNext]_tunnelVars PROVE TunnelsInv'
  OBVIOUS
<1>1. /\ millis \in 0 .. EndOfTunnels /\ tunnels \in Seq(TunnelRecords)
      /\ handed \in Seq(Handed) /\ UniqueIds /\ HandedIsRegistered
      /\ DOMAIN handed = 1 .. Len(handed) /\ Len(handed) \in Nat
  BY DEF TunnelsInv
<1>2. \A i \in DOMAIN handed : /\ handed[i].at \in 0 .. millis
                               /\ handed[i].tunnel.id = Id(handed[i].service, handed[i].at)
  BY DEF TunnelsInv
<1>3. \A i \in DOMAIN handed : /\ handed[i] \in Handed /\ handed[i].tunnel \in TunnelRecords
                               /\ handed[i].service \in Services /\ handed[i].at \in Nat
  <2>1. \A i \in DOMAIN handed : handed[i] \in Handed
    BY <1>1
  <2>2. \A g \in Handed : g.tunnel \in TunnelRecords /\ g.service \in Services /\ g.at \in Nat
    BY DEF Handed
  <2>3. QED BY <2>1, <2>2, Zenon
<1>4. EndOfTunnels \in Nat
  BY TunnelsAssumption
<1>5. ASSUME NEW t \in Replacements, RegisterTunnel(t)
      PROVE  TunnelsInv'
  <2>1. t \in TunnelRecords /\ t.id.at = -1
    BY TunnelsAssumption DEF Never
  <2>2. PICK p : PutAt(tunnels', t, p)
    BY <1>5, <2>1, SetPuts DEF RegisterTunnel
  <2>3. tunnels' \in Seq(TunnelRecords) /\ UniqueIds'
    BY <2>1, <2>2, PutKeepsIds
  <2>4. ASSUME NEW i \in DOMAIN handed, Registered(handed[i].tunnel)
        PROVE  Kept(handed[i].tunnel, tunnels')
    <3>1. handed[i].tunnel.id # t.id
      <4>1. handed[i].tunnel.id.at = handed[i].at
        <5>1. \A name, at : Id(name, at).at = at
          BY DEF Id
        <5>2. QED BY <1>2, <5>1
      <4>2. handed[i].at \in Nat
        BY <1>3
      <4>3. QED BY <2>1, <4>1, <4>2
    <3>2. QED BY <1>3, <2>1, <2>2, <2>4, <3>1, PutKeepsOthers DEF Registered
  <2>5. millis' = millis /\ handed' = handed
    BY <1>5 DEF RegisterTunnel
  <2>6. HandedIsRegistered'
    BY <1>1, <2>4, <2>5 DEF HandedIsRegistered, Registered
  <2>7. QED BY <1>1, <1>2, <2>3, <2>5, <2>6 DEF TunnelsInv
<1>6. ASSUME NEW id, NEW status \in NewStatuses, UpdateTunnelStatus(id, status)
      PROVE  TunnelsInv'
  <2>1. PICK k \in Where(id) : tunnels' = Set([tunnels[k] EXCEPT !.status = status])
    BY <1>6 DEF UpdateTunnelStatus
  <2> DEFINE t == [tunnels[k] EXCEPT !.status = status]
  <2>2. k \in DOMAIN tunnels /\ tunnels[k] \in TunnelRecords
    BY <1>1 DEF Where
  <2>3. \A u \in TunnelRecords, s \in Statuses :
          /\ [u EXCEPT !.status = s] \in TunnelRecords
          /\ [u EXCEPT !.status = s].id = u.id
          /\ \A v \in TunnelRecords :
               [u EXCEPT !.status = v.status] = v =>
                 [[u EXCEPT !.status = s] EXCEPT !.status = v.status] = v
    BY DEF TunnelRecords
  <2>4. status \in Statuses
    BY TunnelsAssumption
  <2>5. t \in TunnelRecords /\ t.id = tunnels[k].id
    BY <2>2, <2>3, <2>4
  <2>6. PICK p : PutAt(tunnels', t, p)
    BY <2>1, <2>5, SetPuts
  <2>7. tunnels' \in Seq(TunnelRecords) /\ UniqueIds'
    BY <2>5, <2>6, PutKeepsIds
  <2>8. k = p /\ tunnels'[k] = t /\ k \in DOMAIN tunnels'
    BY <2>2, <2>5, <2>6 DEF PutAt
  <2>9. ASSUME NEW i \in DOMAIN handed, Registered(handed[i].tunnel)
        PROVE  Kept(handed[i].tunnel, tunnels')
    <3> DEFINE v == handed[i].tunnel
    <3>1. v \in TunnelRecords
      BY <1>3
    <3> HIDE DEF v, t
    <3>2. CASE v.id # t.id
      BY <2>5, <2>6, <2>9, <3>1, <3>2, PutKeepsOthers DEF Registered, v
    <3>3. CASE v.id = t.id
      <4>1. PICK j \in DOMAIN tunnels : [tunnels[j] EXCEPT !.status = v.status] = v
        BY <2>9, Zenon DEF Registered, Kept, Range, v
      <4>2. tunnels[j].id = v.id
        BY <1>1, <3>1, <4>1, KeptFields
      <4>3. j = k
        BY <1>1, <2>2, <2>5, <3>3, <4>2 DEF UniqueIds
      <4>4. [t EXCEPT !.status = v.status] = v
        BY <2>2, <2>3, <2>4, <3>1, <4>1, <4>3 DEF t
      <4>5. QED BY <2>8, <4>4, Zenon DEF Kept, Range, v
    <3>4. QED BY <3>2, <3>3
  <2>10. millis' = millis /\ handed' = handed
    BY <1>6 DEF UpdateTunnelStatus
  <2>11. HandedIsRegistered'
    BY <1>1, <2>9, <2>10 DEF HandedIsRegistered, Registered
  <2>12. QED BY <1>1, <1>2, <2>7, <2>10, <2>11 DEF TunnelsInv
<1>7. ASSUME NEW service \in Services, NEW subdomain \in Subdomains \cup {NoLabel},
             NEW provider \in Providers, NEW port \in Ports, NEW protocol \in Protocols,
             ExposeService(service, subdomain, provider, port, protocol)
      PROVE  TunnelsInv'
  <2> DEFINE label == IF subdomain = NoLabel THEN service ELSE subdomain
             t == Tunnel(Id(service, millis), provider, "pending", label, port, protocol)
             h == [tunnel |-> t, service |-> service, at |-> millis]
  <2>1. /\ service \in TunnelNames /\ millis \in Never .. EndOfTunnels /\ millis \in Nat
        /\ provider \in {"cloudflare", "ngrok"} /\ "pending" \in Statuses /\ port \in Nat
        /\ protocol \in TunnelProtocols
    BY <1>1, TunnelsAssumption DEF Never, Statuses, TunnelNames
  <2>2. label \in HostLabels \cup {NoLabel}
    BY TunnelsAssumption
  <2> HIDE DEF label
  <2>3. /\ t \in TunnelRecords /\ t.id = Id(service, millis)
    BY <2>1, <2>2, TunnelTyped
  <2>4. tunnels' = Set(t) /\ handed' = Append(handed, h) /\ millis' = millis
    BY <1>7 DEF ExposeService, ExposureId, label
  <2> HIDE DEF t
  <2>5. PICK p : PutAt(tunnels', t, p)
    BY <2>3, <2>4, SetPuts
  <2>6. tunnels' \in Seq(TunnelRecords) /\ UniqueIds'
    BY <2>3, <2>5, PutKeepsIds
  <2>7. /\ h \in Handed /\ h.tunnel = t /\ h.service = service /\ h.at = millis
    BY <2>1, <2>3 DEF Handed
  <2> HIDE DEF h
  <2> DEFINE n == Len(handed) + 1
  <2>8. /\ handed' \in Seq(Handed) /\ Len(handed') = n /\ DOMAIN handed' = 1 .. n
        /\ \A i \in DOMAIN handed : i \in 1 .. n /\ handed'[i] = handed[i]
        /\ handed'[n] = h /\ n \in Nat /\ n \notin DOMAIN handed
        /\ \A i \in 1 .. n : i = n \/ i \in DOMAIN handed
        /\ \A i \in DOMAIN handed : n \in i + 1 .. n /\ i + 1 .. Len(handed) \subseteq i + 1 .. n
    BY <1>1, <2>4, <2>7, AppendProperties
  <2> HIDE DEF n
  <2>9. ASSUME NEW i \in 1 .. n
        PROVE  /\ handed'[i].at \in 0 .. millis
               /\ handed'[i].tunnel.id = Id(handed'[i].service, handed'[i].at)
    <3>1. CASE i = n
      BY <2>1, <2>3, <2>7, <2>8, <3>1
    <3>2. CASE i \in DOMAIN handed
      BY <1>2, <2>8, <3>2
    <3>3. QED BY <2>8, <3>1, <3>2
  <2>10. ASSUME NEW i \in 1 .. n
         PROVE  \/ Kept(handed'[i].tunnel, tunnels')
                \/ \E j \in i + 1 .. n : /\ handed'[j].service = handed'[i].service
                                         /\ handed'[j].at = handed'[i].at
    <3>1. CASE i = n
      <4>1. [t EXCEPT !.status = t.status] = t
        BY <2>3, KeptFields
      <4>2. Kept(t, tunnels')
        BY <2>5, <4>1, Zenon DEF PutAt, Kept, Range
      <4>3. QED BY <2>7, <2>8, <3>1, <4>2
    <3>2. CASE i \in DOMAIN handed /\ Registered(handed[i].tunnel)
      <4>1. CASE handed[i].tunnel.id = t.id
        <5>1. Id(handed[i].service, handed[i].at) = Id(service, millis)
          BY <1>2, <2>3, <3>2, <4>1
        <5>2. handed[i].service = service /\ handed[i].at = millis
          BY <5>1 DEF Id
        <5>3. QED BY <2>7, <2>8, <3>2, <5>2
      <4>2. CASE handed[i].tunnel.id # t.id
        <5>1. handed[i].tunnel \in TunnelRecords /\ handed'[i] = handed[i]
          BY <1>3, <2>8, <3>2
        <5>2. Kept(handed[i].tunnel, tunnels')
          BY <2>3, <2>5, <3>2, <4>2, <5>1, PutKeepsOthers DEF Registered
        <5>3. QED BY <5>1, <5>2
      <4>3. QED BY <4>1, <4>2
    <3>3. CASE i \in DOMAIN handed /\ ~Registered(handed[i].tunnel)
      <4>1. PICK j \in i + 1 .. Len(handed) :
              handed[j].service = handed[i].service /\ handed[j].at = handed[i].at
        BY <1>1, <3>3 DEF HandedIsRegistered
      <4>2. j \in DOMAIN handed /\ j \in i + 1 .. n
        BY <1>1, <2>8, <3>3, <4>1
      <4>3. QED BY <2>8, <3>3, <4>1, <4>2
    <3>4. QED BY <2>8, <3>1, <3>2, <3>3
  <2>11. HandedIsRegistered'
    BY <2>8, <2>10 DEF HandedIsRegistered, Registered
  <2>12. QED BY <1>1, <2>4, <2>6, <2>8, <2>9, <2>11 DEF TunnelsInv
<1>8. CASE Millisecond
  <2>1. /\ millis' \in 0 .. EndOfTunnels /\ tunnels' = tunnels /\ handed' = handed
        /\ 0 .. millis \subseteq 0 .. millis'
    BY <1>1, <1>4, <1>8 DEF Millisecond
  <2>2. HandedIsRegistered' /\ UniqueIds'
    BY <1>1, <2>1 DEF HandedIsRegistered, Registered, UniqueIds, Kept
  <2>3. QED BY <1>1, <1>2, <2>1, <2>2 DEF TunnelsInv
<1>9. CASE UNCHANGED tunnelVars
  <2>1. millis' = millis /\ tunnels' = tunnels /\ handed' = handed
    BY <1>9 DEF tunnelVars
  <2>2. HandedIsRegistered' /\ UniqueIds'
    BY <1>1, <2>1 DEF HandedIsRegistered, Registered, UniqueIds, Kept
  <2>3. QED BY <1>1, <1>2, <2>1, <2>2 DEF TunnelsInv
<1>10. QED BY <1>5, <1>6, <1>7, <1>8, <1>9 DEF TunnelsNext

LEMMA TunnelsInvHolds == TunnelsSpec => []TunnelsInv
BY TunnelsInvInit, TunnelsInvNext, PTL DEF TunnelsSpec

\* Nothing but Map.set changes the Map, and it sets a tunnel.
LEMMA TunnelsAreSet ==
  ASSUME TunnelsInv, [TunnelsNext]_tunnelVars
  PROVE  tunnels' = tunnels \/ \E t \in TunnelRecords, p \in Nat : PutAt(tunnels', t, p)
<1>1. tunnels \in Seq(TunnelRecords) /\ millis \in 0 .. EndOfTunnels
  BY DEF TunnelsInv
<1>2. ASSUME NEW t \in TunnelRecords, tunnels' = Set(t)
      PROVE  \E u \in TunnelRecords, p \in Nat : PutAt(tunnels', u, p)
  <2>1. PICK p : PutAt(tunnels', t, p)
    BY <1>2, SetPuts
  <2>2. p \in Nat
    BY <2>1 DEF PutAt
  <2>3. QED BY <2>1, <2>2
<1>3. ASSUME NEW t \in Replacements, RegisterTunnel(t)
      PROVE  \E u \in TunnelRecords, p \in Nat : PutAt(tunnels', u, p)
  BY <1>2, <1>3, TunnelsAssumption DEF RegisterTunnel
<1>4. ASSUME NEW id, NEW status \in NewStatuses, UpdateTunnelStatus(id, status)
      PROVE  \E u \in TunnelRecords, p \in Nat : PutAt(tunnels', u, p)
  <2>1. PICK k \in Where(id) : tunnels' = Set([tunnels[k] EXCEPT !.status = status])
    BY <1>4 DEF UpdateTunnelStatus
  <2>2. tunnels[k] \in TunnelRecords /\ status \in Statuses
    BY <1>1, TunnelsAssumption DEF Where
  <2>3. \A u \in TunnelRecords : \A s \in Statuses : [u EXCEPT !.status = s] \in TunnelRecords
    BY DEF TunnelRecords
  <2>4. [tunnels[k] EXCEPT !.status = status] \in TunnelRecords
    BY <2>2, <2>3
  <2>5. QED BY <1>2, <2>1, <2>4
<1>5. ASSUME NEW service \in Services, NEW subdomain \in Subdomains \cup {NoLabel},
             NEW provider \in Providers, NEW port \in Ports, NEW protocol \in Protocols,
             ExposeService(service, subdomain, provider, port, protocol)
      PROVE  \E u \in TunnelRecords, p \in Nat : PutAt(tunnels', u, p)
  <2> DEFINE label == IF subdomain = NoLabel THEN service ELSE subdomain
             t == Tunnel(Id(service, millis), provider, "pending", label, port, protocol)
  <2>1. /\ service \in TunnelNames /\ millis \in Never .. EndOfTunnels
        /\ provider \in {"cloudflare", "ngrok"} /\ "pending" \in Statuses /\ port \in Nat
        /\ protocol \in TunnelProtocols
    BY <1>1, TunnelsAssumption DEF Never, Statuses, TunnelNames
  <2>2. label \in HostLabels \cup {NoLabel}
    BY TunnelsAssumption
  <2> HIDE DEF label
  <2>3. t \in TunnelRecords
    BY <2>1, <2>2, TunnelTyped
  <2>4. tunnels' = Set(t)
    BY <1>5 DEF ExposeService, ExposureId, label
  <2> HIDE DEF t
  <2>5. QED BY <1>2, <2>3, <2>4
<1>6. CASE Millisecond \/ UNCHANGED tunnelVars
  BY <1>6 DEF Millisecond, tunnelVars
<1>7. QED BY <1>3, <1>4, <1>5, <1>6 DEF TunnelsNext

\* The places that claim a label are places of the Map.
LEMMA HitsArePlaces ==
  ASSUME tunnels \in Seq(TunnelRecords), NEW label
  PROVE  /\ Hits(label) \subseteq Nat /\ Hits(label) \subseteq DOMAIN tunnels
         /\ \A i \in DOMAIN tunnels :
              i \in Hits(label) <=> tunnels[i].provider = "cloudflare" /\ tunnels[i].label = label
BY DEF Hits, Ingress

LEMMA HitsArePlacesNext ==
  ASSUME tunnels' \in Seq(TunnelRecords), NEW label
  PROVE  /\ Hits(label)' \subseteq Nat /\ Hits(label)' \subseteq DOMAIN tunnels'
         /\ \A i \in DOMAIN tunnels' :
              i \in Hits(label)' <=> tunnels'[i].provider = "cloudflare" /\ tunnels'[i].label = label
BY DEF Hits, Ingress

\* The first of them stays the first when a tunnel is set that does not take the
\* label over, for it keeps its place, and what is added is added behind it.
LEMMA FirstStaysFirst ==
  ASSUME TunnelsInv, TunnelsInv', NEW label \in Labels,
         NEW t \in TunnelRecords, NEW p \in Nat, PutAt(tunnels', t, p),
         Kept(Owner(label), tunnels'), ~TakesOver(label)
  PROVE  Route(label)' = Route(label)
<1> DEFINE m == Min(Hits(label))
<1>1. /\ tunnels \in Seq(TunnelRecords) /\ tunnels' \in Seq(TunnelRecords) /\ UniqueIds'
  BY DEF TunnelsInv
<1>2. /\ Hits(label) \subseteq Nat /\ Hits(label) \subseteq DOMAIN tunnels
      /\ \A i \in DOMAIN tunnels :
           i \in Hits(label) <=> tunnels[i].provider = "cloudflare" /\ tunnels[i].label = label
  BY <1>1, HitsArePlaces
<1>3. /\ Hits(label)' \subseteq Nat /\ Hits(label)' \subseteq DOMAIN tunnels'
      /\ \A i \in DOMAIN tunnels' :
           i \in Hits(label)' <=> tunnels'[i].provider = "cloudflare" /\ tunnels'[i].label = label
  BY <1>1, HitsArePlacesNext
<1>4. Hits(label) # {}
  BY DEF Labels, Hits, Ingress
<1>5. m \in Hits(label) /\ \A k \in Hits(label) : m <= k
  BY <1>2, <1>4, FirstPlace
<1> HIDE DEF m
<1>6. m \in DOMAIN tunnels /\ m \in DOMAIN tunnels' /\ m \in Nat
      /\ tunnels[m] \in TunnelRecords /\ tunnels'[m] \in TunnelRecords
  BY <1>1, <1>2, <1>5 DEF PutAt
<1>7. tunnels'[m].id = tunnels[m].id
  BY <1>6 DEF PutAt
<1>8. Owner(label) = tunnels[m]
  BY DEF Owner, m
<1>9. PICK k \in DOMAIN tunnels' : [tunnels'[k] EXCEPT !.status = tunnels[m].status] = tunnels[m]
  BY <1>8, Zenon DEF Kept, Range
<1>10. tunnels'[k] \in TunnelRecords
  BY <1>1
<1>11. /\ tunnels'[k].id = tunnels[m].id /\ tunnels'[k].provider = tunnels[m].provider
       /\ tunnels'[k].label = tunnels[m].label /\ tunnels'[k].port = tunnels[m].port
       /\ tunnels'[k].protocol = tunnels[m].protocol
  BY <1>6, <1>9, <1>10, KeptFields
<1>12. k = m
  BY <1>1, <1>6, <1>7, <1>11 DEF UniqueIds
<1>13. m \in Hits(label)'
  BY <1>2, <1>3, <1>5, <1>6, <1>11, <1>12
<1>14. ASSUME NEW i \in Hits(label)'
       PROVE  m <= i
  <2>1. i \in DOMAIN tunnels' /\ i \in Nat
        /\ tunnels'[i].provider = "cloudflare" /\ tunnels'[i].label = label
    BY <1>3
  <2>2. CASE i \in DOMAIN tunnels
    <3>1. tunnels'[i].id = tunnels[i].id
      BY <2>1, <2>2 DEF PutAt
    <3>2. tunnels[i] \in Range(tunnels) /\ tunnels'[i] \in Range(tunnels')
      BY <2>1, <2>2, Zenon DEF Range
    <3>3. tunnels[i].provider = "cloudflare" /\ tunnels[i].label = label
      BY <2>1, <3>1, <3>2, Zenon DEF TakesOver
    <3>4. QED BY <1>2, <1>5, <2>2, <3>3
  <2>3. CASE i \notin DOMAIN tunnels
    <3>1. i = p
      BY <2>1, <2>3 DEF PutAt
    <3>2. m < p
      BY <1>6, <2>3, <3>1 DEF PutAt
    <3>3. QED BY <1>6, <2>1, <3>1, <3>2
  <2>4. QED BY <2>2, <2>3
<1>15. Min(Hits(label)') = m
  BY <1>3, <1>13, <1>14, FirstIsOne
<1>16. Hits(label)' # {}
  BY <1>13
<1>17. Route(label) = <<tunnels[m].protocol, tunnels[m].port>>
  BY <1>4, <1>8 DEF Route
<1>18. Route(label)' = <<tunnels'[m].protocol, tunnels'[m].port>>
  BY <1>15, <1>16 DEF Route, Owner
<1>19. QED BY <1>11, <1>12, <1>17, <1>18

LEMMA RoutesStep ==
  ASSUME TunnelsInv, TunnelsInv', [TunnelsNext]_tunnelVars, NEW label \in Labels,
         Kept(Owner(label), tunnels'), ~TakesOver(label)
  PROVE  Route(label)' = Route(label)
<1>1. CASE tunnels' = tunnels
  BY <1>1 DEF Route, Hits, Owner, Ingress
<1>2. CASE \E t \in TunnelRecords, p \in Nat : PutAt(tunnels', t, p)
  BY <1>2, FirstStaysFirst
<1>3. QED BY <1>1, <1>2, TunnelsAreSet

\* Every variable of the registry has its type, and no two tunnels one id.
THEOREM TunnelsTypeCorrect == TunnelsSpec => []TunnelsTypeOK
<1>1. TunnelsInv => TunnelsTypeOK
  <2> SUFFICES ASSUME TunnelsInv PROVE TunnelsTypeOK
    OBVIOUS
  <2>1. \A i \in DOMAIN tunnels : tunnels[i] \in TunnelRecords
    BY DEF TunnelsInv
  <2>2. \A i \in DOMAIN handed : handed[i] \in Handed
    BY DEF TunnelsInv
  <2>3. \A g \in Handed : g.tunnel \in TunnelRecords
    BY DEF Handed
  <2>4. QED BY <2>1, <2>2, <2>3 DEF TunnelsInv, TunnelsTypeOK, UniqueIds
<1>2. QED BY <1>1, TunnelsInvHolds, PTL

\* A tunnel that was handed out is the one registered under its id, unless the
\* same service was exposed again within the same millisecond
\* (tunnels.ts:346-362).
THEOREM HandedStaysRegistered == TunnelsSpec => []HandedIsRegistered
<1>1. TunnelsInv => HandedIsRegistered
  BY DEF TunnelsInv
<1>2. QED BY <1>1, TunnelsInvHolds, PTL

\* Whatever is exposed, replaced or updated, a host name stays with the tunnel
\* that had it first for as long as that tunnel is kept and no other takes the
\* name over (tunnels.ts:238-240, 266-287).
THEOREM RoutesStayStable == TunnelsSpec => RoutesAreStable
<1>1. TunnelsInv /\ TunnelsInv' /\ [TunnelsNext]_tunnelVars =>
        [\A label \in Labels :
           /\ ~ConfigThrows /\ ~ConfigThrows'
           /\ Kept(Owner(label), tunnels') /\ ~TakesOver(label)
           => Route(label)' = Route(label)]_tunnelVars
  BY RoutesStep
<1>2. QED BY <1>1, TunnelsInvHolds, PTL DEF TunnelsSpec, RoutesAreStable

-----------------------------------------------------------------------------
(* The model registry.                                                      *)

\* Every model of the list is on Hugging Face.
LEMMA Curated ==
  ASSUME NEW m \in OSS_MODELS_REGISTRY
  PROVE  "huggingface" \in m.hosts
<1>1. \A id : /\ "huggingface" \in Model(id, HF).hosts
             /\ "huggingface" \in Model(id, HFOllama).hosts
             /\ "huggingface" \in Model(id, HFApi).hosts
  BY DEF Model, HF, HFOllama, HFApi
<1>2. m \in CuratedModels => "huggingface" \in m.hosts
  BY <1>1, Zenon DEF CuratedModels
<1>3. m \in ForkedModels => "huggingface" \in m.hosts
  BY <1>1, Zenon DEF ForkedModels
<1>4. QED BY <1>2, <1>3 DEF OSS_MODELS_REGISTRY

\* A query that waits asks an endpoint, and one that was answered has the text
\* the service gave.
ModelsInv ==
  /\ ModelsTypeOK
  /\ \A q \in Queries :
       /\ queries[q].phase = "waiting" => queries[q].endpoint \in Endpoints
       /\ queries[q].phase = "answered" => queries[q].said = "the text"

LEMMA ModelsInvInit == ModelsInit => ModelsInv
<1> SUFFICES ASSUME ModelsInit PROVE ModelsInv
  OBVIOUS
<1>1. queries \in [Queries -> {q \in QueryRecords :
        q.phase = "idle" /\ q.endpoint = NoEndpoint /\ q.said = "nothing"}]
  BY DEF ModelsInit
<1>2. /\ queries \in [Queries -> QueryRecords]
      /\ \A q \in Queries : queries[q].phase = "idle"
  BY <1>1
<1>3. models \subseteq OSS_MODELS_REGISTRY
  BY DEF ModelsInit
<1>4. defaultProvider \in {"huggingface", "ollama", "custom", "none"}
  BY DEF ModelsInit
<1>5. endpoints \in [Asked -> Endpoints \cup {NoEndpoint}]
  BY DEF ModelsInit
<1>6. urls \in 0 .. MaxUrls
  BY ModelsAssumption DEF ModelsInit
<1>7. QED BY <1>2, <1>3, <1>4, <1>5, <1>6 DEF ModelsInv, ModelsTypeOK

\* Where a model is deployed is an endpoint, whatever the default provider is.
LEMMA DeploymentExists ==
  ASSUME NEW m \in OSS_MODELS_REGISTRY
  PROVE  Deployment(m) \in Endpoints
<1>1. "huggingface" \in m.hosts
  BY Curated
<1>2. 0 \in 0 .. MaxUrls
  BY ModelsAssumption
<1>3. /\ [type |-> "ollama", url |-> 0] \in Endpoints
      /\ [type |-> "huggingface", url |-> 0] \in Endpoints
  BY <1>2 DEF Endpoints, EndpointTypes
<1>4. QED BY <1>1, <1>3, Zenon DEF Deployment

\* GetEndpoint finds an endpoint of a model of the Map, and of nothing else.
LEMMA EndpointOfKnown ==
  ASSUME ModelsTypeOK, NEW id
  PROVE  /\ GetEndpoint(id) \in Endpoints \cup {NoEndpoint}
         /\ Known(id) # {} <=> GetEndpoint(id) # NoEndpoint
<1>1. CASE Known(id) = {}
  BY <1>1 DEF GetEndpoint
<1>2. CASE Known(id) # {} /\ id \in Asked /\ endpoints[id] # NoEndpoint
  BY <1>2 DEF GetEndpoint, ModelsTypeOK
<1>3. CASE Known(id) # {} /\ ~(id \in Asked /\ endpoints[id] # NoEndpoint)
  <2>1. PICK m \in Known(id) : m = CHOOSE n \in Known(id) : TRUE
    BY <1>3
  <2>2. m \in OSS_MODELS_REGISTRY
    BY DEF Known, ModelsTypeOK
  <2>3. Deployment(m) \in Endpoints
    BY <2>2, DeploymentExists
  <2>4. GetEndpoint(id) = Deployment(m)
    BY <1>3, <2>1, Zenon DEF GetEndpoint
  <2>5. QED BY <1>3, <2>3, <2>4, ModelsAssumption
<1>4. QED BY <1>1, <1>2, <1>3

\* What a service of a kind says is looked for where it says it.
LEMMA SpokenIsLookedFor ==
  ASSUME NEW e \in Endpoints
  PROVE  Spoken(e.type) \subseteq LookedFor(e.type)
BY DEF Endpoints, EndpointTypes, Spoken, LookedFor

LEMMA ModelsInvNext == ModelsInv /\ [ModelsNext]_modelVars => ModelsInv'
<1> SUFFICES ASSUME ModelsInv, [ModelsNext]_modelVars PROVE ModelsInv'
  OBVIOUS
<1>t. /\ ModelsTypeOK
      /\ \A q \in Queries : queries[q] \in QueryRecords
  BY DEF ModelsInv, ModelsTypeOK
<1>1. ASSUME NEW id \in Asked, NEW type \in EndpointTypes, RegisterEndpoint(id, type)
      PROVE  ModelsInv'
  <2>1. urls + 1 \in 0 .. MaxUrls
    <3>1. urls \in 0 .. MaxUrls /\ urls < MaxUrls /\ MaxUrls \in Nat
      BY <1>1, <1>t, ModelsAssumption DEF RegisterEndpoint, ModelsTypeOK
    <3>2. QED BY <3>1
  <2>2. [type |-> type, url |-> urls + 1] \in Endpoints
    BY <2>1 DEF Endpoints
  <2>3. QED BY <1>1, <2>1, <2>2 DEF RegisterEndpoint, ModelsInv, ModelsTypeOK
<1>2. ASSUME NEW q \in Queries, StartQuery(q) PROVE ModelsInv'
  <2> DEFINE e == GetEndpoint(queries[q].id)
             ph == IF e = NoEndpoint THEN "threw" ELSE "waiting"
  <2>1. e \in Endpoints \cup {NoEndpoint}
    BY <1>t, EndpointOfKnown
  <2>2. /\ UNCHANGED <<models, defaultProvider, endpoints, urls>>
        /\ queries' = [queries EXCEPT ![q].endpoint = e, ![q].phase = ph]
    BY <1>2 DEF StartQuery
  <2>3. ph = "threw" \/ (ph = "waiting" /\ e \in Endpoints)
    BY <2>1
  <2> HIDE DEF e, ph
  <2>4. queries' \in [Queries -> QueryRecords]
    BY <2>1, <2>2, <2>3 DEF ModelsInv, ModelsTypeOK, QueryRecords
  <2>5. \A p \in Queries \ {q} : queries'[p] = queries[p]
    BY <2>2 DEF ModelsInv, ModelsTypeOK
  <2>6. queries'[q].phase = ph /\ queries'[q].endpoint = e
    BY <2>2, <1>t DEF ModelsInv, ModelsTypeOK, QueryRecords
  <2>7. QED BY <2>2, <2>3, <2>4, <2>5, <2>6 DEF ModelsInv, ModelsTypeOK
<1>3. ASSUME NEW q \in Queries, EndQuery(q) PROVE ModelsInv'
  <2>1. PICK shape \in Spoken(queries[q].endpoint.type) :
          queries' = [queries EXCEPT ![q].phase = "answered",
            ![q].said = IF shape \in LookedFor(ReadAs(q)) THEN "the text" ELSE "nothing"]
    BY <1>3 DEF EndQuery
  <2>2. /\ queries[q].phase = "waiting"
        /\ UNCHANGED <<models, defaultProvider, endpoints, urls>>
    BY <1>3 DEF EndQuery
  <2>3. shape \in LookedFor(ReadAs(q))
    BY <2>1, <2>2, SpokenIsLookedFor DEF ModelsInv, ReadAs
  <2>4. queries' = [queries EXCEPT ![q].phase = "answered", ![q].said = "the text"]
    BY <2>1, <2>3
  <2>5. queries' \in [Queries -> QueryRecords]
    BY <2>4, <1>t DEF ModelsInv, ModelsTypeOK, QueryRecords
  <2>6. \A p \in Queries \ {q} : queries'[p] = queries[p]
    BY <2>4 DEF ModelsInv, ModelsTypeOK
  <2>7. queries'[q].phase = "answered" /\ queries'[q].said = "the text"
    BY <2>4, <1>t DEF ModelsInv, ModelsTypeOK, QueryRecords
  <2>8. QED BY <2>2, <2>5, <2>6, <2>7 DEF ModelsInv, ModelsTypeOK
<1>4. ASSUME NEW q \in Queries, FailQuery(q) PROVE ModelsInv'
  <2>1. /\ queries' = [queries EXCEPT ![q].phase = "threw"]
        /\ UNCHANGED <<models, defaultProvider, endpoints, urls>>
    BY <1>4 DEF FailQuery
  <2>2. queries' \in [Queries -> QueryRecords]
    BY <2>1, <1>t DEF ModelsInv, ModelsTypeOK, QueryRecords
  <2>3. /\ \A p \in Queries \ {q} : queries'[p] = queries[p]
        /\ queries'[q].phase = "threw"
    BY <2>1, <1>t DEF ModelsInv, ModelsTypeOK, QueryRecords
  <2>4. QED BY <2>1, <2>2, <2>3 DEF ModelsInv, ModelsTypeOK
<1>5. CASE UNCHANGED modelVars
  BY <1>5 DEF modelVars, ModelsInv, ModelsTypeOK
<1>6. QED BY <1>1, <1>2, <1>3, <1>4, <1>5 DEF ModelsNext

LEMMA ModelsInvHolds == ModelsSpec => []ModelsInv
BY ModelsInvInit, ModelsInvNext, PTL DEF ModelsSpec

\* A query returns what the service it asked has said, whatever is registered
\* for the model meanwhile.
THEOREM AnswersAreReadAsAsked == ModelsSpec => []AnswerIsReadAsAsked
<1>1. ModelsInv => AnswerIsReadAsAsked
  BY DEF ModelsInv, AnswerIsReadAsAsked
<1>2. QED BY <1>1, ModelsInvHolds, PTL

\* Exactly the enabled models have an endpoint, for every choice of them and
\* every default provider.
THEOREM EnabledAreServable == ModelsSpec => []EnabledIsServable
<1>1. ModelsInv => EnabledIsServable
  BY EndpointOfKnown DEF ModelsInv, EnabledIsServable
<1>2. QED BY <1>1, ModelsInvHolds, PTL

\* Every variable of the model registry has its type.
THEOREM ModelsTypeCorrect == ModelsSpec => []ModelsTypeOK
<1>1. ModelsInv => ModelsTypeOK
  BY DEF ModelsInv
<1>2. QED BY <1>1, ModelsInvHolds, PTL

-----------------------------------------------------------------------------
(* The webhook's tolerance.                                                 *)

\* A whole second holds its milliseconds.
LEMMA FloorBounds ==
  ASSUME NEW ms \in Int
  PROVE  /\ Floor(ms) \in Int
         /\ OneSecond * Floor(ms) <= ms
         /\ ms < OneSecond * Floor(ms) + OneSecond
BY WebhooksAssumption DEF Floor

\* A delivery within the tolerance is not stale, though the two moments may be
\* rounded down by almost a second each.
LEMMA WithinTolerance ==
  ASSUME NEW s \in Int, NEW d \in Int,
         d <= Tolerance * OneSecond, -d <= Tolerance * OneSecond
  PROVE  ~Stale(Floor(s), s + d)
<1> DEFINE a == Floor(s)
           b == Floor(s + d)
<1>1. OneSecond \in Nat \ {0} /\ Tolerance \in Nat /\ s + d \in Int
  BY WebhooksAssumption
<1>2. /\ a \in Int /\ OneSecond * a <= s /\ s < OneSecond * a + OneSecond
      /\ b \in Int /\ OneSecond * b <= s + d /\ s + d < OneSecond * b + OneSecond
  BY <1>1, FloorBounds
<1> HIDE DEF a, b
<1>3. ASSUME b - a > Tolerance PROVE FALSE
  <2>1. b - a - Tolerance - 1 \in Nat
    BY <1>1, <1>2, <1>3
  <2>2. OneSecond * (b - a - Tolerance - 1) >= 0
    BY <1>1, <2>1
  <2>3. OneSecond * (b - a - Tolerance - 1)
          = OneSecond * b - OneSecond * a - Tolerance * OneSecond - OneSecond
    BY <1>1, <1>2
  <2>4. Tolerance * OneSecond \in Int /\ OneSecond * a \in Int /\ OneSecond * b \in Int
    BY <1>1, <1>2
  <2>5. QED BY <1>1, <1>2, <2>2, <2>3, <2>4
<1>4. ASSUME a - b > Tolerance PROVE FALSE
  <2>1. a - b - Tolerance - 1 \in Nat
    BY <1>1, <1>2, <1>4
  <2>2. OneSecond * (a - b - Tolerance - 1) >= 0
    BY <1>1, <2>1
  <2>3. OneSecond * (a - b - Tolerance - 1)
          = OneSecond * a - OneSecond * b - Tolerance * OneSecond - OneSecond
    BY <1>1, <1>2
  <2>4. Tolerance * OneSecond \in Int /\ OneSecond * a \in Int /\ OneSecond * b \in Int
    BY <1>1, <1>2
  <2>5. QED BY <1>1, <1>2, <2>2, <2>3, <2>4
<1>5. ~(b - a > Tolerance) /\ ~(a - b > Tolerance)
  BY <1>3, <1>4
<1>6. QED BY <1>5 DEF Stale, a, b

\* A delivery a whole second beyond the tolerance is stale.
LEMMA BeyondTolerance ==
  ASSUME NEW s \in Int, NEW d \in Int,
         \/ d >= (Tolerance + 1) * OneSecond
         \/ -d >= (Tolerance + 1) * OneSecond
  PROVE  Stale(Floor(s), s + d)
<1> DEFINE a == Floor(s)
           b == Floor(s + d)
<1>1. OneSecond \in Nat \ {0} /\ Tolerance \in Nat /\ s + d \in Int
  BY WebhooksAssumption
<1>2. /\ a \in Int /\ OneSecond * a <= s /\ s < OneSecond * a + OneSecond
      /\ b \in Int /\ OneSecond * b <= s + d /\ s + d < OneSecond * b + OneSecond
  BY <1>1, FloorBounds
<1>3. (Tolerance + 1) * OneSecond = Tolerance * OneSecond + OneSecond
  BY <1>1
<1> HIDE DEF a, b
<1>4. Tolerance * OneSecond \in Int /\ OneSecond * a \in Int /\ OneSecond * b \in Int
  BY <1>1, <1>2
<1>5. ASSUME d >= (Tolerance + 1) * OneSecond, ~(b - a > Tolerance) PROVE FALSE
  <2>1. Tolerance - (b - a) \in Nat
    BY <1>1, <1>2, <1>5
  <2>2. OneSecond * (Tolerance - (b - a)) >= 0
    BY <1>1, <2>1
  <2>3. OneSecond * (Tolerance - (b - a)) = Tolerance * OneSecond - OneSecond * b + OneSecond * a
    BY <1>1, <1>2
  <2>4. QED BY <1>1, <1>2, <1>3, <1>4, <1>5, <2>2, <2>3
<1>6. ASSUME -d >= (Tolerance + 1) * OneSecond, ~(a - b > Tolerance) PROVE FALSE
  <2>1. Tolerance - (a - b) \in Nat
    BY <1>1, <1>2, <1>6
  <2>2. OneSecond * (Tolerance - (a - b)) >= 0
    BY <1>1, <2>1
  <2>3. OneSecond * (Tolerance - (a - b)) = Tolerance * OneSecond - OneSecond * a + OneSecond * b
    BY <1>1, <1>2
  <2>4. QED BY <1>1, <1>2, <1>3, <1>4, <1>6, <2>2, <2>3
<1>7. b - a > Tolerance \/ a - b > Tolerance
  BY <1>5, <1>6, Zenon
<1>8. QED BY <1>7 DEF Stale, a, b

-----------------------------------------------------------------------------
\* What the last delivery is.
DeliveryInv ==
  delivery = NoDelivery \/
  \E env \in Env, header \in Headers, signing \in Signings, delay \in Delays, event \in Events :
    delivery = [env |-> env, header |-> header, delay |-> delay, event |-> event,
                reply |-> Reply(env, header, Floor(signing), signing + delay, event)]

LEMMA DeliveryInvHolds == WebhooksSpec => []DeliveryInv
<1>1. WebhooksInit => DeliveryInv
  BY DEF WebhooksInit, DeliveryInv
<1>2. DeliveryInv /\ [WebhooksNext]_delivery => DeliveryInv'
  BY DEF DeliveryInv, WebhooksNext, Deliver
<1>3. QED BY <1>1, <1>2, PTL DEF WebhooksSpec

LEMMA DeliveryInvSuffices == DeliveryInv => ToleranceIsInSeconds
<1> SUFFICES ASSUME DeliveryInv, delivery # NoDelivery,
                    delivery.env = {"STRIPE_SECRET_KEY", "STRIPE_WEBHOOK_SECRET"},
                    delivery.header = "signed"
             PROVE  LET late == IF delivery.delay < 0 THEN -delivery.delay ELSE delivery.delay
                    IN /\ late <= Tolerance * OneSecond =>
                            delivery.reply = IF delivery.event \in {"null", "known without object"}
                                             THEN 500 ELSE 200
                       /\ late >= (Tolerance + 1) * OneSecond => delivery.reply = 400
  BY DEF ToleranceIsInSeconds
<1>1. PICK env \in Env, header \in Headers, signing \in Signings, delay \in Delays, event \in Events :
        delivery = [env |-> env, header |-> header, delay |-> delay, event |-> event,
                    reply |-> Reply(env, header, Floor(signing), signing + delay, event)]
  BY DEF DeliveryInv
<1>2. /\ delivery.env = env /\ delivery.header = header
      /\ delivery.delay = delay /\ delivery.event = event
      /\ delivery.reply = Reply(env, header, Floor(signing), signing + delay, event)
  BY <1>1
<1>3. signing \in Int /\ delay \in Int /\ Tolerance * OneSecond \in Int
      /\ (Tolerance + 1) * OneSecond \in Int
  BY WebhooksAssumption
<1>4. delivery.reply = IF Stale(Floor(signing), signing + delay) THEN 400
                       ELSE IF event \in {"null", "known without object"} THEN 500 ELSE 200
  BY <1>2 DEF Reply, VerifyWebhookSignature
<1>5. ASSUME delay <= Tolerance * OneSecond, -delay <= Tolerance * OneSecond
      PROVE  ~Stale(Floor(signing), signing + delay)
  BY <1>3, <1>5, WithinTolerance
<1>6. ASSUME delay >= (Tolerance + 1) * OneSecond \/ -delay >= (Tolerance + 1) * OneSecond
      PROVE  Stale(Floor(signing), signing + delay)
  BY <1>3, <1>6, BeyondTolerance
<1> DEFINE late == IF delay < 0 THEN -delay ELSE delay
<1>7. ASSUME late <= Tolerance * OneSecond
      PROVE  delay <= Tolerance * OneSecond /\ -delay <= Tolerance * OneSecond
  BY <1>3, <1>7
<1>8. ASSUME late >= (Tolerance + 1) * OneSecond
      PROVE  delay >= (Tolerance + 1) * OneSecond \/ -delay >= (Tolerance + 1) * OneSecond
  BY <1>3, <1>8
<1>9. QED BY <1>2, <1>4, <1>5, <1>6, <1>7, <1>8

\* Two clocks read in whole seconds never refuse a delivery within the tolerance
\* and never take one a whole second beyond it, for every tolerance and every
\* moment of signing (stripe.ts:326-330).
THEOREM ToleranceKept == WebhooksSpec => []ToleranceIsInSeconds
<1>1. DeliveryInv => ToleranceIsInSeconds
  BY DeliveryInvSuffices
<1>2. QED BY <1>1, DeliveryInvHolds, PTL

-----------------------------------------------------------------------------
(* The private routes.                                                      *)

\* An octet as it is written: one digit, two without a leading zero, or three.
LEMMA DecimalDigits ==
  ASSUME NEW n \in 0 .. 255
  PROVE  \/ n < 10 /\ Decimal(n) = <<n>>
         \/ \E t \in 1 .. 9, u \in Digit : n = 10 * t + u /\ Decimal(n) = <<t, u>>
         \/ \E h \in 1 .. 2, t \in Digit, u \in Digit :
              n = 100 * h + 10 * t + u /\ Decimal(n) = <<h, t, u>>
<1>1. CASE n < 10
  BY <1>1 DEF Decimal
<1>2. CASE n >= 10 /\ n < 100
  <2>1. n \div 10 \in 1 .. 9 /\ n % 10 \in Digit /\ n = 10 * (n \div 10) + (n % 10)
    BY <1>2 DEF Digit
  <2>2. Decimal(n) = <<n \div 10, n % 10>>
    BY <1>2 DEF Decimal
  <2>3. QED BY <2>1, <2>2
<1>3. CASE n >= 100
  <2>1. /\ n \div 100 \in 1 .. 2 /\ n \div 10 % 10 \in Digit /\ n % 10 \in Digit
        /\ n = 100 * (n \div 100) + 10 * (n \div 10 % 10) + (n % 10)
    BY <1>3 DEF Digit
  <2>2. Decimal(n) = <<n \div 100, n \div 10 % 10, n % 10>>
    BY <1>3 DEF Decimal
  <2>3. QED BY <2>1, <2>2
<1>4. n < 10 \/ (n >= 10 /\ n < 100) \/ n >= 100
  OBVIOUS
<1>5. QED BY <1>1, <1>2, <1>3, <1>4

\* What a pattern of two or three places takes, and that it takes no text of
\* another length.
LEMMA Places ==
  /\ \A x, y, S, T : Matches(<<x, y>>, <<S, T>>) <=> x \in S /\ y \in T
  /\ \A x, y, z, S, T, U :
       Matches(<<x, y, z>>, <<S, T, U>>) <=> x \in S /\ y \in T /\ z \in U
BY DEF Matches

LEMMA LengthsDiffer ==
  /\ \A x, S, T : ~Matches(<<x>>, <<S, T>>)
  /\ \A x, S, T, U : ~Matches(<<x>>, <<S, T, U>>)
  /\ \A x, y, S, T, U : ~Matches(<<x, y>>, <<S, T, U>>)
  /\ \A x, y, z, S, T : ~Matches(<<x, y, z>>, <<S, T>>)
BY DEF Matches

\* the second octets of 100.64.0.0/10
LEMMA TailscaleSecond ==
  ASSUME NEW b \in 0 .. 255
  PROVE  (\E p \in TailscalePatterns : Matches(Decimal(b), p)) <=> b \div 64 = 1
<1> DEFINE text == Decimal(b)
<1>1. (\E p \in TailscalePatterns : Matches(text, p)) <=>
         \/ Matches(text, <<{6}, 4 .. 9>>) \/ Matches(text, <<7 .. 9, Digit>>)
         \/ Matches(text, <<{1}, {0, 1}, Digit>>) \/ Matches(text, <<{1}, {2}, 0 .. 7>>)
  BY DEF TailscalePatterns
<1>2. b \div 64 = 1 <=> b \in 64 .. 127
  OBVIOUS
<1>d. \/ b < 10 /\ text = <<b>>
      \/ \E t \in 1 .. 9, u \in Digit : b = 10 * t + u /\ text = <<t, u>>
      \/ \E h \in 1 .. 2, t \in Digit, u \in Digit :
           b = 100 * h + 10 * t + u /\ text = <<h, t, u>>
  BY DecimalDigits
<1> HIDE DEF text
<1>3. ASSUME b < 10, text = <<b>>
      PROVE  (\E p \in TailscalePatterns : Matches(text, p)) <=> b \div 64 = 1
  <2>1. \A S, T, U : ~Matches(text, <<S, T>>) /\ ~Matches(text, <<S, T, U>>)
    BY <1>3, LengthsDiffer, Zenon
  <2>2. b \notin 16 .. 31 /\ b \notin 64 .. 127
    BY <1>3
  <2>3. ~\E p \in TailscalePatterns : Matches(text, p)
    BY <1>1, <2>1, Zenon
  <2>4. QED BY <1>2, <2>2, <2>3, Zenon
<1>4. ASSUME NEW t \in 1 .. 9, NEW u \in Digit, b = 10 * t + u, text = <<t, u>>
      PROVE  (\E p \in TailscalePatterns : Matches(text, p)) <=> b \div 64 = 1
  <2>1. /\ Matches(text, <<{6}, 4 .. 9>>) <=> t = 6 /\ u \in 4 .. 9
        /\ Matches(text, <<7 .. 9, Digit>>) <=> t \in 7 .. 9
        /\ ~Matches(text, <<{1}, {0, 1}, Digit>>) /\ ~Matches(text, <<{1}, {2}, 0 .. 7>>)
    <3>1. \A S, T : Matches(text, <<S, T>>) <=> t \in S /\ u \in T
      BY <1>4, Places, Zenon
    <3>2. \A S, T, U : ~Matches(text, <<S, T, U>>)
      BY <1>4, LengthsDiffer, Zenon
    <3>3. QED BY <3>1, <3>2 DEF Digit
  <2>2. b \in 64 .. 127 <=> (t = 6 /\ u \in 4 .. 9) \/ t \in 7 .. 9
    BY <1>4 DEF Digit
  <2>3. QED BY <1>1, <1>2, <2>1, <2>2
<1>5. ASSUME NEW h \in 1 .. 2, NEW t \in Digit, NEW u \in Digit,
             b = 100 * h + 10 * t + u, text = <<h, t, u>>
      PROVE  (\E p \in TailscalePatterns : Matches(text, p)) <=> b \div 64 = 1
  <2>1. /\ Matches(text, <<{1}, {0, 1}, Digit>>) <=> h = 1 /\ t \in {0, 1}
        /\ Matches(text, <<{1}, {2}, 0 .. 7>>) <=> h = 1 /\ t = 2 /\ u \in 0 .. 7
        /\ ~Matches(text, <<{6}, 4 .. 9>>) /\ ~Matches(text, <<7 .. 9, Digit>>)
    <3>1. \A S, T, U : Matches(text, <<S, T, U>>) <=> h \in S /\ t \in T /\ u \in U
      BY <1>5, Places, Zenon
    <3>2. \A S, T : ~Matches(text, <<S, T>>)
      BY <1>5, LengthsDiffer, Zenon
    <3>3. QED BY <3>1, <3>2 DEF Digit
  <2>2. b \in 64 .. 127 <=> h = 1 /\ (t \in {0, 1} \/ (t = 2 /\ u \in 0 .. 7))
    BY <1>5 DEF Digit
  <2>3. QED BY <1>1, <1>2, <2>1, <2>2
<1>6. (\E p \in TailscalePatterns : Matches(text, p)) <=> b \div 64 = 1
  BY <1>d, <1>3, <1>4, <1>5
<1>7. QED BY <1>6 DEF text

\* and of 172.16.0.0/12
LEMMA Rfc1918Second ==
  ASSUME NEW b \in 0 .. 255
  PROVE  (\E p \in Rfc1918Patterns : Matches(Decimal(b), p)) <=> b \div 16 = 1
<1> DEFINE text == Decimal(b)
<1>1. (\E p \in Rfc1918Patterns : Matches(text, p)) <=>
         \/ Matches(text, <<{1}, 6 .. 9>>) \/ Matches(text, <<{2}, Digit>>)
         \/ Matches(text, <<{3}, {0, 1}>>)
  BY DEF Rfc1918Patterns
<1>2. b \div 16 = 1 <=> b \in 16 .. 31
  OBVIOUS
<1>d. \/ b < 10 /\ text = <<b>>
      \/ \E t \in 1 .. 9, u \in Digit : b = 10 * t + u /\ text = <<t, u>>
      \/ \E h \in 1 .. 2, t \in Digit, u \in Digit :
           b = 100 * h + 10 * t + u /\ text = <<h, t, u>>
  BY DecimalDigits
<1> HIDE DEF text
<1>3. ASSUME b < 10, text = <<b>>
      PROVE  (\E p \in Rfc1918Patterns : Matches(text, p)) <=> b \div 16 = 1
  <2>1. \A S, T, U : ~Matches(text, <<S, T>>) /\ ~Matches(text, <<S, T, U>>)
    BY <1>3, LengthsDiffer, Zenon
  <2>2. b \notin 16 .. 31 /\ b \notin 64 .. 127
    BY <1>3
  <2>3. ~\E p \in Rfc1918Patterns : Matches(text, p)
    BY <1>1, <2>1, Zenon
  <2>4. QED BY <1>2, <2>2, <2>3, Zenon
<1>4. ASSUME NEW t \in 1 .. 9, NEW u \in Digit, b = 10 * t + u, text = <<t, u>>
      PROVE  (\E p \in Rfc1918Patterns : Matches(text, p)) <=> b \div 16 = 1
  <2>1. /\ Matches(text, <<{1}, 6 .. 9>>) <=> t = 1 /\ u \in 6 .. 9
        /\ Matches(text, <<{2}, Digit>>) <=> t = 2
        /\ Matches(text, <<{3}, {0, 1}>>) <=> t = 3 /\ u \in {0, 1}
    <3>1. \A S, T : Matches(text, <<S, T>>) <=> t \in S /\ u \in T
      BY <1>4, Places, Zenon
    <3>2. QED BY <3>1 DEF Digit
  <2>2. b \in 16 .. 31 <=> (t = 1 /\ u \in 6 .. 9) \/ t = 2 \/ (t = 3 /\ u \in {0, 1})
    BY <1>4 DEF Digit
  <2>3. QED BY <1>1, <1>2, <2>1, <2>2
<1>5. ASSUME NEW h \in 1 .. 2, NEW t \in Digit, NEW u \in Digit,
             b = 100 * h + 10 * t + u, text = <<h, t, u>>
      PROVE  (\E p \in Rfc1918Patterns : Matches(text, p)) <=> b \div 16 = 1
  <2>1. /\ ~Matches(text, <<{1}, 6 .. 9>>) /\ ~Matches(text, <<{2}, Digit>>)
        /\ ~Matches(text, <<{3}, {0, 1}>>)
    BY <1>5, LengthsDiffer, Zenon
  <2>2. b \notin 16 .. 31
    BY <1>5 DEF Digit
  <2>3. QED BY <1>1, <1>2, <2>1, <2>2
<1>6. (\E p \in Rfc1918Patterns : Matches(text, p)) <=> b \div 16 = 1
  BY <1>d, <1>3, <1>4, <1>5
<1>7. QED BY <1>6 DEF text

\* Texts are the same when they are digit by digit.
LEMMA SameText ==
  /\ \A x, y, v, w : <<x, y>> = <<v, w>> <=> x = v /\ y = w
  /\ \A x, y, z, u, v, w : <<x, y, z>> = <<u, v, w>> <=> x = u /\ y = v /\ z = w
  /\ \A x, y, u, v, w : <<x, y>> # <<u, v, w>>
  /\ \A x, u, v, w : <<x>> # <<u, v>> /\ <<x>> # <<u, v, w>>
OBVIOUS

\* A number of up to three digits is known by its digits.
LEMMA WrittenOut ==
  ASSUME NEW a \in 0 .. 255
  PROVE  /\ Decimal(a) = <<1, 0>> <=> a = 10
         /\ Decimal(a) = <<1, 0, 0>> <=> a = 100
         /\ Decimal(a) = <<1, 7, 2>> <=> a = 172
         /\ Decimal(a) = <<1, 9, 2>> <=> a = 192
         /\ Decimal(a) = <<1, 6, 8>> <=> a = 168
<1> DEFINE text == Decimal(a)
           Goal == /\ text = <<1, 0>> <=> a = 10
                   /\ text = <<1, 0, 0>> <=> a = 100
                   /\ text = <<1, 7, 2>> <=> a = 172
                   /\ text = <<1, 9, 2>> <=> a = 192
                   /\ text = <<1, 6, 8>> <=> a = 168
<1>1. \/ a < 10 /\ text = <<a>>
      \/ \E t \in 1 .. 9, u \in Digit : a = 10 * t + u /\ text = <<t, u>>
      \/ \E h \in 1 .. 2, t \in Digit, u \in Digit :
           a = 100 * h + 10 * t + u /\ text = <<h, t, u>>
  BY DecimalDigits
<1> HIDE DEF text
<1>2. ASSUME a < 10, text = <<a>> PROVE Goal
  BY <1>2, SameText
<1>3. ASSUME NEW t \in 1 .. 9, NEW u \in Digit, a = 10 * t + u, text = <<t, u>>
      PROVE  Goal
  <2>1. /\ text = <<1, 0>> <=> t = 1 /\ u = 0
        /\ text # <<1, 0, 0>> /\ text # <<1, 7, 2>>
        /\ text # <<1, 9, 2>> /\ text # <<1, 6, 8>>
    BY <1>3, SameText
  <2>2. a < 100 /\ (a = 10 <=> t = 1 /\ u = 0)
    BY <1>3 DEF Digit
  <2>3. QED BY <2>1, <2>2
<1>4. ASSUME NEW h \in 1 .. 2, NEW t \in Digit, NEW u \in Digit,
             a = 100 * h + 10 * t + u, text = <<h, t, u>>
      PROVE  Goal
  <2>1. /\ text # <<1, 0>>
        /\ text = <<1, 0, 0>> <=> h = 1 /\ t = 0 /\ u = 0
        /\ text = <<1, 7, 2>> <=> h = 1 /\ t = 7 /\ u = 2
        /\ text = <<1, 9, 2>> <=> h = 1 /\ t = 9 /\ u = 2
        /\ text = <<1, 6, 8>> <=> h = 1 /\ t = 6 /\ u = 8
    BY <1>4, SameText
  <2>2. /\ a >= 100
        /\ a = 100 <=> h = 1 /\ t = 0 /\ u = 0
        /\ a = 172 <=> h = 1 /\ t = 7 /\ u = 2
        /\ a = 192 <=> h = 1 /\ t = 9 /\ u = 2
        /\ a = 168 <=> h = 1 /\ t = 6 /\ u = 8
    BY <1>4 DEF Digit
  <2>3. QED BY <2>1, <2>2
<1>5. Goal
  <2> HIDE DEF Goal
  <2>1. QED BY <1>1, <1>2, <1>3, <1>4
<1>6. QED BY <1>5 DEF text

\* The four expressions take the addresses of the four ranges.
LEMMA TextsAreRanges ==
  ASSUME NEW a \in 0 .. 255, NEW b \in 0 .. 255
  PROVE  IsPrivateRoute(a, b) <=>
           \/ a = 100 /\ b \div 64 = 1
           \/ a = 10
           \/ a = 172 /\ b \div 16 = 1
           \/ a = 192 /\ b = 168
<1>1. IsPrivateRoute(a, b) <=>
        \/ Decimal(a) = <<1, 0, 0>> /\ \E p \in TailscalePatterns : Matches(Decimal(b), p)
        \/ Decimal(a) = <<1, 0>>
        \/ Decimal(a) = <<1, 7, 2>> /\ \E p \in Rfc1918Patterns : Matches(Decimal(b), p)
        \/ Decimal(a) = <<1, 9, 2>> /\ Decimal(b) = <<1, 6, 8>>
  BY Zenon DEF IsPrivateRoute
<1>2. (\E p \in TailscalePatterns : Matches(Decimal(b), p)) <=> b \div 64 = 1
  BY TailscaleSecond
<1>3. (\E p \in Rfc1918Patterns : Matches(Decimal(b), p)) <=> b \div 16 = 1
  BY Rfc1918Second
<1>4. \A n \in 0 .. 255 : /\ Decimal(n) = <<1, 0>> <=> n = 10
                          /\ Decimal(n) = <<1, 0, 0>> <=> n = 100
                          /\ Decimal(n) = <<1, 7, 2>> <=> n = 172
                          /\ Decimal(n) = <<1, 9, 2>> <=> n = 192
                          /\ Decimal(n) = <<1, 6, 8>> <=> n = 168
  BY WrittenOut
<1>5. Decimal(a) = <<1, 0>> <=> a = 10
  BY <1>4, Zenon
<1>6. Decimal(a) = <<1, 0, 0>> <=> a = 100
  BY <1>4, Zenon
<1>7. Decimal(a) = <<1, 7, 2>> <=> a = 172
  BY <1>4, Zenon
<1>8. Decimal(a) = <<1, 9, 2>> <=> a = 192
  BY <1>4, Zenon
<1>9. Decimal(b) = <<1, 6, 8>> <=> b = 168
  BY <1>4, ZenonT(60)
<1>10. QED BY <1>1, <1>2, <1>3, <1>5, <1>6, <1>7, <1>8, <1>9, Zenon

\* The address asked about is one of those that may be.
AddressInv ==
  address = NoAddress \/ \E a \in FirstOctets, b \in SecondOctets : address = <<a, b>>

\* Of all the addresses there are, read by their first two octets, the private
\* ones are those of the four ranges (tailscale.ts:171-179).
THEOREM PrivateRoutesHold == RoutesSpec => []PrivateRoutesAreTheRanges
<1>1. RoutesInit => AddressInv
  BY DEF RoutesInit, AddressInv
<1>2. AddressInv /\ [RoutesNext]_address => AddressInv'
  BY DEF AddressInv, RoutesNext
<1>3. AddressInv => PrivateRoutesAreTheRanges
  <2> SUFFICES ASSUME NEW a \in FirstOctets, NEW b \in SecondOctets, address = <<a, b>>
               PROVE  PrivateRoutesAreTheRanges
    BY DEF AddressInv, PrivateRoutesAreTheRanges
  <2>1. a \in 0 .. 255 /\ b \in 0 .. 255 /\ address[1] = a /\ address[2] = b
    BY OctetsAssumption
  <2>2. IsPrivateRoute(a, b) <=>
          \/ a = 100 /\ b \div 64 = 1
          \/ a = 10
          \/ a = 172 /\ b \div 16 = 1
          \/ a = 192 /\ b = 168
    BY <2>1, TextsAreRanges
  <2>3. QED BY <2>1, <2>2 DEF PrivateRoutesAreTheRanges
<1>4. QED BY <1>1, <1>2, <1>3, PTL DEF RoutesSpec

-----------------------------------------------------------------------------
(* The recorders of results and compliance, for any number of recorders and *)
(* entities and any number of seconds.                                      *)
USE TrinityAssumption

(* TrinityTypeOK says of the two tables what their rows are; that they are  *)
(* sequences of them is the form the lemmas on sequences need.              *)
TypeInv ==
  /\ second \in Seconds
  /\ results \in Seq(Results)
  /\ compliance \in Seq(ComplianceRows)
  /\ recorder \in [Recorders -> [phase : Phases, result : Results, until : Seconds]]

-----------------------------------------------------------------------------
(* Lemmas about the tables and what is computed from them.                  *)

\* An INSERT adds exactly its row.
LEMMA RowsOfInsert ==
  ASSUME NEW S, NEW table \in Seq(S), NEW row \in S
  PROVE  /\ Append(table, row) \in Seq(S)
         /\ Range(Append(table, row)) = Range(table) \cup {row}
<1>1. /\ Append(table, row) \in Seq(S)
      /\ Len(Append(table, row)) = Len(table) + 1
      /\ \A i \in 1 .. Len(table) : Append(table, row)[i] = table[i]
      /\ Append(table, row)[Len(table) + 1] = row
  BY AppendProperties
<1>2. /\ Len(table) \in Nat /\ DOMAIN table = 1 .. Len(table)
      /\ DOMAIN Append(table, row) = 1 .. Len(table) + 1
  BY <1>1, LenProperties
<1>3. 1 .. Len(table) + 1 = (1 .. Len(table)) \cup {Len(table) + 1}
  BY <1>2
<1>4. QED BY <1>1, <1>2, <1>3 DEF Range

\* The rows of the results are results.
LEMMA ResultRows ==
  ASSUME TypeInv
  PROVE  /\ Len(results) \in Nat /\ DOMAIN results = 1 .. Len(results)
         /\ \A i \in DOMAIN results : results[i] \in Results
<1>1. /\ Len(results) \in Nat /\ DOMAIN results = 1 .. Len(results)
      /\ results \in [1 .. Len(results) -> Results]
  BY LenProperties DEF TypeInv
<1>2. QED BY <1>1 DEF Results

\* What has passed, row by row: a set of rows, whatever their order.
LEMMA PassedByRow ==
  ASSUME NEW entity
  PROVE  Passed(entity) =
           {row.light : row \in {x \in Range(results) : x.entity = entity /\ x.passed}}
             \cap Lights
BY DEF Passed, Of, Range

\* The rows of an entity are finitely many.
LEMMA OfIsFinite == ASSUME TypeInv, NEW entity PROVE IsFiniteSet(Of(entity))
<1>1. Len(results) \in Nat /\ DOMAIN results = 1 .. Len(results)
  BY ResultRows
<1>2. IsFiniteSet(1 .. Len(results))
  BY <1>1, FS_Interval
<1>3. Of(entity) \in SUBSET (1 .. Len(results))
  BY <1>1 DEF Of
<1>4. QED BY <1>2, <1>3, FS_Subset

\* There is a pass to count exactly when a result of the entity has passed.
LEMMA PassesCount ==
  ASSUME TypeInv, NEW entity
  PROVE  /\ Passes(entity) \in Nat
         /\ Passes(entity) > 0 <=> \E i \in Of(entity) : results[i].passed
<1> DEFINE ids == {i \in Of(entity) : results[i].passed}
<1>1. IsFiniteSet(ids)
  <2>1. ids \in SUBSET Of(entity)
    OBVIOUS
  <2> HIDE DEF ids
  <2>2. QED BY <2>1, OfIsFinite, FS_Subset
<1>2. Cardinality(ids) \in Nat /\ (Cardinality(ids) = 0 <=> ids = {})
  <2> HIDE DEF ids
  <2>1. Cardinality(ids) \in Nat
    BY <1>1, FS_CardinalityType
  <2>2. \A S : IsFiniteSet(S) => (Cardinality(S) = 0 <=> S = {})
    BY FS_EmptySet, Zenon
  <2>3. QED BY <1>1, <2>1, <2>2, Zenon
<1>3. ids # {} <=> \E i \in Of(entity) : results[i].passed
  OBVIOUS
<1>4. Passes(entity) = Cardinality(ids)
  BY DEF Passes
<1> HIDE DEF ids
<1>5. QED BY <1>2, <1>3, <1>4

\* An entity is failed exactly when none of its results has passed: there are as
\* many passes as light types tested only if there are passes at all.
LEMMA FailedMeansNone ==
  ASSUME TypeInv, NEW entity
  PROVE  Status(entity) = "failed" <=> ~ \E i \in Of(entity) : results[i].passed
<1> DEFINE lights == {results[i].light : i \in Of(entity)}
           some == \E i \in Of(entity) : results[i].passed
<1>1. Passes(entity) \in Nat /\ (Passes(entity) > 0 <=> some)
  BY PassesCount
<1>2. CASE ~some
  <2>1. Passes(entity) = 0
    BY <1>1, <1>2
  <2>2. IsFiniteSet(lights)
    <3> DEFINE f == [i \in Of(entity) |-> results[i].light]
    <3>1. f \in Surjection(Of(entity), lights)
      BY DEF Surjection
    <3> HIDE DEF f, lights
    <3>2. QED BY <3>1, OfIsFinite, FS_Surjection
  <2>3. lights # {} => Cardinality(lights) # 0
    <3> HIDE DEF lights
    <3>1. \A S : IsFiniteSet(S) => (Cardinality(S) = 0 <=> S = {})
      BY FS_EmptySet, Zenon
    <3>2. QED BY <2>2, <3>1, Zenon
  <2>4. Status(entity) = "failed"
    BY <2>1, <2>3 DEF Status
  <2>5. QED BY <1>2, <2>4
<1>3. CASE some
  BY <1>1, <1>3 DEF Status
<1>4. QED BY <1>2, <1>3

\* A pass of the entity is a pass of one of the three lights or a stray one.
Stray(entity) ==
  \E result \in Range(results) :
    result.entity = entity /\ result.passed /\ result.light \notin Lights

LEMMA StatusAgrees ==
  ASSUME TypeInv, NEW entity
  PROVE  /\ Status(entity) = "failed" => Passed(entity) = {}
         /\ Status(entity) # "failed" /\ Passed(entity) = {} => Stray(entity)
<1>1. Status(entity) = "failed" <=> ~ \E i \in Of(entity) : results[i].passed
  BY FailedMeansNone
<1>2. Status(entity) = "failed" => Passed(entity) = {}
  BY <1>1 DEF Passed
<1>3. ASSUME Status(entity) # "failed", Passed(entity) = {} PROVE Stray(entity)
  <2>1. PICK i \in Of(entity) : results[i].passed
    BY <1>1, <1>3
  <2>2. results[i].light \notin Lights
    BY <1>3, <2>1 DEF Passed
  <2>3. i \in DOMAIN results /\ results[i].entity = entity
    BY <2>1 DEF Of
  <2>4. QED BY <2>1, <2>2, <2>3 DEF Stray, Range
<1>4. QED BY <1>2, <1>3

-----------------------------------------------------------------------------
(* What every compliance row says, for good.                                *)

(* VerdictIsCurrent reads only the latest rows.  Inductive is the same of   *)
(* every row, with what makes it so: a recorder that has inserted its       *)
(* result finds it in the table for ever, and no row is of a later second   *)
(* than the clock's.                                                        *)
RowsInv ==
  /\ \A row \in Range(compliance) :
       /\ row.passes \subseteq Passed(row.entity)
       /\ row.last_checked <= second
       /\ row.status = "failed" => row.passes = {}
       /\ row.status # "failed" /\ row.passes = {} => Stray(row.entity)
  /\ \A r \in Recorders :
       recorder[r].phase \in {"inserted", "updated"} => recorder[r].result \in Range(results)
  /\ \A r \in Recorders : \A row \in Range(compliance) :
       /\ recorder[r].phase = "updated" /\ recorder[r].until < row.last_checked
       /\ recorder[r].result.entity = row.entity /\ recorder[r].result.passed
       /\ recorder[r].result.light \in Lights
       => recorder[r].result.light \in row.passes

LEMMA RowsInvImplies == RowsInv => VerdictIsCurrent /\ OnlyStrayPassesDisagree
BY DEF RowsInv, VerdictIsCurrent, OnlyStrayPassesDisagree, Stray, LatestRows, RowsOf

LEMMA TypeInvImplies == TypeInv => TrinityTypeOK
<1> SUFFICES ASSUME TypeInv PROVE TrinityTypeOK
  OBVIOUS
<1>1. Range(results) \subseteq Results
  BY LenProperties, ElementOfSeq DEF TypeInv, Range
<1>2. Range(compliance) \subseteq ComplianceRows
  BY LenProperties, ElementOfSeq DEF TypeInv, Range
<1>3. QED BY <1>1, <1>2 DEF TypeInv, TrinityTypeOK

LEMMA RowsInit == TrinityInit => TypeInv /\ RowsInv
<1> SUFFICES ASSUME TrinityInit PROVE TypeInv /\ RowsInv
  OBVIOUS
<1>1. Range(compliance) = {}
  BY DEF TrinityInit, Range
<1>2. recorder \in [Recorders -> [phase : {"idle"}, result : Results, until : {0}]]
  BY DEF TrinityInit
<1>3. RowsInv
  BY <1>1, <1>2 DEF RowsInv
<1>4. TypeInv
  BY <1>2 DEF TrinityInit, TypeInv, Phases, Seconds
<1>5. QED BY <1>3, <1>4

\* A step leaves the results that are there: what has passed, has passed.
LEMMA PassedGrows ==
  ASSUME NEW entity, Range(results) \subseteq Range(results)'
  PROVE  Passed(entity) \subseteq Passed(entity)'
<1>1. Passed(entity) =
        {row.light : row \in {x \in Range(results) : x.entity = entity /\ x.passed}}
          \cap Lights
  BY PassedByRow
<1>2. Passed(entity)' =
        {row.light : row \in {x \in Range(results)' : x.entity = entity /\ x.passed}}
          \cap Lights
  BY DEF Passed, Of, Range
<1>3. QED BY <1>1, <1>2

LEMMA RowsNext ==
  TypeInv /\ RowsInv /\ [TrinityNext]_trinityVars => TypeInv' /\ RowsInv'
<1> SUFFICES ASSUME TypeInv, RowsInv, [TrinityNext]_trinityVars
             PROVE  TypeInv' /\ RowsInv'
  OBVIOUS
<1> USE DEF TypeInv, Phases
<1>r. \A r \in Recorders : recorder[r] \in [phase : Phases, result : Results, until : Seconds]
  OBVIOUS
<1>1. ASSUME NEW r \in Recorders, InsertResult(r) PROVE TypeInv' /\ RowsInv'
  <2>1. recorder[r].result \in Results
    BY <1>r
  <2>2. /\ results' \in Seq(Results)
        /\ Range(results)' = Range(results) \cup {recorder[r].result}
    BY <1>1, <2>1, RowsOfInsert DEF InsertResult
  <2>3. /\ UNCHANGED <<second, compliance>>
        /\ recorder' = [recorder EXCEPT ![r].phase = "inserted"]
    BY <1>1 DEF InsertResult
  <2>4. TypeInv'
    BY <2>2, <2>3
  <2>5. \A entity : Passed(entity) \subseteq Passed(entity)'
    BY <2>2, PassedGrows
  <2>6. \A row \in Range(compliance)' :
          /\ row.passes \subseteq Passed(row.entity)'
          /\ row.last_checked <= second'
          /\ row.status = "failed" => row.passes = {}
          /\ row.status # "failed" /\ row.passes = {} => Stray(row.entity)'
    BY <2>2, <2>3, <2>5 DEF RowsInv, Stray
  <2>7. \A s \in Recorders :
          /\ recorder'[s].result = recorder[s].result
          /\ recorder'[s].until = recorder[s].until
          /\ recorder'[s].phase = IF s = r THEN "inserted" ELSE recorder[s].phase
    BY <2>3, <1>r
  <2>8. RowsInv'
    BY <2>2, <2>3, <2>6, <2>7 DEF RowsInv
  <2>9. QED BY <2>4, <2>8
<1>2. ASSUME NEW r \in Recorders, InsertMissed(r) PROVE TypeInv' /\ RowsInv'
  <2>1. /\ UNCHANGED <<second, results, compliance>>
        /\ recorder' = [recorder EXCEPT ![r].phase = "missed"]
    BY <1>2 DEF InsertMissed
  <2>2. TypeInv'
    BY <2>1
  <2>3. \A s \in Recorders :
          /\ recorder'[s].result = recorder[s].result
          /\ recorder'[s].until = recorder[s].until
          /\ recorder'[s].phase = IF s = r THEN "missed" ELSE recorder[s].phase
    BY <2>1, <1>r
  <2>4. RowsInv'
    BY <2>1, <2>3 DEF RowsInv, Stray, Passed, Of
  <2>5. QED BY <2>2, <2>4
<1>3. ASSUME NEW r \in Recorders, UpdateCompliance(r) PROVE TypeInv' /\ RowsInv'
  <2> DEFINE e == recorder[r].result.entity
             new == [entity |-> e, passes |-> Passed(e), status |-> Status(e),
                     last_checked |-> second]
  <2>1. /\ e \in Entities /\ Passed(e) \in SUBSET Lights /\ Status(e) \in Verdicts
    <3>1. e \in Entities
      BY <1>r DEF Results
    <3>2. Passed(e) \in SUBSET Lights
      BY DEF Passed
    <3>3. Status(e) \in Verdicts
      BY DEF Status, Verdicts
    <3>4. QED BY <3>1, <3>2, <3>3
  <2>2. new \in ComplianceRows
    BY <2>1 DEF ComplianceRows
  <2>3. /\ recorder[r].phase \in {"inserted", "missed"}
        /\ UNCHANGED <<second, results>> /\ compliance' = Append(compliance, new)
    BY <1>3 DEF UpdateCompliance
  <2>4. /\ compliance' \in Seq(ComplianceRows)
        /\ Range(compliance)' = Range(compliance) \cup {new}
    BY <2>2, <2>3, RowsOfInsert
  <2>5. \A s \in Recorders :
          /\ recorder'[s].result = recorder[s].result
          /\ s # r => recorder'[s] = recorder[s]
          /\ recorder'[r].phase = "ended" \/ (/\ recorder[r].phase = "inserted"
                                              /\ recorder'[r].phase = "updated"
                                              /\ recorder'[r].until = second)
    BY <1>3, <2>3, <1>r DEF UpdateCompliance
  <2>6. TypeInv'
    BY <1>3, <2>3, <2>4 DEF UpdateCompliance
  <2>7. /\ new.passes = Passed(new.entity) /\ new.last_checked = second
        /\ new.status = "failed" => new.passes = {}
        /\ new.status # "failed" /\ new.passes = {} => Stray(new.entity)
    BY StatusAgrees
  <2>8. \A entity : Passed(entity)' = Passed(entity)
    BY <2>3 DEF Passed, Of
  <2>9. \A row \in Range(compliance)' :
          /\ row.passes \subseteq Passed(row.entity)'
          /\ row.last_checked <= second'
          /\ row.status = "failed" => row.passes = {}
          /\ row.status # "failed" /\ row.passes = {} => Stray(row.entity)'
    <3> HIDE DEF new
    <3>1. second \in Nat
      BY DEF Seconds
    <3>2. \A entity : Stray(entity)' <=> Stray(entity)
      BY <2>3 DEF Stray
    <3>3. QED BY <2>3, <2>4, <2>7, <2>8, <3>1, <3>2 DEF RowsInv
  <2>10. \A s \in Recorders :
           recorder'[s].phase \in {"inserted", "updated"} => recorder'[s].result \in Range(results)'
    BY <2>3, <2>5 DEF RowsInv
  <2>11. ASSUME NEW s \in Recorders, NEW row \in Range(compliance)',
                recorder'[s].phase = "updated", recorder'[s].until < row.last_checked,
                recorder'[s].result.entity = row.entity, recorder'[s].result.passed,
                recorder'[s].result.light \in Lights
         PROVE  recorder'[s].result.light \in row.passes
    <3>1. second \in Nat /\ recorder'[s].result = recorder[s].result
      BY <2>5 DEF Seconds
    (* the new row counts every result that is in the table *)
    <3>2. CASE row = new
      <4>1. recorder[s].result \in Range(results)
        BY <2>10, <2>11, <2>3, <3>1
      <4>2. recorder[s].result.light \in Passed(row.entity)
        BY <4>1, <2>11, <3>1, PassedByRow
      <4>3. row.passes = Passed(row.entity)
        BY <2>7, <3>2
      <4>4. QED BY <3>1, <4>2, <4>3
    (* an older row is not of a second after the one r updates in *)
    <3>3. CASE row # new
      <4>1. row \in Range(compliance) /\ row.last_checked <= second
        BY <2>4, <3>3 DEF RowsInv
      <4>2. row.last_checked \in Nat
        <5>1. row \in ComplianceRows
          BY <4>1, ElementOfSeq, LenProperties DEF Range
        <5>2. QED BY <5>1 DEF ComplianceRows, Seconds
      <4>3. s # r
        BY <2>5, <2>11, <3>1, <4>1, <4>2
      <4>4. recorder'[s] = recorder[s]
        BY <2>5, <4>3
      <4>5. QED BY <2>11, <4>1, <4>4 DEF RowsInv
    <3>4. QED BY <3>2, <3>3
  <2>12. RowsInv'
    BY <2>9, <2>10, <2>11 DEF RowsInv
  <2>13. QED BY <2>6, <2>12
<1>4. CASE NextSecond
  <2>1. /\ UNCHANGED <<results, compliance, recorder>> /\ second' = second + 1
        /\ second \in Nat /\ second' \in Seconds
    BY <1>4 DEF NextSecond, Seconds
  <2>2. TypeInv'
    BY <2>1
  <2>3. \A row \in Range(compliance) : row.last_checked \in Nat
    <3>1. \A row \in Range(compliance) : row \in ComplianceRows
      BY ElementOfSeq, LenProperties DEF Range
    <3>2. QED BY <3>1 DEF ComplianceRows, Seconds
  <2>4. \A row \in Range(compliance) : row.last_checked <= second'
    BY <2>1, <2>3 DEF RowsInv
  <2>5. RowsInv'
    BY <2>1, <2>4 DEF RowsInv, Stray, Passed, Of
  <2>6. QED BY <2>2, <2>5
<1>5. CASE UNCHANGED trinityVars
  BY <1>5 DEF trinityVars, RowsInv, Stray, Passed, Of
<1>6. QED BY <1>1, <1>2, <1>3, <1>4, <1>5 DEF TrinityNext

LEMMA InvariantHolds == TrinitySpec => [](TypeInv /\ RowsInv)
BY RowsInit, RowsNext, PTL DEF TrinitySpec

\* Every table and recorder has its type, whatever overlaps or is missed.
THEOREM TrinityTypeCorrect == TrinitySpec => []TrinityTypeOK
BY InvariantHolds, TypeInvImplies, PTL

\* The latest verdict counts every pass that was complete a second before it,
\* and no light that never passed.
THEOREM VerdictsAreCurrent == TrinitySpec => []VerdictIsCurrent
BY InvariantHolds, RowsInvImplies, PTL

\* The status and the checker disagree on what has failed only over passes
\* recorded under something that is none of the three lights.
THEOREM StrayPassesAlone == TrinitySpec => []OnlyStrayPassesDisagree
BY InvariantHolds, RowsInvImplies, PTL

-----------------------------------------------------------------------------
(* All of them together, as the run checks them.                            *)

\* The registries and scripts share no state: a behaviour of all of them is one
\* of each, so that what is proved of each holds of all together.
THEOREM RegistriesAreApart ==
  MCSpec => /\ TunnelsSpec /\ RoutesSpec /\ ModelsSpec /\ WorkflowsSpec /\ TrinitySpec
            /\ OAuthFairSpec
<1>1. MCInit => /\ TunnelsInit /\ RoutesInit /\ ModelsInit /\ WorkflowsInit /\ TrinityInit
                /\ OAuthInit
  BY DEF MCInit
<1>2. [MCNext]_registryVars =>
        /\ [TunnelsNext]_tunnelVars /\ [RoutesNext]_address /\ [ModelsNext]_modelVars
        /\ [WorkflowsNext]_workflowVars /\ [TrinityNext]_trinityVars
        /\ [OAuthNext]_oauthVars
  BY DEF MCNext, registryVars
<1>3. QED BY <1>1, <1>2, PTL DEF MCSpec, TunnelsSpec, RoutesSpec, ModelsSpec, WorkflowsSpec,
                               TrinitySpec, OAuthSpec, OAuthFairSpec

\* Every variable of every registry has its type, whatever is called in whatever
\* order.
THEOREM RegistriesTypeCorrect == MCSpec => []MCTypeOK
<1>1. /\ TunnelsTypeOK /\ ModelsTypeOK /\ WorkflowsTypeOK /\ TrinityTypeOK /\ OAuthTypeOK
      => MCTypeOK
  BY DEF MCTypeOK
<1>2. MCSpec => OAuthSpec
  BY RegistriesAreApart, PTL DEF OAuthFairSpec
<1>3. QED BY <1>1, <1>2, RegistriesAreApart, TunnelsTypeCorrect, ModelsTypeCorrect,
             WorkflowsTypeCorrect, TrinityTypeCorrect, OAuthTypeCorrect, PTL
=============================================================================
