------------------------------ MODULE Tunnels ------------------------------
(***************************************************************************)
(* The tunnel registry of the gateway (src/integrations/network/           *)
(* tunnels.ts): a Map of tunnels that starts with three of them, to which  *)
(* exposeService adds, and the cloudflared configuration generated from    *)
(* it, whose first rule for a host name wins.                              *)
(*                                                                         *)
(* The Map is the sequence of its values in insertion order.  A public URL *)
(* is its host, by the label before .blackroad.io, or no URL at all.       *)
(***************************************************************************)
EXTENDS Integers, Sequences, Functions, FiniteSetsExt

CONSTANTS
  Services,      \* what can be exposed
  Subdomains,    \* and under which other label
  HostLabels,    \* labels public URLs have
  BadLabels,     \* those of them new URL() does not take
  Ports,
  Replacements,  \* tunnels registerTunnel may be given
  Providers,     \* defaultProvider, as it may be configured
  Protocols,     \* and the protocol option
  NewStatuses,   \* what updateTunnelStatus may be given
  MaxTunnels,    \* bound: how many tunnels the Map is filled to
  EndOfTunnels,  \* bound: the last millisecond looked at
  NoLabel

VARIABLES
  millis,   \* Date.now()
  tunnels,  \* the values of the Map
  handed    \* history: the tunnels exposeService returned, and when

tunnelVars == <<millis, tunnels, handed>>

\* A default id has no time in it.
Never == -1
Id(name, at) == [name |-> name, at |-> at]

Tunnel(id, provider, status, label, port, protocol) ==
  [id |-> id, provider |-> provider, status |-> status, label |-> label,
   port |-> port, protocol |-> protocol]

\* 'ssh.blackroad.io' has no scheme: it is no URL.
DefaultTunnels == <<
  Tunnel(Id("gateway-dev", Never), "cloudflare", "inactive", "dev-gateway", 4000, "https"),
  Tunnel(Id("beacon-dev", Never), "cloudflare", "inactive", "dev-beacon", 5000, "https"),
  Tunnel(Id("ssh-tunnel", Never), "cloudflare", "inactive", NoLabel, 22, "ssh")>>

Statuses == {"active", "inactive", "error", "pending"}

TunnelProtocols == {"http", "https", "tcp", "ssh"}

TunnelNames == {"gateway-dev", "beacon-dev", "ssh-tunnel"} \cup Services

TunnelRecords ==
  [id : [name : TunnelNames, at : Never .. EndOfTunnels],
   provider : {"cloudflare", "ngrok"}, status : Statuses,
   label : HostLabels \cup {NoLabel}, port : Nat, protocol : TunnelProtocols]

\* Nothing but exposeService calls registerTunnel today: what else may call it
\* is taken to replace a default tunnel.
ASSUME TunnelsAssumption ==
  /\ EndOfTunnels \in Nat /\ MaxTunnels \in Nat /\ Ports \subseteq Nat
  /\ {"dev-gateway", "dev-beacon"} \cup Services \cup Subdomains \subseteq HostLabels
  /\ Replacements \subseteq TunnelRecords
  /\ \A t \in Replacements : t.id.at = Never
  /\ Providers \subseteq {"cloudflare", "ngrok"}
  /\ Protocols \subseteq TunnelProtocols \ {"ssh"}
  /\ NewStatuses \subseteq Statuses

TunnelsTypeOK ==
  /\ millis \in 0 .. EndOfTunnels
  /\ \A i \in DOMAIN tunnels : tunnels[i] \in TunnelRecords
  /\ \A i, j \in DOMAIN tunnels : tunnels[i].id = tunnels[j].id => i = j
  /\ \A i \in DOMAIN handed : handed[i].tunnel \in TunnelRecords /\ handed[i].at \in 0 .. millis

TunnelsInit == millis = 0 /\ tunnels = DefaultTunnels /\ handed = << >>

Where(id) == {i \in DOMAIN tunnels : tunnels[i].id = id}

\* mutated form: a key that is there is deleted before it is set
SetAtEnd(t) == Append(SelectSeq(tunnels, LAMBDA u : u.id # t.id), t)

\* mutated form: the tunnel is pushed onto a list
SetByPush(t) == Append(tunnels, t)

\* Map.set: a key that is there keeps its place
Set(t) == IF Where(t.id) = {} THEN Append(tunnels, t)
          ELSE [tunnels EXCEPT ![CHOOSE i \in Where(t.id) : TRUE] = t]

\* mutated form: the id is the service's name alone
ExposureIdOfName(service) == Id(service, 0)

ExposureId(service) == Id(service, millis)

RegisterTunnel(t) ==
  /\ tunnels' = Set(t)
  /\ UNCHANGED <<millis, handed>>

ExposeService(service, subdomain, provider, port, protocol) ==
  LET t == Tunnel(ExposureId(service), provider, "pending",
                  IF subdomain = NoLabel THEN service ELSE subdomain, port, protocol)
  IN /\ Len(handed) + Len(DefaultTunnels) < MaxTunnels
     /\ tunnels' = Set(t)
     /\ handed' = Append(handed, [tunnel |-> t, service |-> service, at |-> millis])
     /\ UNCHANGED millis

\* an unknown id changes nothing
UpdateTunnelStatus(id, status) ==
  /\ \E i \in Where(id) : tunnels' = Set([tunnels[i] EXCEPT !.status = status])
  /\ UNCHANGED <<millis, handed>>

Millisecond ==
  /\ millis < EndOfTunnels
  /\ millis' = millis + 1
  /\ UNCHANGED <<tunnels, handed>>

TunnelsNext ==
  \/ \E t \in Replacements : RegisterTunnel(t)
  \/ \E service \in Services, subdomain \in Subdomains \cup {NoLabel},
        provider \in Providers, port \in Ports, protocol \in Protocols :
        ExposeService(service, subdomain, provider, port, protocol)
  \/ \E i \in DOMAIN tunnels, status \in NewStatuses : UpdateTunnelStatus(tunnels[i].id, status)
  \/ Millisecond

TunnelsSpec == TunnelsInit /\ [][TunnelsNext]_tunnelVars

-----------------------------------------------------------------------------
(* generateCloudflaredConfig.                                               *)

\* the places in the Map that get a rule, in this order
Ingress == {i \in DOMAIN tunnels : tunnels[i].provider = "cloudflare"}

\* new URL() throws for one tunnel, and the whole configuration with it
ConfigThrows == \E i \in Ingress : tunnels[i].label \in BadLabels \cup {NoLabel}

Hits(label) == {i \in Ingress : tunnels[i].label = label}

NotFound == <<"http_status:404", 0>>

\* the tunnel a label is routed to; external: cloudflared takes the first rule
\* that matches
Owner(label) == tunnels[Min(Hits(label))]

Route(label) ==
  IF Hits(label) = {} THEN NotFound ELSE <<Owner(label).protocol, Owner(label).port>>

Labels == {tunnels[i].label : i \in Ingress}

Kept(t, seq) == \E u \in Range(seq) : [u EXCEPT !.status = t.status] = t

\* a tunnel of the Map is set again, and only now claims the label
TakesOver(label) ==
  \E t \in Range(tunnels), u \in Range(tunnels') :
    /\ t.id = u.id
    /\ u.provider = "cloudflare" /\ u.label = label
    /\ ~(t.provider = "cloudflare" /\ t.label = label)

\* Exposing a service or changing a status never moves a host name: it goes on
\* to the tunnel that had it first for as long as that tunnel stands in the Map
\* as it was, so a service exposed again is not reached at its new port.  The
\* one exception is a service exposed twice within one millisecond, the second
\* time under another label: it takes that label over from a tunnel that was
\* exposed between the two (tunnels.ts:238-240, 266-287, 346-362).
RoutesAreStable ==
  [][\A label \in Labels :
       /\ ~ConfigThrows /\ ~ConfigThrows'
       /\ Kept(Owner(label), tunnels') /\ ~TakesOver(label)
       => Route(label)' = Route(label)]_tunnelVars

Registered(t) == Kept(t, tunnels)

\* A tunnel that was handed out is the one registered under its id, unless the
\* same service was exposed again within the same millisecond
\* (tunnels.ts:346-362).
HandedIsRegistered ==
  \A i \in DOMAIN handed :
    \/ Registered(handed[i].tunnel)
    \/ \E j \in i + 1 .. Len(handed) :
         handed[j].service = handed[i].service /\ handed[j].at = handed[i].at
=============================================================================
