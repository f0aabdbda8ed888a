-------------------------------- MODULE Reply --------------------------------
(***************************************************************************)
(* The Access-Accept handleAuth builds (auth.go and the attribute setters  *)
(* it calls), block by block.  A setting is a member of a set of settings  *)
(* that are not empty or zero; an attribute says whose setting it carries: *)
(* the user's own, the PPPoE profile's, the voucher package's, or what is  *)
(* left of the voucher's limit.  Every vendor attribute travels as RADIUS  *)
(* type 26, so that Packet.Set, which replaces all attributes of its type, *)
(* cannot tell one vendor attribute from another.                          *)
(***************************************************************************)
EXTENDS Integers

CONSTANTS
  OwnSettings,       \* settings a radius_users row may carry
  ProfileSettings,   \* settings a pppoe_profiles row may carry
  PackageSettings,   \* settings a voucher_packages row may carry
  Octets,            \* max_total_octets values
  Word               \* math.MaxUint32

ASSUME ReplyAssumption ==
  /\ OwnSettings \subseteq {"ip", "rate", "speed", "group", "bandwidth", "session", "idle"}
  /\ ProfileSettings \subseteq {"pool", "mask", "mtu", "compression", "dns", "rate",
                                "bandwidth", "session", "idle"}
  /\ PackageSettings \subseteq {"pool", "dns"}
  /\ Octets \subseteq Nat
  /\ Word \in Nat \ {0}

VARIABLES
  user,     \* handleAuth's copy of the user
  stage,    \* the block of handleAuth that runs next
  packet    \* resp.Attributes, without their order

replyVars == <<user, stage, packet>>

\* The user with the profile and the package the refresh attached to it, if
\* any.  octets is uint32 on the user and int64 on the profile; remaining
\* says that a voucher's limit has a positive rest.
User == [login: BOOLEAN, own: SUBSET OwnSettings,
         profiled: BOOLEAN, profile: SUBSET ProfileSettings,
         packaged: BOOLEAN, package: SUBSET PackageSettings,
         octets: Octets \cap 0 .. Word, profileOctets: Octets, remaining: BOOLEAN]

\* A user has a profile or a package, not both, and a voucher, which alone
\* has a limit, has no profile.
Servable(u) ==
  /\ ~u.profiled \/ ~u.packaged
  /\ ~u.profiled => u.profile = {} /\ u.profileOctets = 0
  /\ ~u.packaged => u.package = {}
  /\ u.remaining => ~u.profiled

Origins == {"user", "profile", "package", "limit", "login", "framed"}

StdNames == {"Service-Type", "Framed-Protocol", "Framed-IP-Address", "Framed-IP-Netmask",
             "Framed-MTU", "Framed-Compression", "Framed-Pool", "Session-Timeout",
             "Idle-Timeout"}
VsaNames == {"Microsoft-DNS", "pfSense-DNS", "pfSense-Bandwidth", "pfSense-Max-Total-Octets",
             "MikroTik-Address-Pool", "MikroTik-Rate-Limit", "MikroTik-Group",
             "MikroTik-Total-Limit"}

Attribute == [type: StdNames \cup {"Vendor-Specific"}, name: StdNames \cup VsaNames,
              from: Origins, n: 0 .. Word]

Std(name, from) == [type |-> name, name |-> name, from |-> from, n |-> 0]
Vsa(name, from) == [type |-> "Vendor-Specific", name |-> name, from |-> from, n |-> 0]
VsaUint32(name, n) == [type |-> "Vendor-Specific", name |-> name, from |-> "limit", n |-> n]

\* Packet.Set, used for MikroTik string attributes.
Set(p, a) == {b \in p : b.type # a.type} \cup {a}

When(condition, S) == IF condition THEN S ELSE {}

-----------------------------------------------------------------------------
(* Precedence: the user's own setting, then the profile's.                 *)

Effective(setting) ==
  IF setting \in user.own THEN "user"
  ELSE IF setting \in user.profile THEN "profile" ELSE "none"

\* effectiveRateLimit: rate_limit or the speeds of the user, then rate_limit
\* or the bandwidths of the profile.
EffectiveRateLimit ==
  IF user.own \cap {"rate", "speed"} # {} THEN "user"
  ELSE IF user.profile \cap {"rate", "bandwidth"} # {} THEN "profile" ELSE "none"

\* Mutant: the profile's int64 is converted without being clamped.
EffectiveOctetsTruncated ==
  IF user.octets > 0 THEN user.octets ELSE user.profileOctets % (Word + 1)

EffectiveMaxTotalOctets ==
  IF user.octets > 0 THEN user.octets
  ELSE IF user.profileOctets > Word THEN Word ELSE user.profileOctets

-----------------------------------------------------------------------------
(* The blocks *)

ReplyInit ==
  /\ user \in {u \in User : Servable(u)}
  /\ stage = "service"
  /\ packet = {}

\* Leave the block with p as the packet.
Step(from, to, p) ==
  /\ stage = from
  /\ stage' = to
  /\ packet' = p
  /\ UNCHANGED user

EmitDNS(setter) == {Vsa("Microsoft-DNS", setter), Vsa("pfSense-DNS", setter)}

ServiceType ==
  Step("service", "ppp",
       packet \cup {Std("Service-Type", IF user.login THEN "login" ELSE "framed")})

\* A pool: Framed-Pool, and MikroTik-Address-Pool by Packet.Set.
WithPool(p, setter) ==
  Set(p \cup {Std("Framed-Pool", setter)}, Vsa("MikroTik-Address-Pool", setter))

FramedIP == When("ip" \in user.own, {Std("Framed-IP-Address", "user")})

\* PPP-layer attributes of a login user with a profile, or the fixed address.
Ppp ==
  LET ppp == packet \cup {Std("Framed-Protocol", "profile")}
      addressed == IF "pool" \in user.profile THEN WithPool(ppp, "profile")
                                              ELSE ppp \cup FramedIP
  IN  Step("ppp", "package",
           IF user.login /\ user.profiled
             THEN addressed
                    \cup When("mask" \in user.profile, {Std("Framed-IP-Netmask", "profile")})
                    \cup When("mtu" \in user.profile, {Std("Framed-MTU", "profile")})
                    \cup When("compression" \in user.profile,
                              {Std("Framed-Compression", "profile")})
                    \cup When("dns" \in user.profile, EmitDNS("profile"))
             ELSE packet \cup FramedIP)

\* Hotspot extras of a framed user with a package.
Package ==
  LET extras == user.packaged /\ ~user.login
  IN  Step("package", "timeouts",
           (IF extras /\ "pool" \in user.package THEN WithPool(packet, "package")
                                                 ELSE packet)
             \cup When(extras /\ "dns" \in user.package, EmitDNS("package")))

\* Mutant: a timeout is sent without asking whether there is one.
TimeoutsUnchecked ==
  Step("timeouts", "mikrotik",
       packet \cup {Std("Session-Timeout", Effective("session")),
                    Std("Idle-Timeout", Effective("idle"))})

Timeouts ==
  Step("timeouts", "mikrotik",
       packet
         \cup When(Effective("session") # "none",
                   {Std("Session-Timeout", Effective("session"))})
         \cup When(Effective("idle") # "none", {Std("Idle-Timeout", Effective("idle"))}))

\* packet after the rate limit and the group, both by Packet.Set.
MikrotikSet(p) ==
  LET limited == IF EffectiveRateLimit = "none" THEN p
                 ELSE Set(p, Vsa("MikroTik-Rate-Limit", EffectiveRateLimit))
  IN  IF "group" \in user.own THEN Set(limited, Vsa("MikroTik-Group", "user")) ELSE limited

\* The bandwidths and the octet limit, by Packet.Add.
BandwidthsAdded(p) ==
  p \cup When(Effective("bandwidth") # "none",
              {Vsa("pfSense-Bandwidth", Effective("bandwidth"))})

OctetsAdded(p) ==
  LET n == EffectiveMaxTotalOctets
  IN  p \cup When(n > 0, {VsaUint32("pfSense-Max-Total-Octets", n),
                          VsaUint32("MikroTik-Total-Limit", n)})

\* Mutant: the bandwidths are added before the rate limit is set.
VendorSwapped ==
  Step("mikrotik", "voucher", OctetsAdded(MikrotikSet(BandwidthsAdded(packet))))

Vendor ==
  Step("mikrotik", "voucher", OctetsAdded(BandwidthsAdded(MikrotikSet(packet))))

\* The rest of a voucher's limit, as one more Session-Timeout.
VoucherRest ==
  Step("voucher", "done",
       packet \cup When(user.remaining, {Std("Session-Timeout", "limit")}))

ReplyNext == ServiceType \/ Ppp \/ Package \/ Timeouts \/ Vendor \/ VoucherRest

ReplySpec == ReplyInit /\ [][ReplyNext]_replyVars

-----------------------------------------------------------------------------

Stages == {"service", "ppp", "package", "timeouts", "mikrotik", "voucher", "done"}

\* The variables have the values their comments say.
ReplyTypeOK == user \in User /\ stage \in Stages /\ packet \subseteq Attribute

Senders(name) == {a.from : a \in {b \in packet : b.name = name}}

\* What the precedence rule lets through for a setting.
Ruling(setting) ==
  IF setting \in user.own THEN {"user"}
  ELSE IF setting \in user.profile THEN {"profile"} ELSE {}

\* However the vendor attributes displace each other on the way, a finished
\* packet carries each timeout and bandwidth that is set, from the user before
\* the profile (auth.go:161-184, docs/adr/003-pppoe-profiles.md:29).  Not so the
\* rate limit, which a group displaces: see ProfileDelivered.
LimitsDelivered ==
  stage = "done" =>
    /\ Senders("Session-Timeout") \ {"limit"} = Ruling("session")
    /\ Senders("Idle-Timeout") = Ruling("idle")
    /\ Senders("pfSense-Bandwidth") = Ruling("bandwidth")
    /\ user.remaining => "limit" \in Senders("Session-Timeout")

Policy == IF user.octets > 0 THEN user.octets ELSE user.profileOctets

\* An octet limit is sent exactly when there is one, in 32 bits and never
\* as more than was set (auth.go:279-291, 181-184).
OctetsWithinPolicy ==
  stage = "done" =>
    LET sent == {a.n : a \in {b \in packet : b.name = "MikroTik-Total-Limit"}}
    IN  /\ sent = {} <=> Policy = 0
        /\ \A n \in sent : n <= Policy /\ n <= Word

\* "PPPoE auth path now emits [...] MikroTik Rate-Limit/Address-Pool/
\* Total-Limit, Microsoft DNS VSAs, and pfSense DNS VSAs when the attached
\* profile provides them." (docs/adr/003-pppoe-profiles.md:35)
ProfileDelivered ==
  stage = "done" /\ user.login /\ user.profiled =>
    /\ "pool" \in user.profile => Senders("MikroTik-Address-Pool") # {}
    /\ "dns" \in user.profile =>
         Senders("Microsoft-DNS") # {} /\ Senders("pfSense-DNS") # {}

=============================================================================
