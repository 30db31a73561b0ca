------------------------------- MODULE Hunters -------------------------------
(***************************************************************************)
(* What the hunters' plugins (hunter/*.py) make of one indicator. What     *)
(* they learn from the network (DNS, Spamhaus) is an answer, and any       *)
(* answer may come at any time.                                            *)
(*                                                                         *)
(* The hunters send what they make back to the router, which copies it to  *)
(* the hunters again if its confidence is HUNTER_MIN_CONFIDENCE or more.   *)
(* Descends orders indicators so that this feedback dies out.              *)
(*                                                                         *)
(* An indicator keeps what a plugin or the router decides by. Indicators   *)
(* that agree in it are one. Confidence is a whole number: the router      *)
(* compares its integer part. One that is no number is left out.           *)
(***************************************************************************)
EXTENDS Integers, Sequences

CONSTANTS Plugins,     \* the plugins that are enabled, in the order of loading
          Answers      \* what the network may answer

HUNTER_MIN_CONFIDENCE == 1

\* "subdomain" is a name below a registered domain, "net24" an IPv4 prefix
\* that ends with /24, "ipv4" any other IPv4 address or prefix.
Itypes == {"url", "fqdn", "subdomain", "ipv4", "net24", "ipv6", "other"}
Tags == {"search", "pdns", "whitelist", "malware"}
Providers == {"peer", "spamhaus.org"}
PluginNames == {"farsight", "fqdn", "fqdn_subdomain",
                "ipv4_resolve_prefix_whitelist", "spamhaus", "url"}

Indicator == [itype : Itypes, confidence : Int, tags : SUBSET Tags,
              provider : Providers]

\* What a name resolves to; the names of its servers, mail exchanges and
\* aliases; what its servers resolve to; what a host or parent name is; the
\* confidences with which Spamhaus lists an indicator.
Answer == [rdata : SUBSET Itypes, names : SUBSET Itypes,
           nsdata : SUBSET Itypes, host : SUBSET {"fqdn", "subdomain", "ipv4", "ipv6"},
           listed : SUBSET Nat]

ASSUME HuntersAssumption ==
    /\ Plugins \in Seq(PluginNames) /\ Plugins # <<>>
    /\ Answers \subseteq Answer /\ Answers # {}

-----------------------------------------------------------------------------
IsFqdn(i) == i.itype \in {"fqdn", "subdomain"}
IpTypes == {"ipv4", "net24", "ipv6"}

\* A copy with some attributes changed; provider and all else are inherited.
Copy(i, itype, confidence, tags) ==
    [i EXCEPT !.itype = itype, !.confidence = confidence, !.tags = tags]

\* A passive-DNS record of an address: the original name is only its rdata.
Pdns(i, itype) == Copy(i, itype, 4, {"pdns"})

\* Mutant: names inherit the confidence.
NameOfHunted(i, itype) == Copy(i, itype, i.confidence, i.tags)

\* The names around a name are kept as context and are not hunted.
NameOf(i, itype) == Copy(i, itype, 0, i.tags)

ResolvedTo(i, itype) ==
    Copy(i, itype, IF i.confidence > 0 THEN i.confidence - 1 ELSE 0, i.tags)

FqdnOutput(i, a) ==
    IF ~IsFqdn(i) \/ "pdns" \in i.tags THEN {}
    ELSE {ResolvedTo(i, t) : t \in a.rdata}
         \cup {Pdns(i, t) : t \in a.rdata \cap IpTypes}
         \cup {NameOf(i, t) : t \in a.names}
         \cup {Pdns(i, t) : t \in a.nsdata}

SubdomainOutput(i, a) ==
    IF i.itype = "subdomain" THEN {NameOf(i, t) : t \in a.host \ IpTypes} ELSE {}

\* A search for a URL may have confidence 0, and its host gets -2.
UrlOutput(i, a) ==
    IF i.itype = "url"
    THEN {Copy(i, t, IF i.confidence = 1 THEN 0 ELSE i.confidence - 2, i.tags) :
             t \in a.host}
    ELSE {}

WhitelistOutput(i) ==
    IF i.itype = "ipv4" /\ "whitelist" \in i.tags
    THEN {Copy(i, "net24", 2, {"whitelist"})}
    ELSE {}

SpamhausOutput(i, a) ==
    IF i.provider = "spamhaus.org" THEN {}
    ELSE {[i EXCEPT !.provider = "spamhaus.org", !.confidence = c] : c \in a.listed}

\* The plugin's own test of whether it applies returns None in every case.
FarsightOutput(i) == {}

Output(p, i, a) ==
    CASE p = "fqdn" -> FqdnOutput(i, a)
      [] p = "fqdn_subdomain" -> SubdomainOutput(i, a)
      [] p = "url" -> UrlOutput(i, a)
      [] p = "ipv4_resolve_prefix_whitelist" -> WhitelistOutput(i)
      [] p = "spamhaus" -> SpamhausOutput(i, a)
      [] p = "farsight" -> FarsightOutput(i)

\* The router hands an indicator to the hunters.
Huntable(i) == i.confidence >= HUNTER_MIN_CONFIDENCE

-----------------------------------------------------------------------------
\* o comes after i: listed by Spamhaus at last, or widened to a prefix, or
\* turned into passive DNS, or of less confidence, in this order of weight.
\* Among huntable indicators no descent is infinite.
Unlisted(i) == IF i.provider = "spamhaus.org" THEN 0 ELSE 1
Narrow(i) == IF i.itype = "net24" THEN 0 ELSE 1
Plain(i) == IF "pdns" \in i.tags THEN 0 ELSE 1

Descends(o, i) ==
    \/ Unlisted(o) < Unlisted(i)
    \/ /\ Unlisted(o) = Unlisted(i)
       /\ \/ Narrow(o) < Narrow(i)
          \/ /\ Narrow(o) = Narrow(i)
             /\ \/ Plain(o) < Plain(i)
                \/ Plain(o) = Plain(i) /\ o.confidence < i.confidence
=============================================================================
