-------------------------- MODULE SubscriptionParser --------------------------
(***************************************************************************)
(* What a subscription body becomes (internal/parser): a list of nodes, or *)
(* an error.  A body is [form, items].  Its form is                        *)
(*   - "clash": a YAML document with a list "proxies:";                    *)
(*   - "links": share links, one a line;                                   *)
(*   - "base64" and "base64clash": one of these encoded as base64.         *)
(* An item describes one proxy: [type, at, method, name, sound], at its    *)
(* server and port, sound unless a part it needs is missing or malformed.  *)
(* The credentials and the transport end up in the payload, which nothing  *)
(* here looks at.                                                          *)
(***************************************************************************)
EXTENDS Naturals, Sequences, FiniteSets, Functions

\* The schemes parseShareLinks knows.
LinkTypes == {"shadowsocks", "trojan", "vless", "hysteria2", "anytls"}

\* The types sing-box knows of those that occur here: for any other
\* `sing-box check` rejects the whole configuration.
KnownTypes == LinkTypes \cup {"vmess", "socks", "http"}

Failed == [ok |-> FALSE, nodes |-> <<>>]
Parsed(nodes) == [ok |-> TRUE, nodes |-> nodes]

Node(key, item) == [key |-> key, proxy |-> item]

\* A link without a name is named after its server.
LinkName(item) == IF item.name = "" THEN item.at ELSE item.name

\* parseSS: the method is in the key.
ParseSS(item) == Node(<<item.type, item.at, item.method, LinkName(item)>>, item)

\* parseTrojan, parseVLESS, parseHysteria2 and parseAnyTLS, alike but for the payload.
ParseURL(item) == Node(<<item.type, item.at, LinkName(item)>>, item)

LinkNode(item) == IF item.type = "shadowsocks" THEN ParseSS(item) ELSE ParseURL(item)

\* The items at some places of a list, in their order.
ItemsAt(items, places) ==
    [n \in 1..Cardinality(places) |->
        items[CHOOSE k \in places : Cardinality({i \in places : i <= k}) = n]]

\* A plausible bug: a malformed link is skipped like an unsupported one.
ParseShareLinksSkipping(items) ==
    LET supported == ItemsAt(items, {k \in DOMAIN items : items[k].type \in LinkTypes /\ items[k].sound})
    IN  IF supported = <<>> /\ items # <<>> THEN Failed
        ELSE Parsed([k \in DOMAIN supported |-> LinkNode(supported[k])])

\* A malformed link of a supported scheme fails the body, an unsupported one is
\* skipped; a body with nothing else fails, an empty one does not.
ParseShareLinks(items) ==
    LET supported == ItemsAt(items, {k \in DOMAIN items : items[k].type \in LinkTypes})
    IN  IF \E item \in Range(supported) : ~item.sound THEN Failed
        ELSE IF supported = <<>> /\ items # <<>> THEN Failed
        ELSE Parsed([k \in DOMAIN supported |-> LinkNode(supported[k])])

\* A plausible bug: the method is part of every key, as it is for shadowsocks links.
ClashNodeWithMethod(item) == Node(<<item.type, item.at, item.method, item.name>>, item)

\* clashProxyToNode: the method is not in the key.
ClashNode(item) == Node(<<item.type, item.at, item.name>>, item)

\* Types it has no case for become nodes like the others.
ParseClash(items) ==
    IF \E item \in Range(items) : ~item.sound \/ item.name = "" THEN Failed
    ELSE Parsed([k \in DOMAIN items |-> ClashNode(items[k])])

\* ParseSubscription: encoded text is an unsupported line at first, and is read as
\* share links once decoded, which Clash is not.
ParseSubscription(body) ==
    CASE body.form = "clash" -> ParseClash(body.items)
      [] body.form \in {"links", "base64"} -> ParseShareLinks(body.items)
      [] body.form = "base64clash" -> Failed
=============================================================================
