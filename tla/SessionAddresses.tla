--------------------------- MODULE SessionAddresses ---------------------------
(***************************************************************************)
(* The links of isolated sessions between the host and their namespaces:   *)
(* internal/planner/isolated.go derives both addresses from the SHA-256 of *)
(* the session identifier where the request gives none, and checks what it *)
(* then has.  An address is its last two bytes, 169.254 being the first,   *)
(* and every prefix has length 30, as the derived ones do.                 *)
(***************************************************************************)
EXTENDS Naturals, FiniteSets

CONSTANTS
    Sessions,   \* session identifiers
    Digest,     \* the first two bytes of the hash of each
    Given,      \* addresses a request can give
    None,       \* what it leaves out
    MaxLinks    \* sessions at a time, a bound of the model

Address == [third : 0 .. 255, fourth : 0 .. 255]

ASSUME AddressAssumption ==
    /\ Digest \in [Sessions -> [1 .. 2 -> 0 .. 255]]
    /\ Given \subseteq Address
    /\ None \notin Given

VARIABLE links   \* the links on the host

Link == [session : Sessions, host : Address, namespace : Address]

\* netip.Prefix.Masked: the block an address is in.
Masked(address) == <<address.third, address.fourth \div 4>>

ThirdByte(first) == 64 + (first % 64)

\* A derivation that forgot the size of a block.
BlockUnspaced(second) == second % 63

Block(second) == (second % 63) * 4

\* defaultVethAddressPair
DefaultHost(s) == [third |-> ThirdByte(Digest[s][1]), fourth |-> Block(Digest[s][2]) + 1]
DefaultNamespace(s) == [third |-> ThirdByte(Digest[s][1]), fourth |-> Block(Digest[s][2]) + 2]

FirstGiven(raw, default) == IF raw = None THEN default ELSE raw

\* normalizeVethAddresses, then the configuration of both ends.
Start(s, rawHost, rawNamespace, rawGateway) ==
    LET host == FirstGiven(rawHost, DefaultHost(s))
        namespace == FirstGiven(rawNamespace, DefaultNamespace(s))
        gateway == FirstGiven(rawGateway, DefaultHost(s))
    IN  /\ Cardinality(links) < MaxLinks
        /\ \A link \in links : link.session # s
        /\ gateway = host
        /\ Masked(host) = Masked(namespace)
        /\ links' = links \cup {[session |-> s, host |-> host, namespace |-> namespace]}

Stop(s) == links' = {link \in links : link.session # s}

LinksInit == links = {}

LinksNext ==
    \E s \in Sessions :
        \/ \E h, n, g \in Given \cup {None} : Start(s, h, n, g)
        \/ Stop(s)

LinksSpec == LinksInit /\ [][LinksNext]_links

-------------------------------------------------------------------------------

TypeOK == links \subseteq Link

\* Whether the request left the addresses of a link to the launcher.
Derived(link) ==
    link.host = DefaultHost(link.session) /\ link.namespace = DefaultNamespace(link.session)

\* What the derivation keeps of two hashes agrees: one pair of sessions in 4032.
SameBits(s, t) ==
    Digest[s][1] % 64 = Digest[t][1] % 64 /\ Digest[s][2] % 63 = Digest[t][2] % 63

\* Derived ends can talk: two different hosts of one prefix, neither its network
\* nor its broadcast address, in 169.254.64.0/18 (defaultVethAddressPair).
EndsCanTalk ==
    \A link \in links : Derived(link) =>
        /\ Masked(link.host) = Masked(link.namespace)
        /\ link.host.fourth % 4 = 1 /\ link.namespace.fourth % 4 = 2
        /\ link.host.third \in 64 .. 127

\* Derived links of two sessions that run at the same time are in different
\* prefixes, so that the host reaches each namespace by its own route, unless
\* what the derivation keeps of their hashes agrees (nothing else tells them apart).
LinksApart ==
    \A a, b \in links :
        a.session # b.session /\ Derived(a) /\ Derived(b) =>
            (Masked(a.host) = Masked(b.host) <=> SameBits(a.session, b.session))
===============================================================================
