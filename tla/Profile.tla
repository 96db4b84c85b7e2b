-------------------------------- MODULE Profile --------------------------------
(***************************************************************************)
(* Saving a profile: the document a user chose, the WSTunnel URL pasted    *)
(* beside it, the parser of internal/profile/profile.go with its two       *)
(* formats, the upload handler of internal/desktop/app.go, and the checks  *)
(* that a connect makes later, in its plan and in the middle of its steps. *)
(* A document states a field in one of several places, in order of         *)
(* precedence; a place without a value (or with blanks) holds Nothing.     *)
(* Names, the server field, SNI and the TLS name are left out.             *)
(***************************************************************************)
EXTENDS Integers, Sequences, SequencesExt

CONSTANTS
    Documents,  \* the documents a user can choose: see Document
    URLs,       \* the URLs a user can paste: see URL
    Nothing     \* no value

VARIABLES
    document,   \* the document chosen on the page
    pasted,     \* the URL field of the page
    current,    \* profiles/current.json
    answer      \* "none", "saved", "refused", or "paste": refused, asking for a URL

uploadVars == <<document, pasted, current, answer>>

\* fault: "none", something url.Parse lets through (a placeholder host, another
\* scheme or port, a query), or "unreadable".
URL == [host : STRING, path : STRING, fault : {"none", "unsuitable", "unreadable"}]

Lists == {"address", "allowed"}
NativeFields ==
    {"protocol", "transport", "port", "mode", "url", "path", "listen", "private", "public",
     "serverKey", "psk", "mtu", "keepalive", "dns"} \cup Lists

\* What a sing-box block says of its remote, and how it is reached.
BlockFields == {"remote", "remotePort", "carrier", "carrierPath"}

\* The classes of an address: with a prefix length, without one, unreadable.
Addresses == {"v4", "v6", "v4-bare", "v6-bare", "junk"}

\* "unreadable": no JSON object.  section: root.wstunnel is an object or absent.
\* found: a sing-box document has a WireGuard block.  says: the values of each
\* field, the place that wins first; place 1 of "url" and "mode" is
\* root.wstunnel in both formats.
IsDocument(d) ==
    /\ DOMAIN d = {"kind", "section", "found", "says"}
    /\ d.kind \in {"unreadable", "native", "singbox"}
    /\ d.section \in BOOLEAN /\ d.found \in BOOLEAN
    /\ DOMAIN d.says = NativeFields \cup BlockFields
    /\ \A f \in DOMAIN d.says : d.says[f] \in Seq(Range(d.says[f]))
    /\ \A f \in {"url", "mode"} : d.says[f] # <<>>
    /\ Range(d.says["address"]) \subseteq (SUBSET Addresses) \cup {Nothing}
    /\ ~d.section => \A f \in {"url", "mode", "path", "listen"} : d.says[f][1] = Nothing

ASSUME ProfileAssumption ==
    /\ \A d \in Documents : IsDocument(d)
    /\ Nothing \notin Documents
    /\ Nothing \notin {"1.1.1.1", "443", "51820", 25, 1280}

-------------------------------------------------------------------------------
\* Which of several places counts

\* mergeWSTunnel, mergeWireGuard, mergeSingBoxWSTunnel, firstNonEmpty, firstAny,
\* firstIntPointer: the first place with a value.
FirstStated(places, blank) ==
    LET stated == {i \in DOMAIN places : places[i] \notin blank}
    IN  IF stated = {} THEN Nothing ELSE places[Min(stated)]

\* An empty list is a value in a native profile (nested.Address == nil), and
\* none in a sing-box block (firstAny).
Stated(d, f) ==
    FirstStated(d.says[f], {Nothing} \cup (IF d.kind = "singbox" /\ f \in Lists THEN {{}} ELSE {}))

Or(value, default) == IF value = Nothing THEN default ELSE value

\* Defaults that ignore the addresses.
DefaultAllowedBoth(addresses) == {"all-v4", "all-v6"}

\* defaultAllowedIPsForAddresses
DefaultAllowed(addresses) ==
    LET of(family) == \E a \in addresses : a \in family
        four == of({"v4", "v4-bare"})
        six == of({"v6", "v6-bare"})
    IN  (IF four \/ ~six THEN {"all-v4"} ELSE {}) \cup (IF six \/ ~four THEN {"all-v6"} ELSE {})

\* singBoxTransportWSTunnelURL: websocket to port 443, or nothing.
TransportURL(d) ==
    IF /\ Stated(d, "carrier") = "websocket"
       /\ Stated(d, "remote") # Nothing
       /\ Or(Stated(d, "remotePort"), "443") \in {"443", "0"}
    THEN [host |-> Stated(d, "remote"), path |-> Or(Stated(d, "carrierPath"), "/"),
          fault |-> IF Stated(d, "remote") = "placeholder" THEN "unsuitable" ELSE "none"]
    ELSE Nothing

\* singBoxLocalUDPListen asks the same places in the opposite order.
LocalPort(d) ==
    LET port == FirstStated(Reverse(d.says["remotePort"]), {Nothing})
    IN  IF port \in {Nothing, "0", "443"} THEN "51820" ELSE port

\* The rawConfig that normalize gets: as written, or as parseSingBoxWGWS makes it.
Raw(d) ==
    LET says == [f \in NativeFields |-> Stated(d, f)]
    IN  IF d.kind = "native" THEN says
        ELSE [says EXCEPT !.protocol = "right", !.transport = "right", !.port = "443",
                          !.url = Or(@, TransportURL(d)),
                          !.listen = Or(@, LocalPort(d)),
                          !.allowed = Or(@, DefaultAllowed(Or(says.address, {}))),
                          !.mtu = Or(@, 1280),
                          !.keepalive = Or(@, 25),
                          !.dns = Or(@, "1.1.1.1")]

-------------------------------------------------------------------------------
\* normalize

\* looksLikeWGWSProfile: then the rest may be left out.
LooksRight(raw) == raw.url # Nothing \/ raw.private # Nothing

UrlPath(url) == IF url = Nothing THEN Nothing ELSE IF url.fault = "unreadable" THEN Nothing ELSE url.path

\* The path is stated and is not the URL's.
PathDiffers(raw) ==
    raw.path \notin {Nothing, "unclean"} /\ UrlPath(raw.url) \notin {Nothing, raw.path}

KeyIsBad(key) == key = "placeholder"

\* Bounds that took one value more.
NumberIsBadWide(f, n) ==
    IF f = "mtu" THEN n \notin 1200 .. 1421 ELSE n \notin 0 .. 60

NumberIsBad(f, n) ==
    IF f = "mtu" THEN n \notin 1200 .. 1420 ELSE n \notin 0 .. 60

\* The fields normalize has a problem with.
ProblemFields(raw) ==
    {f \in {"protocol", "transport"} :
        raw[f] # "right" /\ ~(raw[f] = Nothing /\ LooksRight(raw))}
    \cup {f \in {"port"} : raw[f] \notin {Nothing, "443"}}
    \cup {f \in {"mode"} : raw[f] \notin {Nothing, "right"}}
    \cup {f \in {"url"} : raw[f] = Nothing \/ raw[f].fault # "none"}
    \cup {f \in {"path"} : raw[f] = "unclean" \/ PathDiffers(raw)}
    \cup {f \in {"listen"} : IF raw[f] = Nothing THEN ~LooksRight(raw) ELSE raw[f] = "elsewhere"}
    \cup {f \in {"private", "serverKey"} : raw[f] = Nothing \/ KeyIsBad(raw[f])}
    \cup {f \in {"public", "psk"} : KeyIsBad(raw[f])}
    \cup {f \in {"address"} : raw[f] \in {Nothing, {}} \/ "junk" \in raw[f]}
    \cup {f \in {"allowed"} : raw[f] \in {Nothing, {}} \/ raw[f] \cap {"junk", "bare"} # {}}
    \cup {f \in {"mtu", "keepalive"} :
            IF raw[f] = Nothing THEN ~LooksRight(raw) ELSE NumberIsBad(f, raw[f])}

\* ParseWGWS: nothing is wrong with the document.
Parses(d) ==
    /\ d.kind # "unreadable" /\ d.section
    /\ d.kind = "singbox" => d.found /\ Raw(d).url # Nothing
    /\ ProblemFields(Raw(d)) = {}

\* The Config of a document that parses.
Config(d) ==
    [Raw(d) EXCEPT !.protocol = "right", !.transport = "right", !.port = "443",
                   !.path = Or(@, UrlPath(Raw(d).url)), !.listen = Or(@, "51820"),
                   !.mtu = Or(@, 1280), !.keepalive = Or(@, 25)]

-------------------------------------------------------------------------------
\* The upload

\* profileValidationNeedsWSTunnelURL looks for the words in the problems: the
\* URL's own, the path that must match it, and the block without one.
AsksForURL(d) ==
    /\ d.kind # "unreadable" /\ d.section
    /\ IF d.kind = "singbox" /\ (~d.found \/ Raw(d).url = Nothing)
       THEN d.found
       ELSE "url" \in ProblemFields(Raw(d)) \/ PathDiffers(Raw(d))

\* A URL put where every other place comes before it.
WithURLLast(d, url) ==
    [d EXCEPT !.section = TRUE,
              !.says["url"] = Append(@, url),
              !.says["mode"][1] = Or(@, "right")]

\* profilePayloadWithWSTunnelURL: root.wstunnel gets the URL, and is made anew
\* if it is no object.
WithURL(d, url) ==
    [d EXCEPT !.section = TRUE,
              !.says["url"][1] = url,
              !.says["mode"][1] = Or(@, "right")]

\* The document that was parsed in place of the one to save.
ToSaveAsChosen(d, url) == d

\* payloadToSave
ToSave(d, url) ==
    IF Parses(d) \/ url = Nothing \/ d.kind = "unreadable" THEN d ELSE WithURL(d, url)

Accepts(d, url) ==
    \/ Parses(d)
    \/ url # Nothing /\ d.kind # "unreadable" /\ Parses(WithURL(d, url))

Choose ==
    /\ document = Nothing
    /\ document' \in Documents
    /\ UNCHANGED <<pasted, current, answer>>

Paste(url) ==
    /\ pasted' = url
    /\ answer' = "none"
    /\ UNCHANGED <<document, current>>

Save ==
    /\ document # Nothing
    /\ IF Accepts(document, pasted)
       THEN current' = ToSave(document, pasted) /\ answer' = "saved"
       ELSE /\ answer' = IF AsksForURL(ToSave(document, pasted)) THEN "paste" ELSE "refused"
            /\ UNCHANGED current
    /\ UNCHANGED <<document, pasted>>

UploadInit == document = Nothing /\ pasted = Nothing /\ current = Nothing /\ answer = "none"

UploadNext == Choose \/ (\E url \in URLs : Paste(url)) \/ Save

UploadSpec == UploadInit /\ [][UploadNext]_uploadVars

-------------------------------------------------------------------------------
\* Properties

\* Whatever was tried, the profile on disk is one the parser takes, so that the
\* daemon and the CLI, which parse it again, take it too (payloadToSave).
SavedParses == current # Nothing => Parses(current)

\* A user who is told to paste the WSTunnel URL and pastes a sound one is not
\* told so again, unless the document itself states another path: then the
\* advice leads nowhere (profileValidationNeedsWSTunnelURL takes the mismatch for
\* a missing URL).
AdviceIsOfUse ==
    answer = "paste" /\ pasted # Nothing /\ pasted.fault = "none" =>
        Stated(document, "path") \notin {Nothing, pasted.path}

\* What a field may be when the document does not state it: README.md and
\* docs/isolated-app-tunnel.md name these defaults.
Default(d, f) ==
    CASE f = "listen" -> IF d.kind = "singbox" THEN LocalPort(d) ELSE "51820"
      [] f = "mtu" -> 1280
      [] f = "keepalive" -> 25
      [] f = "dns" -> IF d.kind = "singbox" THEN "1.1.1.1" ELSE Nothing
      [] f = "path" -> Config(d).url.path
      [] f = "allowed" ->
            {route \in {"all-v4", "all-v6"} :
                Config(d).address \cap (IF route = "all-v4" THEN {"v4", "v4-bare"} ELSE {"v6", "v6-bare"}) # {}}
      [] f = "url" -> TransportURL(d)
      [] OTHER -> Nothing

\* Both formats, and every place in them, mean what they say: a field of the
\* configuration was stated for it in the document, or nowhere, and then it is
\* the default; no value is dropped, and none comes from another field.
ConfigIsFaithful ==
    current # Nothing /\ Parses(current) =>
        \A f \in NativeFields \ {"protocol", "transport", "port", "mode"} :
            LET stated == {v \in Range(current.says[f]) : v # Nothing /\ (f \in Lists => v # {})}
            IN  IF stated = {} THEN Config(current)[f] = Default(current, f)
                ELSE Config(current)[f] \in stated

\* What a connect asks of a configuration, in the order in which it does.
\* normalizeDNSServers, before there is any effect: every word between commas,
\* semicolons and blanks is an address ("name": one is not).
DNSTaken(config) == config.dns # "name"

\* normalizeIsolatedDNS, for a start without -dns: semicolons do not separate
\* here, and there has to be a server.
IsolatedDNSTaken(config) == config.dns \notin {Nothing, "name", "by-semicolons"}

\* wireguard.Config.Validate and WireGuardAddAddressCommand, which look at the
\* configuration when the interface is set up.
InterfaceTaken(config) ==
    /\ config.private # Nothing /\ config.serverKey # Nothing /\ config.listen # Nothing
    /\ config.address # {} /\ config.address \subseteq {"v4", "v6"}
    /\ config.allowed # {} /\ config.allowed \cap {"junk", "bare"} = {}
    /\ config.mtu \in 1200 .. 1420 /\ config.keepalive \in 0 .. 60

\* WireGuardRouteReplaceCommand hands the prefix on as it was written, and
\* 'ip -4 route replace' refuses one with bits beyond its length.
RoutesTaken(config) == "host-bits" \notin config.allowed

CanBeConnected(config) == DNSTaken(config) /\ InterfaceTaken(config) /\ RoutesTaken(config)
CanBeIsolated(config) == IsolatedDNSTaken(config) /\ InterfaceTaken(config) /\ RoutesTaken(config)

\* Which of the profiles that were accepted are refused later, and no others.
\* Before any effect: a DNS server that is no address; for an isolated session
\* also a list with semicolons, or none.  In the middle of a connect, when
\* exclusions, wstunnel and the interface are there: an address without a prefix
\* length (validAddressOrPrefix) and a route with host bits.
AcceptedCanBeApplied ==
    current # Nothing /\ Parses(current) =>
        LET config == Config(current)
            prefixes == /\ config.address \cap {"v4-bare", "v6-bare"} = {}
                        /\ "host-bits" \notin config.allowed
        IN  /\ CanBeConnected(config) <=> prefixes /\ config.dns # "name"
            /\ CanBeIsolated(config) <=>
                    prefixes /\ config.dns \notin {Nothing, "name", "by-semicolons"}
===============================================================================
