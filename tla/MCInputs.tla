------------------------------- MODULE MCInputs -------------------------------
(* What enters the launcher from outside: a profile that is uploaded, session *)
(* identifiers that become addresses, a command that is typed.  The three     *)
(* share nothing, so only one of them moves in a behaviour.                   *)
EXTENDS Profile, SessionAddresses, CommandLine

MCGood(path) == [host |-> "gateway", path |-> path, fault |-> "none"]
MCURLs == {Nothing, MCGood("/a"), MCGood("/b")}
MCAnyURL ==
    {MCGood("/a"), MCGood("/b"), [host |-> "placeholder", path |-> "/a", fault |-> "unsuitable"],
     [host |-> "none", path |-> "", fault |-> "unreadable"]}

\* What each field can hold in a place.
MCValues ==
    [f \in NativeFields \cup BlockFields |->
        CASE f \in {"protocol", "transport", "mode"} -> {"right", "wrong"}
          [] f = "port" -> {"443", "8443"}
          [] f = "url" -> MCAnyURL
          [] f = "path" -> {"/a", "/b", "unclean"}
          [] f = "listen" -> {"51820", "51821", "elsewhere"}
          [] f \in {"private", "public", "serverKey", "psk"} -> {"key", "other key", "placeholder"}
          [] f = "address" -> {{}, {"v4"}, {"v6"}, {"v4", "v6"}, {"v4-bare"}, {"junk"}}
          [] f = "allowed" -> {{}, {"all-v4"}, {"all-v4", "all-v6"}, {"host-bits"}, {"bare"}, {"junk"}}
          [] f = "mtu" -> {1199, 1200, 1280, 1420, 1421}
          [] f = "keepalive" -> {-1, 0, 25, 60, 61}
          [] f = "dns" -> {"1.1.1.1", "9.9.9.9", "by-semicolons", "name"}
          [] f = "remote" -> {"gateway", "placeholder"}
          [] f = "remotePort" -> {"0", "443", "51820", "51821"}
          [] f = "carrier" -> {"websocket", "other"}
          [] OTHER -> {"/a", "/b"}]

\* The number of places of each field.
MCNativePlaces ==
    [f \in NativeFields \cup BlockFields |->
        CASE f \in {"protocol", "transport", "port", "mode"} -> 1
          [] f \in BlockFields -> 0
          [] OTHER -> 2]

MCBlockPlaces ==
    [f \in NativeFields \cup BlockFields |->
        CASE f \in {"protocol", "transport", "port", "public"} -> 0
          [] f \in {"url", "path", "listen", "mode", "address", "allowed"} -> 2
          [] f = "serverKey" -> 5
          [] f \in {"psk", "keepalive"} -> 4
          [] f \in {"remote", "remotePort"} -> 3
          [] OTHER -> 1]

\* A document that states a few fields in the given place, or in the last.
MCStating(kind, places, usual, at) ==
    [kind |-> kind, section |-> TRUE, found |-> TRUE,
     says |-> [f \in NativeFields \cup BlockFields |->
        [i \in 1 .. places[f] |->
            IF f \in DOMAIN usual /\ i = (IF at <= places[f] THEN at ELSE places[f])
            THEN usual[f] ELSE Nothing]]]

MCUsual ==
    [url |-> MCGood("/a"), private |-> "key", serverKey |-> "key", address |-> {"v4"},
     allowed |-> {"all-v4"}]

MCWithoutURL == [private |-> "key", serverKey |-> "key", address |-> {"v4"}]

MCBases ==
    {MCStating("native", MCNativePlaces, MCUsual, 1), MCStating("native", MCNativePlaces, MCUsual, 2),
     MCStating("singbox", MCBlockPlaces, MCUsual, 2),
     MCStating("singbox", MCBlockPlaces, MCWithoutURL, 1)}

\* The fields whose values depend on each other.
MCLinked ==
    {"url", "path", "mode", "private", "address", "allowed", "listen", "remote", "remotePort",
     "carrier", "carrierPath"}

\* One place of one of the fields holding another value.
MCVaried(d, fields) ==
    UNION {UNION {{[d EXCEPT !.says[f][i] = v] : v \in MCValues[f] \cup {Nothing}} :
                     i \in DOMAIN d.says[f]} : f \in fields}

\* Every document that differs from a usual one in one place, or in two places of
\* linked fields, and the ones that are broken as a whole.
MCDocuments ==
    UNION {MCVaried(d, DOMAIN d.says) : d \in MCBases}
    \cup UNION {UNION {MCVaried(e, MCLinked) : e \in MCVaried(d, MCLinked)} : d \in MCBases}
    \cup {[d EXCEPT !.found = FALSE] : d \in {e \in MCBases : e.kind = "singbox"}}
    \cup {[d EXCEPT !.kind = "unreadable"] : d \in MCBases}
    \cup {[MCStating("native", MCNativePlaces, MCUsual, 2) EXCEPT !.section = FALSE]}

\* Every pair of two bytes is the hash of a session.
MCBytes == {0, 1, 62, 63, 64, 127, 255}
MCSessions == MCBytes \X MCBytes
MCDigest == [s \in MCSessions |-> s]
MCGiven == {[third |-> 65, fourth |-> 2], [third |-> 65, fourth |-> 5]}

-------------------------------------------------------------------------------

Init == UploadInit /\ LinksInit /\ FieldInit

Next ==
    \/ LinksInit /\ FieldInit /\ UploadNext /\ UNCHANGED <<links, typed>>
    \/ UploadInit /\ FieldInit /\ LinksNext /\ UNCHANGED <<uploadVars, typed>>
    \/ UploadInit /\ LinksInit /\ FieldNext /\ UNCHANGED <<uploadVars, links>>

Spec == Init /\ [][Next]_<<uploadVars, links, typed>>
===============================================================================
