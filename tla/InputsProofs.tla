------------------------------ MODULE InputsProofs ------------------------------
(***************************************************************************)
(* What enters from outside, for any documents, URLs, sessions and hashes: *)
(* the profiles of Profile, from facts about the places of a field, the    *)
(* addresses of SessionAddresses, from arithmetic on two bytes, and the    *)
(* commands of CommandLine, from induction on the text as a fact about     *)
(* sets: a set of numbers has a least one, so a loop has one trace.        *)
(***************************************************************************)
EXTENDS Profile, SessionAddresses, CommandLine, SequenceTheorems, WellFoundedInduction, TLAPS

\* A set of numbers has a least one.
LEMMA Least ==
    ASSUME NEW S \in SUBSET Nat, S # {}
    PROVE  Min(S) \in S /\ \A j \in S : Min(S) <= j
<1> DEFINE R == {ss \in Nat \X Nat : ss[1] < ss[2]}
<1>1. IsWellFoundedOn(R, Nat)
  BY NatLessThanWellFounded DEF OpToRel
<1>2. PICK i \in S : \A j \in S : ~(<<j, i>> \in R)
  <2> HIDE DEF R
  <2> QED
    BY <1>1, WFMin
<1>3. ASSUME NEW j \in S PROVE i <= j
  <2>1. i \in Nat /\ j \in Nat
    OBVIOUS
  <2>2. j < i => <<j, i>> \in R
    BY <2>1, Zenon
  <2> QED
    BY <1>2, <2>1, <2>2
<1> QED
  BY <1>3 DEF Min

\* FirstStated returns what some place states, the first that states something.
LEMMA FirstStatedIsOne ==
    ASSUME NEW T, NEW places \in Seq(T), NEW blank
    PROVE  \/ /\ FirstStated(places, blank) = Nothing
              /\ \A v \in Range(places) : v \in blank
           \/ FirstStated(places, blank) \in Range(places) \ blank
<1> DEFINE stated == {i \in DOMAIN places : places[i] \notin blank}
<1>1. CASE stated = {}
  BY <1>1 DEF FirstStated, Range
<1>2. CASE stated # {}
  <2>1. stated \in SUBSET Nat
    OBVIOUS
  <2>2. Min(stated) \in stated
    BY <1>2, <2>1, Least
  <2> QED
    BY <1>2, <2>2 DEF FirstStated, Range
<1> QED
  BY <1>1, <1>2

\* The first place wins if it states something.
LEMMA FirstPlaceWins ==
    ASSUME NEW T, NEW places \in Seq(T), NEW blank, places # <<>>, places[1] \notin blank
    PROVE  FirstStated(places, blank) = places[1]
<1> DEFINE stated == {i \in DOMAIN places : places[i] \notin blank}
<1>1. 1 \in stated /\ stated \in SUBSET Nat /\ \A i \in stated : 1 <= i
  OBVIOUS
<1>2. Min(stated) \in stated /\ Min(stated) <= 1
  BY <1>1, Least
<1>3. Min(stated) = 1
  BY <1>1, <1>2
<1> QED
  BY <1>1, <1>3 DEF FirstStated

-------------------------------------------------------------------------------
\* What the parser makes of a document

Plain == {"path", "private", "public", "serverKey", "psk", "address", "mode"}

\* The fields of Raw, with the defaults of a sing-box block.
LEMMA RawFields ==
    ASSUME NEW d
    PROVE  /\ d.kind = "native" => \A f \in NativeFields : Raw(d)[f] = Stated(d, f)
           /\ \A f \in Plain : Raw(d)[f] = Stated(d, f)
           /\ d.kind # "native" =>
                /\ Raw(d).url = Or(Stated(d, "url"), TransportURL(d))
                /\ Raw(d).listen = Or(Stated(d, "listen"), LocalPort(d))
                /\ Raw(d).allowed =
                    Or(Stated(d, "allowed"), DefaultAllowed(Or(Stated(d, "address"), {})))
                /\ Raw(d).mtu = Or(Stated(d, "mtu"), 1280)
                /\ Raw(d).keepalive = Or(Stated(d, "keepalive"), 25)
                /\ Raw(d).dns = Or(Stated(d, "dns"), "1.1.1.1")
           /\ DOMAIN Raw(d) = NativeFields
<1> DEFINE says == [f \in NativeFields |-> Stated(d, f)]
<1>1. CASE d.kind = "native"
  <2>1. Raw(d) = says
    BY <1>1 DEF Raw
  <2> QED
    BY <1>1, <2>1 DEF Plain, NativeFields, Lists
<1>2. CASE d.kind # "native"
  <2>1. Raw(d) = [says EXCEPT !.protocol = "right", !.transport = "right", !.port = "443",
                              !.url = Or(@, TransportURL(d)),
                              !.listen = Or(@, LocalPort(d)),
                              !.allowed = Or(@, DefaultAllowed(Or(says.address, {}))),
                              !.mtu = Or(@, 1280),
                              !.keepalive = Or(@, 25),
                              !.dns = Or(@, "1.1.1.1")]
    BY <1>2 DEF Raw
  <2>2. DOMAIN Raw(d) = NativeFields
    <3>1. DOMAIN says = NativeFields
      OBVIOUS
    <3> DEFINE first == [says EXCEPT !.protocol = "right", !.transport = "right", !.port = "443"]
    <3>2. DOMAIN first = NativeFields
      BY <3>1
    <3>3. Raw(d) = [first EXCEPT !.url = Or(@, TransportURL(d)),
                                 !.listen = Or(@, LocalPort(d)),
                                 !.allowed = Or(@, DefaultAllowed(Or(says.address, {}))),
                                 !.mtu = Or(@, 1280),
                                 !.keepalive = Or(@, 25),
                                 !.dns = Or(@, "1.1.1.1")]
      BY <2>1
    <3> HIDE DEF says, first
    <3> QED
      BY <3>2, <3>3
  <2>3. /\ "url" \in NativeFields /\ "listen" \in NativeFields /\ "allowed" \in NativeFields
        /\ "mtu" \in NativeFields /\ "keepalive" \in NativeFields /\ "dns" \in NativeFields
        /\ "address" \in NativeFields /\ Plain \subseteq NativeFields
    BY DEF NativeFields, Lists, Plain
  <2>4. says.address = Stated(d, "address")
    BY <2>3
  <2>5. Raw(d).url = Or(Stated(d, "url"), TransportURL(d))
    BY <2>1, <2>3
  <2>6. Raw(d).listen = Or(Stated(d, "listen"), LocalPort(d))
    BY <2>1, <2>3
  <2>7. Raw(d).allowed = Or(Stated(d, "allowed"), DefaultAllowed(Or(Stated(d, "address"), {})))
    BY <2>1, <2>3, <2>4
  <2>8. Raw(d).mtu = Or(Stated(d, "mtu"), 1280)
    BY <2>1, <2>3
  <2>9. Raw(d).keepalive = Or(Stated(d, "keepalive"), 25)
    BY <2>1, <2>3
  <2>10. Raw(d).dns = Or(Stated(d, "dns"), "1.1.1.1")
    BY <2>1, <2>3
  <2>11. \A f \in Plain : Raw(d)[f] = Stated(d, f)
    <3>1. Raw(d).path = Stated(d, "path")
      BY <2>1, <2>3 DEF Plain
    <3>2. Raw(d).private = Stated(d, "private")
      BY <2>1, <2>3 DEF Plain
    <3>3. Raw(d).public = Stated(d, "public")
      BY <2>1, <2>3 DEF Plain
    <3>4. Raw(d).serverKey = Stated(d, "serverKey")
      BY <2>1, <2>3 DEF Plain
    <3>5. Raw(d).psk = Stated(d, "psk")
      BY <2>1, <2>3 DEF Plain
    <3>6. Raw(d).address = Stated(d, "address")
      BY <2>1, <2>3 DEF Plain
    <3>7. Raw(d).mode = Stated(d, "mode")
      BY <2>1, <2>3 DEF Plain
    <3> QED
      BY <3>1, <3>2, <3>3, <3>4, <3>5, <3>6, <3>7 DEF Plain
  <2> HIDE DEF says
  <2> QED
    BY <1>2, <2>2, <2>5, <2>6, <2>7, <2>8, <2>9, <2>10, <2>11
<1> QED
  BY <1>1, <1>2

Kept == {"url", "private", "public", "serverKey", "psk", "address", "allowed", "dns"}

\* normalize fills four fields that a document can leave out.
LEMMA ConfigFields ==
    ASSUME NEW d
    PROVE  /\ \A f \in Kept : Config(d)[f] = Raw(d)[f]
           /\ Config(d).path = Or(Raw(d).path, UrlPath(Raw(d).url))
           /\ Config(d).listen = Or(Raw(d).listen, "51820")
           /\ Config(d).mtu = Or(Raw(d).mtu, 1280)
           /\ Config(d).keepalive = Or(Raw(d).keepalive, 25)
<1>1. DOMAIN Raw(d) = NativeFields
  BY RawFields
<1>2. /\ "path" \in NativeFields /\ "listen" \in NativeFields
      /\ "mtu" \in NativeFields /\ "keepalive" \in NativeFields
  BY DEF NativeFields, Lists
<1>3. Config(d).path = Or(Raw(d).path, UrlPath(Raw(d).url))
  BY <1>1, <1>2 DEF Config
<1>4. Config(d).listen = Or(Raw(d).listen, "51820")
  BY <1>1, <1>2 DEF Config
<1>5. Config(d).mtu = Or(Raw(d).mtu, 1280)
  BY <1>1, <1>2 DEF Config
<1>6. Config(d).keepalive = Or(Raw(d).keepalive, 25)
  BY <1>1, <1>2 DEF Config
<1>7. \A f \in Kept : Config(d)[f] = Raw(d)[f]
  <2> Kept \subseteq NativeFields
    BY DEF Kept, NativeFields, Lists
  <2>1. Config(d).url = Raw(d).url
    BY <1>1 DEF Config, Kept
  <2>2. Config(d).private = Raw(d).private
    BY <1>1 DEF Config, Kept
  <2>3. Config(d).public = Raw(d).public
    BY <1>1 DEF Config, Kept
  <2>4. Config(d).serverKey = Raw(d).serverKey
    BY <1>1 DEF Config, Kept
  <2>5. Config(d).psk = Raw(d).psk
    BY <1>1 DEF Config, Kept
  <2>6. Config(d).address = Raw(d).address
    BY <1>1 DEF Config, Kept
  <2>7. Config(d).allowed = Raw(d).allowed
    BY <1>1 DEF Config, Kept
  <2>8. Config(d).dns = Raw(d).dns
    BY <1>1 DEF Config, Kept
  <2> QED
    BY <2>1, <2>2, <2>3, <2>4, <2>5, <2>6, <2>7, <2>8 DEF Kept
<1> QED
  BY <1>3, <1>4, <1>5, <1>6, <1>7

\* A field means what some place says of it, or no place says anything.
LEMMA StatedIsOne ==
    ASSUME NEW d, IsDocument(d), NEW f \in NativeFields \cup BlockFields
    PROVE  LET blank == {Nothing} \cup (IF d.kind = "singbox" /\ f \in Lists THEN {{}} ELSE {})
           IN  \/ Stated(d, f) = Nothing /\ \A v \in Range(d.says[f]) : v \in blank
               \/ Stated(d, f) \in Range(d.says[f]) \ blank
<1>1. d.says[f] \in Seq(Range(d.says[f]))
  BY DEF IsDocument
<1> QED
  BY <1>1, FirstStatedIsOne DEF Stated

\* What a document that parses has no problem with.
LEMMA NoProblems ==
    ASSUME NEW raw, ProblemFields(raw) = {}
    PROVE  /\ raw.url # Nothing /\ raw.url.fault = "none"
           /\ raw.private # Nothing /\ raw.serverKey # Nothing
           /\ raw.address \notin {Nothing, {}} /\ "junk" \notin raw.address
           /\ raw.allowed \notin {Nothing, {}} /\ raw.allowed \cap {"junk", "bare"} = {}
           /\ raw.mtu = Nothing \/ raw.mtu \in 1200 .. 1420
           /\ raw.keepalive = Nothing \/ raw.keepalive \in 0 .. 60
<1>1. "url" \notin ProblemFields(raw) /\ "private" \notin ProblemFields(raw)
      /\ "serverKey" \notin ProblemFields(raw) /\ "address" \notin ProblemFields(raw)
      /\ "allowed" \notin ProblemFields(raw) /\ "mtu" \notin ProblemFields(raw)
      /\ "keepalive" \notin ProblemFields(raw)
  OBVIOUS
<1>2. raw["url"] = raw.url /\ raw["private"] = raw.private /\ raw["serverKey"] = raw.serverKey
      /\ raw["address"] = raw.address /\ raw["allowed"] = raw.allowed
      /\ raw["mtu"] = raw.mtu /\ raw["keepalive"] = raw.keepalive
  OBVIOUS
<1>3. raw.url # Nothing /\ raw.url.fault = "none"
  BY <1>1, <1>2 DEF ProblemFields
<1>4. raw.private # Nothing /\ raw.serverKey # Nothing
  BY <1>1, <1>2 DEF ProblemFields
<1>5. raw.address \notin {Nothing, {}} /\ "junk" \notin raw.address
  BY <1>1, <1>2 DEF ProblemFields
<1>6. raw.allowed \notin {Nothing, {}} /\ raw.allowed \cap {"junk", "bare"} = {}
  BY <1>1, <1>2 DEF ProblemFields
<1>7. raw.mtu = Nothing \/ raw.mtu \in 1200 .. 1420
  BY <1>1, <1>2 DEF ProblemFields, NumberIsBad
<1>8. raw.keepalive = Nothing \/ raw.keepalive \in 0 .. 60
  BY <1>1, <1>2 DEF ProblemFields, NumberIsBad
<1> QED
  BY <1>3, <1>4, <1>5, <1>6, <1>7, <1>8

-------------------------------------------------------------------------------
\* The upload

\* Putting a URL into a document leaves every other field as it was, and the URL
\* then is the one the parser takes.
LEMMA WithURLFields ==
    ASSUME NEW d, IsDocument(d), NEW url, url # Nothing
    PROVE  /\ IsDocument(WithURL(d, url))
           /\ WithURL(d, url).kind = d.kind /\ WithURL(d, url).section
           /\ WithURL(d, url).found = d.found
           /\ Stated(WithURL(d, url), "url") = url
           /\ Stated(WithURL(d, url), "path") = Stated(d, "path")
<1> DEFINE w == WithURL(d, url)
           blank == IF d.kind = "singbox" /\ "url" \in Lists THEN {{}} ELSE {}
<1>1. /\ DOMAIN w = DOMAIN d
      /\ w.kind = d.kind /\ w.section = TRUE /\ w.found = d.found
      /\ w.says = [d.says EXCEPT !["url"][1] = url, !["mode"][1] = Or(@, "right")]
  BY DEF WithURL, IsDocument
<1>2. "url" \in DOMAIN d.says /\ "mode" \in DOMAIN d.says /\ "path" \in DOMAIN d.says
      /\ "address" \in DOMAIN d.says
  BY DEF IsDocument, NativeFields, Lists
<1>3. /\ DOMAIN w.says = DOMAIN d.says
      /\ w.says["url"] = [d.says["url"] EXCEPT ![1] = url]
      /\ w.says["mode"] = [d.says["mode"] EXCEPT ![1] = Or(@, "right")]
      /\ \A f \in DOMAIN d.says \ {"url", "mode"} : w.says[f] = d.says[f]
  BY <1>1, <1>2
<1> HIDE DEF w
<1>4. ASSUME NEW s, s \in Seq(Range(s)), s # <<>>, NEW v
      PROVE  /\ [s EXCEPT ![1] = v] \in Seq(Range([s EXCEPT ![1] = v]))
             /\ [s EXCEPT ![1] = v] # <<>> /\ [s EXCEPT ![1] = v][1] = v
  <2> DEFINE t == [s EXCEPT ![1] = v]
  <2>1. /\ Len(s) \in Nat /\ DOMAIN s = 1 .. Len(s) /\ 1 \in DOMAIN s
    <3> DEFINE T == Range(s)
    <3>1. s \in Seq(T) /\ s # <<>>
      BY <1>4
    <3> HIDE DEF T
    <3>2. Len(s) \in Nat /\ DOMAIN s = 1 .. Len(s)
      BY <3>1
    <3>3. Len(s) # 0
      BY <3>1
    <3> QED
      BY <3>2, <3>3
  <2>2. DOMAIN t = 1 .. Len(s) /\ t[1] = v
    BY <2>1
  <2>3. \A i \in 1 .. Len(s) : t[i] \in Range(t)
    BY <2>2 DEF Range
  <2>4. t = [i \in 1 .. Len(s) |-> t[i]]
    BY <2>1
  <2> HIDE DEF t
  <2>5. t \in Seq(Range(t)) /\ t # <<>>
    BY <2>1, <2>2, <2>3, <2>4
  <2> QED
    BY <2>2, <2>5 DEF t
<1>5. \A f \in DOMAIN d.says : d.says[f] \in Seq(Range(d.says[f]))
  BY DEF IsDocument
<1>6. d.says["url"] # <<>> /\ d.says["mode"] # <<>>
  BY DEF IsDocument
<1>7. /\ w.says["url"] \in Seq(Range(w.says["url"])) /\ w.says["url"] # <<>>
      /\ w.says["url"][1] = url
      /\ w.says["mode"] \in Seq(Range(w.says["mode"])) /\ w.says["mode"] # <<>>
  BY <1>2, <1>3, <1>4, <1>5, <1>6
<1>8. IsDocument(w)
  <2>1. \A f \in DOMAIN w.says : w.says[f] \in Seq(Range(w.says[f]))
    BY <1>3, <1>5, <1>7
  <2>2. Range(w.says["address"]) \subseteq (SUBSET Addresses) \cup {Nothing}
    BY <1>2, <1>3 DEF IsDocument
  <2> QED
    BY <1>1, <1>3, <1>7, <2>1, <2>2 DEF IsDocument
<1>9. Stated(w, "url") = url
  <2>1. "url" \notin Lists
    BY DEF Lists
  <2>2. Stated(w, "url") = FirstStated(w.says["url"], {Nothing})
    BY <2>1 DEF Stated
  <2> QED
    BY <1>7, <2>2, FirstPlaceWins
<1>10. Stated(w, "path") = Stated(d, "path")
  BY <1>1, <1>2, <1>3 DEF Stated
<1> QED
  BY <1>1, <1>8, <1>9, <1>10 DEF w

\* What was sent to disk, and why a page asks for the URL.
UploadInv ==
    /\ document \in Documents \cup {Nothing}
    /\ document = Nothing => answer = "none"
    /\ current # Nothing => IsDocument(current) /\ Parses(current)
    /\ answer = "paste" =>
        document # Nothing /\ ~Accepts(document, pasted) /\ AsksForURL(ToSave(document, pasted))

LEMMA UploadInvHolds == UploadSpec => []UploadInv
<1>1. UploadInit => UploadInv
  BY DEF UploadInit, UploadInv
<1>2. UploadInv /\ [UploadNext]_uploadVars => UploadInv'
  <2> SUFFICES ASSUME UploadInv, [UploadNext]_uploadVars PROVE UploadInv'
    OBVIOUS
  <2> USE DEF UploadInv
  <2>1. CASE UNCHANGED uploadVars
    BY <2>1 DEF uploadVars
  <2>2. CASE Choose
    BY <2>2 DEF Choose
  <2>3. ASSUME NEW url \in URLs, Paste(url) PROVE UploadInv'
    BY <2>3 DEF Paste
  <2>4. CASE Save
    <3>1. IsDocument(document) /\ document' = document /\ pasted' = pasted
      BY <2>4, ProfileAssumption DEF Save
    <3>2. CASE Accepts(document, pasted)
      <4>1. current' = ToSave(document, pasted) /\ answer' = "saved"
        BY <2>4, <3>2 DEF Save
      <4>2. CASE Parses(document)
        BY <2>4, <3>1, <4>1, <4>2 DEF ToSave, Save
      <4>3. CASE ~Parses(document)
        <5>1. pasted # Nothing /\ document.kind # "unreadable" /\ Parses(WithURL(document, pasted))
          BY <3>2, <4>3 DEF Accepts
        <5>2. current' = WithURL(document, pasted)
          BY <4>1, <4>3, <5>1 DEF ToSave
        <5>3. IsDocument(WithURL(document, pasted))
          BY <3>1, <5>1, WithURLFields
        <5> QED
          BY <2>4, <3>1, <4>1, <5>1, <5>2, <5>3 DEF Save
      <4> QED
        BY <4>2, <4>3
    <3>3. CASE ~Accepts(document, pasted)
      BY <2>4, <3>1, <3>3 DEF Save
    <3> QED
      BY <3>2, <3>3
  <2> QED
    BY <2>1, <2>2, <2>3, <2>4 DEF UploadNext
<1> QED
  BY <1>1, <1>2, PTL DEF UploadSpec

\* The profile on disk is one the parser takes, whatever documents and URLs were
\* tried (payloadToSave).
THEOREM SavedParsesHolds == UploadSpec => []SavedParses
<1>1. UploadInv => SavedParses
  BY DEF UploadInv, SavedParses
<1> QED
  BY <1>1, UploadInvHolds, PTL

\* A user told to paste the URL who pastes a sound one is not told so again,
\* unless the document states another path: for any documents and URLs
\* (profileValidationNeedsWSTunnelURL).
THEOREM AdviceIsOfUseHolds == UploadSpec => []AdviceIsOfUse
<1>1. UploadInv => AdviceIsOfUse
  <2> SUFFICES ASSUME UploadInv, answer = "paste", pasted # Nothing, pasted.fault = "none"
               PROVE  Stated(document, "path") \notin {Nothing, pasted.path}
    BY DEF AdviceIsOfUse
  <2> DEFINE w == WithURL(document, pasted)
  <2>1. /\ IsDocument(document) /\ ~Accepts(document, pasted)
        /\ AsksForURL(ToSave(document, pasted))
    BY ProfileAssumption DEF UploadInv
  <2>2. document.kind # "unreadable"
    BY <2>1 DEF ToSave, AsksForURL
  <2>3. ToSave(document, pasted) = w
    BY <2>1, <2>2 DEF ToSave, Accepts
  <2>4. Stated(w, "url") = pasted /\ Stated(w, "path") = Stated(document, "path")
    BY <2>1, WithURLFields
  <2> HIDE DEF w
  <2>5. Raw(w).url = pasted
    BY <2>4, RawFields DEF NativeFields, Or
  <2>6. Raw(w).path = Stated(document, "path")
    BY <2>4, RawFields DEF Plain
  <2>7. "url" \notin ProblemFields(Raw(w))
    <3>1. Raw(w)["url"] = Raw(w).url
      OBVIOUS
    <3> QED
      BY <2>5, <3>1 DEF ProblemFields
  <2>8. PathDiffers(Raw(w))
    BY <2>1, <2>3, <2>5, <2>7 DEF AsksForURL
  <2> QED
    BY <2>5, <2>6, <2>8 DEF PathDiffers, UrlPath
<1> QED
  BY <1>1, UploadInvHolds, PTL

-------------------------------------------------------------------------------
\* What was saved means what it says, and can be applied

LEMMA Values ==
    ASSUME NEW d, IsDocument(d)
    PROVE  /\ Stated(d, "address") \in (SUBSET Addresses) \cup {Nothing}
           /\ d.kind \in {"unreadable", "native", "singbox"}
<1>1. "address" \in NativeFields
  BY DEF NativeFields, Lists
<1>2. Stated(d, "address") = Nothing \/ Stated(d, "address") \in Range(d.says["address"])
  BY <1>1, StatedIsOne
<1>3. Range(d.says["address"]) \subseteq (SUBSET Addresses) \cup {Nothing}
  BY DEF IsDocument
<1> QED
  BY <1>2, <1>3 DEF IsDocument

\* The profiles that the parser takes and a connect refuses, before it starts or
\* in the middle, are exactly those with a DNS list its plan cannot read, an
\* address without a prefix length or a route with host bits.
THEOREM AcceptedCanBeAppliedHolds == UploadSpec => []AcceptedCanBeApplied
<1>1. UploadInv => AcceptedCanBeApplied
  <2> DEFINE raw == Raw(current)
             config == Config(current)
             withPrefix == config.address \cap {"v4-bare", "v6-bare"} = {}
  <2> SUFFICES ASSUME UploadInv, current # Nothing, Parses(current)
               PROVE  InterfaceTaken(config) <=> withPrefix
    BY DEF AcceptedCanBeApplied, CanBeConnected, CanBeIsolated, DNSTaken, IsolatedDNSTaken,
           RoutesTaken
  <2>1. IsDocument(current)
    BY DEF UploadInv
  <2>2. ProblemFields(raw) = {}
    BY DEF Parses
  <2> HIDE DEF raw
  <2>3. /\ raw.private # Nothing /\ raw.serverKey # Nothing
        /\ raw.address \notin {Nothing, {}} /\ "junk" \notin raw.address
        /\ raw.allowed \notin {Nothing, {}} /\ raw.allowed \cap {"junk", "bare"} = {}
        /\ raw.mtu = Nothing \/ raw.mtu \in 1200 .. 1420
        /\ raw.keepalive = Nothing \/ raw.keepalive \in 0 .. 60
    BY <2>2, NoProblems
  <2>4. /\ config.private = raw.private /\ config.serverKey = raw.serverKey
        /\ config.address = raw.address /\ config.allowed = raw.allowed
    BY ConfigFields DEF Kept, raw
  <2>5. /\ config.listen = Or(raw.listen, "51820")
        /\ config.mtu = Or(raw.mtu, 1280) /\ config.keepalive = Or(raw.keepalive, 25)
    BY ConfigFields DEF raw
  <2>6. raw.address \in SUBSET Addresses
    BY <2>1, <2>3, RawFields, Values DEF Plain, raw
  <2> HIDE DEF config
  <2>7. config.address # {}
    BY <2>3, <2>4
  <2>8. config.address \subseteq {"v4", "v6"} <=> withPrefix
    BY <2>3, <2>4, <2>6 DEF Addresses
  <2>9. config.listen # Nothing
    BY <2>5, ProfileAssumption DEF Or
  <2>10. config.mtu \in 1200 .. 1420
    BY <2>3, <2>5 DEF Or
  <2>11. config.keepalive \in 0 .. 60
    BY <2>3, <2>5 DEF Or
  <2> QED
    BY <2>3, <2>4, <2>7, <2>8, <2>9, <2>10, <2>11 DEF InterfaceTaken
<1> QED
  BY <1>1, UploadInvHolds, PTL

Meaningful == NativeFields \ {"protocol", "transport", "port", "mode"}

\* What the document states for a field.
StatedOf(d, f) == {v \in Range(d.says[f]) : v # Nothing /\ (f \in Lists => v # {})}

\* A list that a native document states as empty does not parse.
LEMMA StatedWins ==
    ASSUME NEW d, IsDocument(d), Parses(d), NEW f \in Meaningful
    PROVE  /\ StatedOf(d, f) = {} => Stated(d, f) = Nothing
           /\ StatedOf(d, f) # {} => Stated(d, f) \in StatedOf(d, f)
<1> DEFINE blank == {Nothing} \cup (IF d.kind = "singbox" /\ f \in Lists THEN {{}} ELSE {})
<1>1. \/ Stated(d, f) = Nothing /\ \A v \in Range(d.says[f]) : v \in blank
      \/ Stated(d, f) \in Range(d.says[f]) \ blank
  BY StatedIsOne DEF Meaningful
<1>2. d.kind # "singbox" => d.kind = "native"
  BY DEF IsDocument, Parses
<1>3. CASE f \in Lists /\ d.kind = "native"
  <2>1. Raw(d)[f] = Stated(d, f)
    BY <1>3, RawFields DEF Meaningful
  <2>2. Raw(d)["address"] = Raw(d).address /\ Raw(d)["allowed"] = Raw(d).allowed
    OBVIOUS
  <2>3. Stated(d, f) \notin {Nothing, {}}
    BY <1>3, <2>1, <2>2, NoProblems DEF Parses, Lists
  <2>4. Stated(d, f) \in StatedOf(d, f)
    BY <1>1, <2>3 DEF StatedOf
  <2> QED
    BY <2>4
<1>4. CASE ~(f \in Lists /\ d.kind = "native")
  <2>1. StatedOf(d, f) = Range(d.says[f]) \ blank
    BY <1>2, <1>4 DEF StatedOf
  <2> HIDE DEF blank
  <2> QED
    BY <1>1, <2>1
<1> QED
  BY <1>3, <1>4

\* The configuration of each field, from what is stated and the default.
LEMMA FieldIsFaithful ==
    ASSUME NEW d, IsDocument(d), Parses(d), NEW f \in Meaningful
    PROVE  Config(d)[f] = IF Stated(d, f) = Nothing THEN Default(d, f) ELSE Stated(d, f)
<1>1. /\ Raw(d).url # Nothing /\ Raw(d).url.fault = "none"
      /\ Raw(d).private # Nothing /\ Raw(d).serverKey # Nothing
      /\ Raw(d).address \notin {Nothing, {}} /\ "junk" \notin Raw(d).address
      /\ Raw(d).allowed # Nothing
  BY NoProblems DEF Parses
<1>2. d.kind = "native" \/ d.kind = "singbox"
  BY DEF IsDocument, Parses
<1>3. /\ Raw(d).private = Stated(d, "private") /\ Raw(d).serverKey = Stated(d, "serverKey")
      /\ Raw(d).public = Stated(d, "public") /\ Raw(d).psk = Stated(d, "psk")
      /\ Raw(d).address = Stated(d, "address") /\ Raw(d).path = Stated(d, "path")
  BY RawFields DEF Plain
<1>4. d.kind = "native" =>
        /\ Raw(d).url = Stated(d, "url") /\ Raw(d).listen = Stated(d, "listen")
        /\ Raw(d).allowed = Stated(d, "allowed") /\ Raw(d).mtu = Stated(d, "mtu")
        /\ Raw(d).keepalive = Stated(d, "keepalive") /\ Raw(d).dns = Stated(d, "dns")
  BY RawFields DEF NativeFields, Lists
<1>5. d.kind = "singbox" =>
        /\ Raw(d).url = Or(Stated(d, "url"), TransportURL(d))
        /\ Raw(d).listen = Or(Stated(d, "listen"), LocalPort(d))
        /\ Raw(d).allowed = Or(Stated(d, "allowed"), DefaultAllowed(Or(Stated(d, "address"), {})))
        /\ Raw(d).mtu = Or(Stated(d, "mtu"), 1280)
        /\ Raw(d).keepalive = Or(Stated(d, "keepalive"), 25)
        /\ Raw(d).dns = Or(Stated(d, "dns"), "1.1.1.1")
  BY RawFields
<1>6. /\ Config(d).url = Raw(d).url /\ Config(d).private = Raw(d).private
      /\ Config(d).public = Raw(d).public /\ Config(d).serverKey = Raw(d).serverKey
      /\ Config(d).psk = Raw(d).psk /\ Config(d).address = Raw(d).address
      /\ Config(d).allowed = Raw(d).allowed /\ Config(d).dns = Raw(d).dns
  BY ConfigFields DEF Kept
<1>7. /\ Config(d).path = Or(Raw(d).path, UrlPath(Raw(d).url))
      /\ Config(d).listen = Or(Raw(d).listen, "51820")
      /\ Config(d).mtu = Or(Raw(d).mtu, 1280)
      /\ Config(d).keepalive = Or(Raw(d).keepalive, 25)
  BY ConfigFields
<1>8. /\ Nothing \notin {"1.1.1.1", "443", "51820", 25, 1280}
      /\ LocalPort(d) # Nothing
  BY ProfileAssumption DEF LocalPort
<1>url. CASE f = "url"
  BY <1>url, <1>1, <1>2, <1>4, <1>5, <1>6 DEF Or, Default
<1>path. CASE f = "path"
  <2>1. Default(d, "path") = Config(d).url.path
    BY DEF Default
  <2> QED
    BY <1>path, <1>1, <1>3, <1>6, <1>7, <2>1 DEF Or, UrlPath
<1>listen. CASE f = "listen"
  <2>1. Default(d, "listen") = IF d.kind = "singbox" THEN LocalPort(d) ELSE "51820"
    BY DEF Default
  <2> QED
    BY <1>listen, <1>2, <1>4, <1>5, <1>7, <1>8, <2>1 DEF Or
<1>mtu. CASE f = "mtu"
  <2>1. Default(d, "mtu") = 1280
    BY DEF Default
  <2> QED
    BY <1>mtu, <1>2, <1>4, <1>5, <1>7, <1>8, <2>1 DEF Or
<1>keepalive. CASE f = "keepalive"
  <2>1. Default(d, "keepalive") = 25
    BY DEF Default
  <2> QED
    BY <1>keepalive, <1>2, <1>4, <1>5, <1>7, <1>8, <2>1 DEF Or
<1>dns. CASE f = "dns"
  <2>1. Default(d, "dns") = IF d.kind = "singbox" THEN "1.1.1.1" ELSE Nothing
    BY DEF Default
  <2> QED
    BY <1>dns, <1>2, <1>4, <1>5, <1>6, <2>1 DEF Or
<1>key. CASE f \in {"private", "serverKey", "address"}
  BY <1>key, <1>1, <1>3, <1>6
<1>other. CASE f \in {"public", "psk"}
  <2>1. Default(d, f) = Nothing
    BY <1>other DEF Default
  <2> QED
    BY <1>other, <1>3, <1>6, <2>1
<1>allowed. CASE f = "allowed"
  <2>1. Default(d, "allowed") =
            {route \in {"all-v4", "all-v6"} :
                Config(d).address
                    \cap (IF route = "all-v4" THEN {"v4", "v4-bare"} ELSE {"v6", "v6-bare"}) # {}}
    BY DEF Default
  <2>2. Config(d).address \in SUBSET {"v4", "v6", "v4-bare", "v6-bare"}
    BY <1>1, <1>3, <1>6, Values DEF Addresses
  <2>3. Config(d).address # {}
    BY <1>1, <1>6
  <2>4. Default(d, "allowed") = DefaultAllowed(Config(d).address)
    <3> DEFINE addresses == Config(d).address
    <3> HIDE DEF addresses
    <3>1. addresses \in SUBSET {"v4", "v6", "v4-bare", "v6-bare"} /\ addresses # {}
      BY <2>2, <2>3 DEF addresses
    <3>2. {route \in {"all-v4", "all-v6"} :
              addresses
                \cap (IF route = "all-v4" THEN {"v4", "v4-bare"} ELSE {"v6", "v6-bare"}) # {}}
          = DefaultAllowed(addresses)
      BY <3>1 DEF DefaultAllowed
    <3> QED
      BY <2>1, <3>2 DEF addresses
  <2>5. Or(Stated(d, "address"), {}) = Config(d).address
    BY <1>1, <1>3, <1>6 DEF Or
  <2> QED
    BY <1>allowed, <1>1, <1>2, <1>4, <1>5, <1>6, <2>4, <2>5 DEF Or
<1> QED
  BY <1>url, <1>path, <1>listen, <1>mtu, <1>keepalive, <1>dns, <1>key, <1>other, <1>allowed
  DEF Meaningful, NativeFields, Lists

\* Both formats, and every place in them, mean what they say: a field of the
\* saved configuration is one that the document states, or the default.
THEOREM ConfigIsFaithfulHolds == UploadSpec => []ConfigIsFaithful
<1>1. UploadInv => ConfigIsFaithful
  <2> SUFFICES ASSUME UploadInv, current # Nothing, Parses(current), NEW f \in Meaningful
               PROVE  IF StatedOf(current, f) = {} THEN Config(current)[f] = Default(current, f)
                      ELSE Config(current)[f] \in StatedOf(current, f)
    BY DEF ConfigIsFaithful, Meaningful, StatedOf
  <2>1. IsDocument(current)
    BY DEF UploadInv
  <2>2. Config(current)[f] =
            IF Stated(current, f) = Nothing THEN Default(current, f) ELSE Stated(current, f)
    BY <2>1, FieldIsFaithful
  <2>3. Nothing \notin StatedOf(current, f)
    BY DEF StatedOf
  <2> QED
    BY <2>1, <2>2, <2>3, StatedWins
<1> QED
  BY <1>1, UploadInvHolds, PTL

-------------------------------------------------------------------------------
\* The addresses of sessions

\* What the derivation keeps of a hash, whatever its bytes are.
LEMMA KeptBits ==
    ASSUME NEW s \in Sessions
    PROVE  Digest[s][1] % 64 \in 0 .. 63 /\ Digest[s][2] % 63 \in 0 .. 62
<1>1. Digest[s] \in [1 .. 2 -> 0 .. 255]
  BY AddressAssumption
<1>2. Digest[s][1] \in Nat /\ Digest[s][2] \in Nat
  BY <1>1
<1> QED
  BY <1>2

\* The four-address block of a place below 63, and its two hosts.
LEMMA BlockOfPlace ==
    ASSUME NEW place \in 0 .. 62, NEW r \in 1 .. 2
    PROVE  /\ place * 4 + r \in 0 .. 255
           /\ (place * 4 + r) \div 4 = place
           /\ (place * 4 + r) % 4 = r
OBVIOUS

\* Derived addresses: two hosts of the block that the kept bits select.
LEMMA DerivedPair ==
    ASSUME NEW s \in Sessions
    PROVE  /\ DefaultHost(s) \in Address /\ DefaultNamespace(s) \in Address
           /\ DefaultHost(s).third \in 64 .. 127
           /\ DefaultHost(s).fourth % 4 = 1 /\ DefaultNamespace(s).fourth % 4 = 2
           /\ Masked(DefaultHost(s)) = <<64 + (Digest[s][1] % 64), Digest[s][2] % 63>>
           /\ Masked(DefaultNamespace(s)) = Masked(DefaultHost(s))
<1> DEFINE third == 64 + (Digest[s][1] % 64)
           place == Digest[s][2] % 63
<1>1. third \in 64 .. 127 /\ place \in 0 .. 62
  BY KeptBits
<1>2. /\ DefaultHost(s) = [third |-> third, fourth |-> place * 4 + 1]
      /\ DefaultNamespace(s) = [third |-> third, fourth |-> place * 4 + 2]
  BY DEF DefaultHost, DefaultNamespace, ThirdByte, Block
<1> HIDE DEF third, place
<1>3. /\ place * 4 + 1 \in 0 .. 255 /\ place * 4 + 2 \in 0 .. 255
      /\ (place * 4 + 1) \div 4 = place /\ (place * 4 + 2) \div 4 = place
      /\ (place * 4 + 1) % 4 = 1 /\ (place * 4 + 2) % 4 = 2
  BY <1>1, BlockOfPlace
<1>4. third \in 0 .. 255
  BY <1>1
<1>5. DefaultHost(s) \in Address /\ DefaultNamespace(s) \in Address
  BY <1>2, <1>3, <1>4 DEF Address
<1>6. /\ Masked(DefaultHost(s)) = <<third, place>>
      /\ Masked(DefaultNamespace(s)) = <<third, place>>
  BY <1>2, <1>3 DEF Masked
<1>7. /\ DefaultHost(s).third \in 64 .. 127
      /\ DefaultHost(s).fourth % 4 = 1 /\ DefaultNamespace(s).fourth % 4 = 2
  BY <1>1, <1>2, <1>3
<1> QED
  BY <1>5, <1>6, <1>7 DEF third, place

-------------------------------------------------------------------------------

\* Type correctness: each link belongs to a session and its ends are addresses.
THEOREM LinksTypeCorrect == LinksSpec => []TypeOK
<1>1. LinksInit => TypeOK
  BY DEF LinksInit, TypeOK
<1>2. TypeOK /\ [LinksNext]_links => TypeOK'
  <2> SUFFICES ASSUME TypeOK, [LinksNext]_links PROVE TypeOK'
    OBVIOUS
  <2>1. ASSUME NEW s \in Sessions, NEW h \in Given \cup {None}, NEW n \in Given \cup {None},
               NEW g \in Given \cup {None}, Start(s, h, n, g)
        PROVE  TypeOK'
    <3>1. FirstGiven(h, DefaultHost(s)) \in Address
      BY DerivedPair, AddressAssumption DEF FirstGiven
    <3>2. FirstGiven(n, DefaultNamespace(s)) \in Address
      BY DerivedPair, AddressAssumption DEF FirstGiven
    <3> QED
      BY <2>1, <3>1, <3>2 DEF Start, TypeOK, Link
  <2>2. ASSUME NEW s \in Sessions, Stop(s) PROVE TypeOK'
    BY <2>2 DEF Stop, TypeOK
  <2>3. CASE UNCHANGED links
    BY <2>3 DEF TypeOK
  <2> QED
    BY <2>1, <2>2, <2>3 DEF LinksNext
<1> QED
  BY <1>1, <1>2, PTL DEF LinksSpec

\* The ends of a link whose addresses the launcher derived can talk, for every
\* hash (defaultVethAddressPair).
THEOREM DerivedEndsCanTalk == LinksSpec => []EndsCanTalk
<1>1. TypeOK => EndsCanTalk
  <2> SUFFICES ASSUME TypeOK, NEW link \in links, Derived(link)
               PROVE  /\ Masked(link.host) = Masked(link.namespace)
                      /\ link.host.fourth % 4 = 1 /\ link.namespace.fourth % 4 = 2
                      /\ link.host.third \in 64 .. 127
    BY DEF EndsCanTalk
  <2>1. link.session \in Sessions
    BY DEF TypeOK, Link
  <2> QED
    BY <2>1, DerivedPair DEF Derived
<1> QED
  BY <1>1, LinksTypeCorrect, PTL

\* Derived links of two sessions share a prefix exactly if what the derivation
\* keeps of their hashes agrees, for every pair of hashes.
THEOREM DerivedLinksStayApart == LinksSpec => []LinksApart
<1>1. TypeOK => LinksApart
  <2> SUFFICES ASSUME TypeOK, NEW a \in links, NEW b \in links, Derived(a), Derived(b)
               PROVE  Masked(a.host) = Masked(b.host) <=> SameBits(a.session, b.session)
    BY DEF LinksApart
  <2> DEFINE third(s) == Digest[s][1] % 64
             place(s) == Digest[s][2] % 63
  <2>1. a.session \in Sessions /\ b.session \in Sessions
    BY DEF TypeOK, Link
  <2>2. /\ Masked(a.host) = <<64 + third(a.session), place(a.session)>>
        /\ Masked(b.host) = <<64 + third(b.session), place(b.session)>>
    BY <2>1, DerivedPair DEF Derived
  <2>3. third(a.session) \in Nat /\ third(b.session) \in Nat
    BY <2>1, KeptBits
  <2> HIDE DEF third, place
  <2>4. Masked(a.host) = Masked(b.host)
          <=> third(a.session) = third(b.session) /\ place(a.session) = place(b.session)
    BY <2>2, <2>3
  <2> QED
    BY <2>4 DEF SameBits, third, place
<1> QED
  BY <1>1, LinksTypeCorrect, PTL

-------------------------------------------------------------------------------
\* The command line: induction over sets

\* A set of numbers that has 0 and every successor up to n has all up to n.
LEMMA UpTo ==
    ASSUME NEW n \in Nat, NEW S, 0 \in S, \A i \in 1 .. n : i - 1 \in S => i \in S
    PROVE  0 .. n \subseteq S
<1> DEFINE missing == (0 .. n) \ S
<1> SUFFICES ASSUME missing # {} PROVE FALSE
  OBVIOUS
<1>1. missing \in SUBSET Nat
  OBVIOUS
<1>2. Min(missing) \in missing /\ \A j \in missing : Min(missing) <= j
  BY <1>1, Least
<1>3. Min(missing) \in 1 .. n /\ Min(missing) - 1 \in 0 .. n
  BY <1>2
<1>4. Min(missing) - 1 \notin missing
  BY <1>2, <1>3
<1> QED
  BY <1>2, <1>3, <1>4

\* The values a loop of n turns goes through.
IsTrace(f, n, start, turn) == f[0] = start /\ \A i \in 1 .. n : f[i] = turn[i][f[i - 1]]

\* Two functions that go on alike as long as they agree.
GoOnAlike(f, g, n) == f[0] = g[0] /\ \A i \in 1 .. n : f[i - 1] = g[i - 1] => f[i] = g[i]

\* A loop has a trace,
LEMMA Trace ==
    ASSUME NEW n \in Nat, NEW T, NEW start \in T, NEW turn \in [1 .. n -> [T -> T]]
    PROVE  \E f \in [0 .. n -> T] : IsTrace(f, n, start, turn)
<1> USE DEF IsTrace
<1> DEFINE traced ==
      {k \in 0 .. n : \E f \in [0 .. k -> T] :
                          f[0] = start /\ \A i \in 1 .. k : f[i] = turn[i][f[i - 1]]}
<1>1. 0 \in traced
  <2> DEFINE f == [i \in 0 .. 0 |-> start]
  <2>1. f \in [0 .. 0 -> T] /\ f[0] = start /\ 1 .. 0 = {}
    OBVIOUS
  <2> HIDE DEF f
  <2> QED
    BY <2>1
<1>2. ASSUME NEW k \in 1 .. n, k - 1 \in traced PROVE k \in traced
  <2>1. PICK f \in [0 .. k - 1 -> T] :
          f[0] = start /\ \A i \in 1 .. k - 1 : f[i] = turn[i][f[i - 1]]
    BY <1>2
  <2> DEFINE g == [i \in 0 .. k |-> IF i = k THEN turn[k][f[k - 1]] ELSE f[i]]
  <2>2. f[k - 1] \in T /\ turn[k] \in [T -> T]
    OBVIOUS
  <2>3. g \in [0 .. k -> T]
    BY <2>2
  <2>4. g[0] = start
    BY <2>1
  <2>5. ASSUME NEW i \in 1 .. k PROVE g[i] = turn[i][g[i - 1]]
    BY <2>1
  <2>6. \E h \in [0 .. k -> T] : h[0] = start /\ \A i \in 1 .. k : h[i] = turn[i][h[i - 1]]
    <3> HIDE DEF g
    <3> QED
      BY <2>3, <2>4, <2>5
  <2>7. k \in 0 .. n
    OBVIOUS
  <2> QED
    BY <2>6, <2>7, Zenon
<1>3. 0 .. n \subseteq traced
  <2> HIDE DEF traced
  <2> QED
    BY <1>1, <1>2, UpTo
<1> QED
  BY <1>3

\* and no other.
LEMMA OneTrace ==
    ASSUME NEW n \in Nat, NEW f, NEW g, GoOnAlike(f, g, n)
    PROVE  \A i \in 0 .. n : f[i] = g[i]
<1> USE DEF GoOnAlike
<1> DEFINE same == {i \in 0 .. n : f[i] = g[i]}
<1>1. 0 .. n \subseteq same
  <2>1. 0 \in same /\ \A i \in 1 .. n : i - 1 \in same => i \in same
    OBVIOUS
  <2> HIDE DEF same
  <2> QED
    BY <2>1, UpTo
<1> QED
  BY <1>1

\* A set of texts that has the empty one, and with a text every longer one by a
\* rune, has all texts.
LEMMA Texts ==
    ASSUME NEW R, NEW T, <<>> \in T, \A t \in Seq(R), r \in R : t \in T => Append(t, r) \in T
    PROVE  Seq(R) \subseteq T
<1> SUFFICES ASSUME NEW t \in Seq(R) PROVE t \in T
  OBVIOUS
<1> DEFINE reached == {i \in 0 .. Len(t) : SubSeq(t, 1, i) \in T}
<1>1. 0 \in reached
  <2>1. SubSeq(t, 1, 0) = <<>>
    BY SubSeqEmpty
  <2>2. SubSeq(t, 1, 0) \in T
    BY <2>1, Zenon
  <2> QED
    BY <2>2
<1>2. ASSUME NEW i \in 1 .. Len(t), i - 1 \in reached PROVE i \in reached
  <2>1. SubSeq(t, 1, i - 1) \in Seq(R) /\ t[i] \in R
    BY SubSeqProperties
  <2>2. Append(SubSeq(t, 1, i - 1), t[i]) = SubSeq(t, 1, i)
    BY <2>1
  <2>3. SubSeq(t, 1, i) \in T
    BY <1>2, <2>1, <2>2
  <2> QED
    BY <2>3
<1>3. 0 .. Len(t) \subseteq reached
  <2>1. Len(t) \in Nat
    OBVIOUS
  <2> HIDE DEF reached
  <2> QED
    BY <1>1, <1>2, <2>1, UpTo
<1>4. Len(t) \in 0 .. Len(t) /\ SubSeq(t, 1, Len(t)) = t
  BY SubSeqFull, LenProperties
<1>5. Len(t) \in reached
  BY <1>3, <1>4
<1> QED
  BY <1>4, <1>5
-------------------------------------------------------------------------------
\* The loop of the split

Progress ==
    [args : Seq(Seq(Runes)), word : Seq(Runes), quote : Runes \cup {NoQuote}, escaped : BOOLEAN]

LEMMA AfterRuneType ==
    ASSUME NEW st \in Progress, NEW r \in Runes PROVE AfterRune(st, r) \in Progress
<1>1. Append(st.word, r) \in Seq(Runes) /\ Append(st.args, st.word) \in Seq(Seq(Runes))
  BY DEF Progress
<1>2. [st EXCEPT !.word = Append(@, r)] \in Progress
  BY <1>1 DEF Progress
<1>3. [st EXCEPT !.word = Append(@, r), !.escaped = FALSE] \in Progress
  BY <1>1 DEF Progress
<1>4. /\ [st EXCEPT !.escaped = TRUE] \in Progress /\ [st EXCEPT !.quote = NoQuote] \in Progress
      /\ [st EXCEPT !.quote = r] \in Progress
  BY DEF Progress
<1>5. Flushed(st) \in Progress
  <2>1. <<>> \in Seq(Runes)
    OBVIOUS
  <2>2. [st EXCEPT !.args = Append(@, st.word), !.word = <<>>] \in Progress
    BY <1>1, <2>1 DEF Progress
  <2> QED
    BY <2>2 DEF Flushed
<1> QED
  BY <1>2, <1>3, <1>4, <1>5 DEF AfterRune

\* The trace of the loop over a text.
LEMMA ScanTrace ==
    ASSUME NEW text \in Seq(Runes)
    PROVE  \E f \in [0 .. Len(text) -> Progress] :
              /\ f[0] = Fresh /\ \A i \in 1 .. Len(text) : f[i] = AfterRune(f[i - 1], text[i])
              /\ Scanned(text) = f[Len(text)]
<1> DEFINE n == Len(text)
           turn == [i \in 1 .. n |-> [st \in Progress |-> AfterRune(st, text[i])]]
           scan[i \in 0 .. n] == IF i = 0 THEN Fresh ELSE AfterRune(scan[i - 1], text[i])
<1>1. n \in Nat /\ Fresh \in Progress /\ \A i \in 1 .. n : text[i] \in Runes
  BY DEF Fresh, Progress
<1>2. turn \in [1 .. n -> [Progress -> Progress]]
  BY <1>1, AfterRuneType
<1>3. PICK f \in [0 .. n -> Progress] : IsTrace(f, n, Fresh, turn)
  <2> HIDE DEF turn, n
  <2>1. n \in Nat /\ Fresh \in Progress
    BY <1>1
  <2> QED
    BY <1>2, <2>1, Trace
<1>4. ASSUME NEW i \in 1 .. n PROVE f[i] = AfterRune(f[i - 1], text[i])
  <2>1. f[i - 1] \in Progress
    BY <1>1
  <2> QED
    BY <1>3, <2>1 DEF IsTrace
<1>5. f = [i \in 0 .. n |-> IF i = 0 THEN Fresh ELSE AfterRune(f[i - 1], text[i])]
  <2> HIDE DEF n
  <2>1. \A i \in 0 .. n : f[i] = IF i = 0 THEN Fresh ELSE AfterRune(f[i - 1], text[i])
    BY <1>1, <1>3, <1>4 DEF IsTrace
  <2> QED
    BY <2>1
<1>6. scan = [i \in 0 .. n |-> IF i = 0 THEN Fresh ELSE AfterRune(scan[i - 1], text[i])]
  <2> HIDE DEF n
  <2> QED
    BY <1>5 DEF scan
<1>7. \A i \in 0 .. n : scan[i] = f[i]
  <2> HIDE DEF scan, n
  <2>1. scan[0] = f[0] /\ \A i \in 1 .. n : scan[i] = AfterRune(scan[i - 1], text[i])
    BY <1>1, <1>3, <1>6 DEF IsTrace
  <2>2. GoOnAlike(scan, f, n)
    BY <1>4, <2>1 DEF GoOnAlike
  <2> QED
    BY <1>1, <2>2, OneTrace
<1>8. Scanned(text) = scan[n]
  BY DEF Scanned
<1> HIDE DEF scan, n
<1> QED
  BY <1>1, <1>3, <1>4, <1>7, <1>8 DEF n, IsTrace

\* What the loop makes of a text that is longer by a rune.
LEMMA ScanSteps ==
    /\ Scanned(<<>>) = Fresh
    /\ \A text \in Seq(Runes) : Scanned(text) \in Progress
    /\ \A text \in Seq(Runes), r \in Runes :
          Scanned(Append(text, r)) = AfterRune(Scanned(text), r)
<1>1. Scanned(<<>>) = Fresh
  <2>1. <<>> \in Seq(Runes) /\ Len(<<>>) = 0
    OBVIOUS
  <2> QED
    BY <2>1, ScanTrace
<1>2. ASSUME NEW text \in Seq(Runes) PROVE Scanned(text) \in Progress
  <2>1. Len(text) \in 0 .. Len(text)
    BY LenProperties
  <2> QED
    BY <2>1, ScanTrace
<1>3. ASSUME NEW text \in Seq(Runes), NEW r \in Runes
      PROVE  Scanned(Append(text, r)) = AfterRune(Scanned(text), r)
  <2> DEFINE n == Len(text)
             longer == Append(text, r)
  <2>1. n \in Nat /\ longer \in Seq(Runes) /\ Len(longer) = n + 1 /\ longer[n + 1] = r
        /\ \A i \in 1 .. n : longer[i] = text[i]
    OBVIOUS
  <2>2. PICK f \in [0 .. n -> Progress] :
          /\ f[0] = Fresh /\ \A i \in 1 .. n : f[i] = AfterRune(f[i - 1], text[i])
          /\ Scanned(text) = f[n]
    BY ScanTrace
  <2>3. PICK g \in [0 .. n + 1 -> Progress] :
          /\ g[0] = Fresh /\ \A i \in 1 .. n + 1 : g[i] = AfterRune(g[i - 1], longer[i])
          /\ Scanned(longer) = g[n + 1]
    <3> HIDE DEF longer, n
    <3> QED
      BY <2>1, ScanTrace
  <2> HIDE DEF longer, n
  <2>4. GoOnAlike(g, f, n)
    BY <2>1, <2>2, <2>3 DEF GoOnAlike
  <2>5. g[n] = f[n]
    <3>1. \A i \in 0 .. n : g[i] = f[i]
      BY <2>1, <2>4, OneTrace
    <3> QED
      BY <2>1, <3>1
  <2>6. n + 1 \in 1 .. n + 1 /\ (n + 1) - 1 = n
    BY <2>1
  <2> QED
    BY <2>1, <2>2, <2>3, <2>5, <2>6 DEF longer
<1> QED
  BY <1>1, <1>2, <1>3
-------------------------------------------------------------------------------
\* Trimming

Blank(text) == \A i \in DOMAIN text : text[i] = Space

Tidy(text) == text = <<>> \/ (text[1] # Space /\ text[Len(text)] # Space)

\* Texts one after the other; the provers search less if they do not see what it is.
Cat(s, t) == s \o t

LEMMA CatFacts ==
    /\ \A s, t \in Seq(Runes) : Cat(s, t) \in Seq(Runes)
    /\ \A s \in Seq(Runes) : Cat(s, <<>>) = s /\ Cat(<<>>, s) = s
    /\ \A s, t, u \in Seq(Runes) : Cat(Cat(s, t), u) = Cat(s, Cat(t, u))
<1>1. ASSUME NEW s \in Seq(Runes), NEW t \in Seq(Runes) PROVE Cat(s, t) \in Seq(Runes)
  BY ConcatProperties DEF Cat
<1>2. ASSUME NEW s \in Seq(Runes) PROVE Cat(s, <<>>) = s /\ Cat(<<>>, s) = s
  BY ConcatEmptySeq DEF Cat
<1>3. ASSUME NEW s \in Seq(Runes), NEW t \in Seq(Runes), NEW u \in Seq(Runes)
      PROVE  Cat(Cat(s, t), u) = Cat(s, Cat(t, u))
  BY ConcatAssociative DEF Cat
<1> QED
  BY <1>1, <1>2, <1>3

\* A text that begins a longer one,
LEMMA CatFirst ==
    ASSUME NEW s \in Seq(Runes), NEW t \in Seq(Runes), s # <<>>
    PROVE  Cat(s, t) # <<>> /\ Cat(s, t)[1] = s[1]
<1>1. Len(s) \in Nat \ {0} /\ Len(t) \in Nat
  BY EmptySeq, LenProperties
<1>2. Len(s \o t) = Len(s) + Len(t)
      /\ \A i \in 1 .. Len(s) + Len(t) : (s \o t)[i] = IF i <= Len(s) THEN s[i] ELSE t[i - Len(s)]
  BY ConcatProperties
<1>3. (s \o t)[1] = s[1]
  BY <1>1, <1>2
<1>4. s \o t # <<>>
  BY <1>1, <1>2
<1> QED
  BY <1>3, <1>4 DEF Cat

\* and two whose outer ends are solid.
LEMMA CatIsTidy ==
    ASSUME NEW s \in Seq(Runes), NEW t \in Seq(Runes), s # <<>>, t # <<>>,
           s[1] # Space, t[Len(t)] # Space
    PROVE  Tidy(Cat(s, t))
<1>1. Len(s) \in Nat \ {0} /\ Len(t) \in Nat \ {0}
  BY EmptySeq
<1>2. Len(s \o t) = Len(s) + Len(t)
      /\ \A i \in 1 .. Len(s) + Len(t) : (s \o t)[i] = IF i <= Len(s) THEN s[i] ELSE t[i - Len(s)]
  BY ConcatProperties
<1>3. (s \o t)[1] = s[1] /\ (s \o t)[Len(s) + Len(t)] = t[Len(t)]
  BY <1>1, <1>2
<1> QED
  BY <1>2, <1>3 DEF Cat, Tidy

LEMMA BlanksTogether ==
    ASSUME NEW l \in Seq(Runes), NEW r \in Seq(Runes), Blank(l), Blank(r)
    PROVE  Cat(l, r) \in Seq(Runes) /\ Blank(Cat(l, r))
<1> USE DEF Cat
<1>1. l \o r \in Seq(Runes) /\ Len(l \o r) = Len(l) + Len(r)
      /\ \A i \in 1 .. Len(l) + Len(r) : (l \o r)[i] = IF i <= Len(l) THEN l[i] ELSE r[i - Len(l)]
  BY ConcatProperties
<1>2. Len(l) \in Nat /\ Len(r) \in Nat /\ DOMAIN l = 1 .. Len(l) /\ DOMAIN r = 1 .. Len(r)
      /\ DOMAIN (l \o r) = 1 .. Len(l) + Len(r)
  BY <1>1, LenProperties
<1> SUFFICES ASSUME NEW i \in 1 .. Len(l) + Len(r) PROVE (l \o r)[i] = Space
  BY <1>1, <1>2 DEF Blank
<1>3. CASE i <= Len(l)
  <2>1. i \in 1 .. Len(l)
    BY <1>2, <1>3
  <2> QED
    BY <1>1, <1>2, <1>3, <2>1 DEF Blank
<1>4. CASE ~(i <= Len(l))
  <2>1. i - Len(l) \in 1 .. Len(r)
    BY <1>2, <1>4
  <2> QED
    BY <1>1, <1>2, <1>4, <2>1 DEF Blank
<1> QED
  BY <1>3, <1>4

\* A bounded set of numbers has a greatest one.
LEMMA Greatest ==
    ASSUME NEW n \in Nat, NEW S \in SUBSET (0 .. n), S # {}
    PROVE  \E b \in S : \A i \in S : i <= b
<1> DEFINE back == {n - i : i \in S}
<1>1. back \in SUBSET Nat /\ back # {}
  <2>1. PICK i \in S : TRUE
    OBVIOUS
  <2>2. n - i \in back
    BY <2>1
  <2>3. \A j \in S : n - j \in Nat
    OBVIOUS
  <2> QED
    BY <2>2, <2>3
<1>2. PICK c \in back : \A d \in back : c <= d
  <2> HIDE DEF back
  <2> QED
    BY <1>1, Least
<1>3. PICK b \in S : c = n - b
  OBVIOUS
<1>4. ASSUME NEW i \in S PROVE i <= b
  <2>1. n - i \in back
    OBVIOUS
  <2>2. n - b <= n - i
    BY <1>2, <1>3, <2>1
  <2>3. i \in Nat /\ b \in Nat
    OBVIOUS
  <2> QED
    BY <2>2, <2>3
<1> QED
  BY <1>4

\* A text is blanks, what is left of it, and blanks,
LEMMA TrimParts ==
    ASSUME NEW text \in Seq(Runes)
    PROVE  \E l, m, r \in Seq(Runes) :
              Blank(l) /\ Blank(r) /\ Tidy(m) /\ text = Cat(Cat(l, m), r)
<1> DEFINE solid == {i \in DOMAIN text : text[i] # Space}
           n == Len(text)
<1>1. n \in Nat /\ DOMAIN text = 1 .. n /\ <<>> \in Seq(Runes) /\ \A i \in 1 .. n : text[i] \in Runes
  BY LenProperties
<1>2. CASE solid = {}
  <2>1. Blank(text) /\ Blank(<<>>) /\ Tidy(<<>>)
    BY <1>2 DEF Blank, Tidy
  <2>2. text = Cat(Cat(text, <<>>), <<>>)
    BY CatFacts
  <2> QED
    BY <1>1, <2>1, <2>2, Zenon
<1>3. CASE solid # {}
  <2>1. PICK a \in solid : \A i \in solid : a <= i
    <3>1. solid \in SUBSET Nat
      BY <1>1
    <3> QED
      BY <1>3, <3>1, Least
  <2>2. PICK b \in solid : \A i \in solid : i <= b
    <3>1. solid \in SUBSET (0 .. n)
      BY <1>1
    <3> HIDE DEF solid, n
    <3> QED
      BY <1>1, <1>3, <3>1, Greatest
  <2>3. a \in 1 .. n /\ b \in a .. n /\ text[a] # Space /\ text[b] # Space
        /\ \A i \in 1 .. n : i < a \/ b < i => text[i] = Space
    BY <1>1, <2>1, <2>2
  <2> HIDE DEF solid
  <2> DEFINE l == SubSeq(text, 1, a - 1)
             m == SubSeq(text, a, b)
             r == SubSeq(text, b + 1, n)
  <2>4. /\ l \in Seq(Runes) /\ DOMAIN l = 1 .. a - 1 /\ \A i \in 1 .. a - 1 : l[i] = text[i]
    <3> HIDE DEF n
    <3>1. 1 \in Int /\ a - 1 \in Int /\ \A i \in 1 .. a - 1 : text[i] \in Runes
      BY <1>1, <2>3
    <3>2. l \in Seq(Runes) /\ Len(l) = a - 1 /\ \A i \in 1 .. a - 1 : l[i] = text[i]
      BY <1>1, <2>3, <3>1, SubSeqProperties
    <3> HIDE DEF l
    <3> QED
      BY <3>2, LenProperties
  <2>5. /\ m \in Seq(Runes) /\ Len(m) = b - a + 1 /\ m[1] = text[a] /\ m[Len(m)] = text[b]
    <3> HIDE DEF n
    <3>1. a \in Int /\ b \in Int /\ \A i \in a .. b : text[i] \in Runes
      BY <1>1, <2>3
    <3>2. m \in Seq(Runes) /\ Len(m) = b - a + 1 /\ \A i \in 1 .. b - a + 1 : m[i] = text[a + i - 1]
      BY <1>1, <2>3, <3>1, SubSeqProperties
    <3> HIDE DEF m
    <3> QED
      BY <1>1, <2>3, <3>2
  <2>6. /\ r \in Seq(Runes) /\ DOMAIN r = 1 .. n - b /\ \A i \in 1 .. n - b : r[i] = text[b + i]
    <3> HIDE DEF n
    <3>1. b + 1 \in Int /\ n \in Int /\ \A i \in b + 1 .. n : text[i] \in Runes
      BY <1>1, <2>3
    <3>2. r \in Seq(Runes) /\ Len(r) = n - b /\ \A i \in 1 .. n - b : r[i] = text[(b + 1) + i - 1]
      BY <1>1, <2>3, <3>1, SubSeqProperties
    <3> HIDE DEF r
    <3> QED
      BY <1>1, <2>3, <3>2, LenProperties
  <2>7. Cat(Cat(l, m), r) = text
    <3>1. 1 \in 1 .. n + 1 /\ a - 1 \in 0 .. n /\ b \in a - 1 .. n /\ b \in 0 .. n /\ n \in b .. n
          /\ (a - 1) + 1 = a
      BY <1>1, <2>3
    <3>2. l \o m = SubSeq(text, 1, b)
      BY <3>1, ConcatAdjacentSubSeq
    <3>3. SubSeq(text, 1, b) \o r = SubSeq(text, 1, n)
      <4>1. b \in 1 - 1 .. n
        BY <3>1
      <4> QED
        BY <3>1, <4>1, ConcatAdjacentSubSeq
    <3> QED
      BY <3>2, <3>3, SubSeqFull DEF Cat
  <2> HIDE DEF l, m, r, n
  <2>8. Blank(l) /\ Blank(r)
    BY <1>1, <2>3, <2>4, <2>6 DEF Blank
  <2>9. Tidy(m)
    BY <2>3, <2>5 DEF Tidy
  <2> QED
    BY <2>4, <2>5, <2>6, <2>7, <2>8, <2>9
<1> QED
  BY <1>2, <1>3

\* in one way.
LEMMA TrimIs ==
    ASSUME NEW l \in Seq(Runes), NEW m \in Seq(Runes), NEW r \in Seq(Runes),
           Blank(l), Blank(r), Tidy(m)
    PROVE  Trimmed(Cat(Cat(l, m), r)) = m
<1> DEFINE text == (l \o m) \o r
           solid == {i \in DOMAIN text : text[i] # Space}
           a == Len(l) + 1
           b == Len(l) + Len(m)
           n == b + Len(r)
<1>1. Len(l) \in Nat /\ Len(m) \in Nat /\ Len(r) \in Nat
      /\ DOMAIN l = 1 .. Len(l) /\ DOMAIN m = 1 .. Len(m) /\ DOMAIN r = 1 .. Len(r)
  BY LenProperties
<1>2. text \in Seq(Runes) /\ DOMAIN text = 1 .. n
      /\ \A i \in 1 .. n : text[i] =
            IF i <= Len(l) THEN l[i] ELSE IF i <= b THEN m[i - Len(l)] ELSE r[i - b]
  <2>1. l \o m \in Seq(Runes) /\ Len(l \o m) = b
        /\ \A i \in 1 .. b : (l \o m)[i] = IF i <= Len(l) THEN l[i] ELSE m[i - Len(l)]
    BY ConcatProperties
  <2>2. text \in Seq(Runes) /\ Len(text) = n
        /\ \A i \in 1 .. n : text[i] = IF i <= b THEN (l \o m)[i] ELSE r[i - b]
    BY <2>1, ConcatProperties
  <2>3. DOMAIN text = 1 .. n
    BY <2>2, LenProperties
  <2> QED
    BY <1>1, <2>1, <2>2, <2>3
<1>3. solid \subseteq a .. b
  <2> SUFFICES ASSUME NEW i \in 1 .. n, text[i] # Space PROVE i \in a .. b
    BY <1>2
  <2>1. CASE i <= Len(l)
    <3>1. i \in 1 .. Len(l) /\ text[i] = l[i]
      BY <1>1, <1>2, <2>1
    <3> QED
      BY <1>1, <3>1 DEF Blank
  <2>2. CASE b < i
    <3>1. i - b \in 1 .. Len(r) /\ text[i] = r[i - b]
      BY <1>1, <1>2, <2>2
    <3> QED
      BY <1>1, <3>1 DEF Blank
  <2> QED
    BY <1>1, <2>1, <2>2
<1>4. Trimmed(text) =
        IF solid = {} THEN <<>>
        ELSE SubSeq(text, CHOOSE i \in solid : \A j \in solid : i <= j,
                          CHOOSE i \in solid : \A j \in solid : j <= i)
  BY DEF Trimmed
<1> SUFFICES Trimmed(text) = m
  BY DEF Cat
<1>5. CASE m = <<>>
  <2>1. a .. b = {}
    BY <1>1, <1>5
  <2>2. solid = {}
    BY <1>3, <2>1
  <2> HIDE DEF text, solid
  <2> QED
    BY <1>4, <1>5, <2>2 DEF text
<1>6. CASE m # <<>>
  <2>1. a \in 1 .. n /\ b \in 1 .. n /\ a <= b
    BY <1>1, <1>6, EmptySeq
  <2>2. text[a] = m[1] /\ text[b] = m[Len(m)]
    BY <1>1, <1>2, <2>1
  <2>3. a \in solid /\ b \in solid
    BY <1>2, <1>6, <2>1, <2>2 DEF Tidy
  <2> HIDE DEF text, solid
  <2>4. (CHOOSE i \in solid : \A j \in solid : i <= j) = a
    <3>1. a \in Nat /\ \A j \in solid : j \in Nat /\ a <= j
      BY <1>1, <1>3, <2>3
    <3> HIDE DEF a
    <3>2. \A i \in solid : (\A j \in solid : i <= j) => i = a
      BY <2>3, <3>1
    <3> QED
      BY <2>3, <3>1, <3>2
  <2>5. (CHOOSE i \in solid : \A j \in solid : j <= i) = b
    <3>1. b \in Nat /\ \A j \in solid : j \in Nat /\ j <= b
      BY <1>1, <1>3, <2>3
    <3> HIDE DEF b
    <3>2. \A i \in solid : (\A j \in solid : j <= i) => i = b
      BY <2>3, <3>1
    <3> QED
      BY <2>3, <3>1, <3>2
  <2>6. Trimmed(text) = SubSeq(text, a, b)
    BY <1>4, <2>3, <2>4, <2>5
  <2>7. SubSeq(text, a, b) \in Seq(Runes) /\ Len(SubSeq(text, a, b)) = Len(m)
        /\ \A i \in 1 .. Len(m) : SubSeq(text, a, b)[i] = text[a + i - 1]
    <3>1. \A i \in a .. b : text[i] \in Runes
      BY <1>1, <1>2, <2>1
    <3> QED
      BY <1>1, <2>1, <3>1, SubSeqProperties
  <2>8. ASSUME NEW i \in 1 .. Len(m) PROVE text[a + i - 1] = m[i]
    <3>1. a + i - 1 \in 1 .. n /\ ~(a + i - 1 <= Len(l)) /\ a + i - 1 <= b /\ (a + i - 1) - Len(l) = i
      BY <1>1, <2>1
    <3> QED
      BY <1>2, <3>1
  <2>9. SubSeq(text, a, b) = m
    BY <2>7, <2>8, SeqEqual
  <2> QED
    BY <2>6, <2>9 DEF text
<1> QED
  BY <1>5, <1>6

\* Trimming takes the blanks at both ends and nothing else.
LEMMA Trim ==
    ASSUME NEW text \in Seq(Runes)
    PROVE  /\ Trimmed(text) \in Seq(Runes) /\ Tidy(Trimmed(text))
           /\ \E l, r \in Seq(Runes) : Blank(l) /\ Blank(r) /\ text = Cat(Cat(l, Trimmed(text)), r)
           /\ text = Trimmed(text) <=> Tidy(text)
<1>1. PICK l, m, r \in Seq(Runes) : 
          Blank(l) /\ Blank(r) /\ Tidy(m) /\ text = Cat(Cat(l, m), r)
  BY TrimParts
<1>2. Trimmed(text) = m
  BY <1>1, TrimIs
<1>3. Tidy(text) => Trimmed(text) = text
  <2>1. Cat(Cat(<<>>, text), <<>>) = text /\ <<>> \in Seq(Runes) /\ Blank(<<>>)
    BY CatFacts DEF Blank
  <2> QED
    BY <2>1, TrimIs
<1> QED
  BY <1>1, <1>2, <1>3
-------------------------------------------------------------------------------
\* Words before a blank stay what they are

LEMMA ConcatAppend ==
    ASSUME NEW R, NEW s \in Seq(R), NEW t \in Seq(R), NEW r \in R
    PROVE  s \o Append(t, r) = Append(s \o t, r)
<1>1. <<r>> \in Seq(R) /\ s \o t \in Seq(R)
  OBVIOUS
<1>2. Append(t, r) = t \o <<r>>
  BY AppendIsConcat
<1>3. Append(s \o t, r) = (s \o t) \o <<r>>
  BY <1>1, AppendIsConcat
<1> QED
  BY <1>1, <1>2, <1>3, ConcatAssociative

WithArgs(words, st) == [st EXCEPT !.args = words \o @]

LEMMA RuneAfterWords ==
    ASSUME NEW words \in Seq(Seq(Runes)), NEW st \in Progress, NEW r \in Runes
    PROVE  AfterRune(WithArgs(words, st), r) = WithArgs(words, AfterRune(st, r))
<1>1. Flushed(WithArgs(words, st)) = WithArgs(words, Flushed(st))
  <2>1. Append(words \o st.args, st.word) = words \o Append(st.args, st.word)
    <3>1. st.args \in Seq(Seq(Runes)) /\ st.word \in Seq(Runes)
      BY DEF Progress
    <3>2. words \o Append(st.args, st.word) = Append(words \o st.args, st.word)
      BY <3>1, ConcatAppend
    <3> QED
      BY <3>2
  <2> QED
    BY <2>1 DEF Flushed, WithArgs, Progress
<1>2. [WithArgs(words, st) EXCEPT !.word = Append(@, r)] = WithArgs(words, [st EXCEPT !.word = Append(@, r)])
  BY DEF WithArgs, Progress
<1>3. [WithArgs(words, st) EXCEPT !.word = Append(@, r), !.escaped = FALSE] = WithArgs(words, [st EXCEPT !.word = Append(@, r), !.escaped = FALSE])
  BY DEF WithArgs, Progress
<1>4. [WithArgs(words, st) EXCEPT !.escaped = TRUE] = WithArgs(words, [st EXCEPT !.escaped = TRUE])
  BY DEF WithArgs, Progress
<1>5. [WithArgs(words, st) EXCEPT !.quote = NoQuote] = WithArgs(words, [st EXCEPT !.quote = NoQuote])
  BY DEF WithArgs, Progress
<1>6. [WithArgs(words, st) EXCEPT !.quote = r] = WithArgs(words, [st EXCEPT !.quote = r])
  BY DEF WithArgs, Progress
<1>7. /\ WithArgs(words, st).escaped = st.escaped /\ WithArgs(words, st).quote = st.quote
  BY DEF WithArgs, Progress
<1> QED
  BY <1>1, <1>2, <1>3, <1>4, <1>5, <1>6, <1>7 DEF AfterRune

\* After a text that leaves nothing open the split starts anew.
LEMMA ScanAfter ==
    ASSUME NEW first \in Seq(Runes), NEW words \in Seq(Seq(Runes)),
           Scanned(first) = WithArgs(words, Fresh), NEW text \in Seq(Runes)
    PROVE  Scanned(Cat(first, text)) = WithArgs(words, Scanned(text))
<1> DEFINE T == {t \in Seq(Runes) : Scanned(Cat(first, t)) = WithArgs(words, Scanned(t))}
<1>1. <<>> \in T
  <2>1. Cat(first, <<>>) = first /\ <<>> \in Seq(Runes)
    BY CatFacts
  <2> QED
    BY <2>1, ScanSteps
<1>2. ASSUME NEW t \in Seq(Runes), NEW r \in Runes, t \in T PROVE Append(t, r) \in T
  <2>1. Cat(first, Append(t, r)) = Append(Cat(first, t), r) /\ Cat(first, t) \in Seq(Runes)
        /\ Append(t, r) \in Seq(Runes)
    BY ConcatAppend, ConcatProperties DEF Cat
  <2>2. Scanned(t) \in Progress
    BY ScanSteps
  <2>3. Scanned(Append(Cat(first, t), r)) = AfterRune(WithArgs(words, Scanned(t)), r)
    BY <1>2, <2>1, ScanSteps
  <2>4. Scanned(Append(t, r)) = AfterRune(Scanned(t), r)
    BY ScanSteps
  <2> QED
    BY <2>1, <2>2, <2>3, <2>4, RuneAfterWords
<1>3. Seq(Runes) \subseteq T
  <2> HIDE DEF T
  <2> QED
    BY <1>1, <1>2, Texts
<1> QED
  BY <1>3

\* Blanks where nothing is open change nothing.
LEMMA ScanBlanks ==
    ASSUME NEW first \in Seq(Runes), NEW text \in Seq(Runes), Blank(text),
           Scanned(first).word = <<>>, Scanned(first).quote = NoQuote, ~Scanned(first).escaped
    PROVE  Scanned(Cat(first, text)) = Scanned(first)
<1> DEFINE T == {t \in Seq(Runes) : Blank(t) => Scanned(Cat(first, t)) = Scanned(first)}
<1>1. <<>> \in T
  <2>1. Cat(first, <<>>) = first /\ <<>> \in Seq(Runes)
    BY CatFacts
  <2> QED
    BY <2>1
<1>2. ASSUME NEW t \in Seq(Runes), NEW r \in Runes, t \in T PROVE Append(t, r) \in T
  <2>1. Cat(first, Append(t, r)) = Append(Cat(first, t), r) /\ Cat(first, t) \in Seq(Runes)
        /\ Append(t, r) \in Seq(Runes)
    BY ConcatAppend, ConcatProperties DEF Cat
  <2>2. Blank(Append(t, r)) => Blank(t) /\ r = Space
    <3>1. DOMAIN Append(t, r) = 1 .. Len(t) + 1 /\ Append(t, r)[Len(t) + 1] = r
          /\ DOMAIN t = 1 .. Len(t) /\ \A i \in 1 .. Len(t) : Append(t, r)[i] = t[i]
      OBVIOUS
    <3> QED
      BY <3>1, LenProperties DEF Blank
  <2>3. AfterRune(Scanned(first), Space) = Scanned(first)
    BY RuneAssumption DEF AfterRune, Flushed
  <2>4. Scanned(Append(Cat(first, t), r)) = AfterRune(Scanned(Cat(first, t)), r)
    BY <2>1, ScanSteps
  <2> QED
    BY <1>2, <2>1, <2>2, <2>3, <2>4
<1>3. Seq(Runes) \subseteq T
  <2> HIDE DEF T
  <2> QED
    BY <1>1, <1>2, Texts
<1> QED
  BY <1>3
LEMMA AtEndAfter ==
    ASSUME NEW words \in Seq(Seq(Runes)), NEW st \in Progress
    PROVE  AtEnd(WithArgs(words, st)).args = words \o AtEnd(st).args
<1> DEFINE last == IF st.escaped THEN [st EXCEPT !.word = Append(@, Backslash)] ELSE st
           word == last.word
<1>1. word \in Seq(Runes) /\ last.args = st.args
  BY DEF Progress, Runes
<1>2. AtEnd(st).args = IF word = <<>> THEN st.args ELSE Append(st.args, word)
  BY DEF AtEnd, Flushed, Progress
<1>3. AtEnd(WithArgs(words, st)).args =
        IF word = <<>> THEN words \o st.args ELSE Append(words \o st.args, word)
  BY DEF AtEnd, Flushed, WithArgs, Progress
<1>4. words \o Append(st.args, word) = Append(words \o st.args, word)
  BY <1>1, ConcatAppend DEF Progress
<1> QED
  BY <1>2, <1>3, <1>4

LEMMA FreshAfter ==
    ASSUME NEW words \in Seq(Seq(Runes))
    PROVE  WithArgs(words, Fresh) = [args |-> words, word |-> <<>>, quote |-> NoQuote, escaped |-> FALSE]
<1>1. Fresh.args = <<>> /\ Fresh.word = <<>> /\ Fresh.quote = NoQuote /\ Fresh.escaped = FALSE
      /\ DOMAIN Fresh = {"args", "word", "quote", "escaped"}
  BY DEF Fresh
<1>2. words \o Fresh.args = words
  BY <1>1, ConcatEmptySeq
<1>3. WithArgs(words, Fresh) = [Fresh EXCEPT !.args = words]
  BY <1>2 DEF WithArgs
<1> QED
  BY <1>3 DEF Fresh

LEMMA SplitType ==
    ASSUME NEW text \in Seq(Runes)
    PROVE  Split(text) \in Seq(Seq(Runes))
<1> DEFINE st == Scanned(Trimmed(text))
<1>1. st \in Progress
  BY Trim, ScanSteps
<1> HIDE DEF st
<1> DEFINE last == IF st.escaped THEN [st EXCEPT !.word = Append(@, Backslash)] ELSE st
<1>2. last \in Progress
  <2>1. Append(st.word, Backslash) \in Seq(Runes)
    BY <1>1 DEF Progress, Runes
  <2> QED
    BY <1>1, <2>1 DEF Progress
<1> HIDE DEF last
<1>3. Flushed(last).args \in Seq(Seq(Runes))
  <2>1. last.args \in Seq(Seq(Runes)) /\ Append(last.args, last.word) \in Seq(Seq(Runes))
    BY <1>2, AppendProperties DEF Progress
  <2> QED
    BY <1>2, <2>1 DEF Flushed, Progress
<1> QED
  BY <1>3 DEF Split, AtEnd, last, st

\* A text after words and a blank is split as it is alone.
LEMMA SplitAfter ==
    ASSUME NEW first \in Seq(Runes), NEW rest \in Seq(Runes),
           Tidy(first), ~Refused(first), ~Scanned(first).escaped
    PROVE  /\ Refused(Cat(Cat(first, <<Space>>), rest)) <=> Refused(rest)
           /\ Split(Cat(Cat(first, <<Space>>), rest)) = Split(first) \o Split(rest)
<1> DEFINE blank == <<Space>>
           m == Trimmed(rest)
           words == Split(first)
<1>1. blank \in Seq(Runes) /\ Blank(blank) /\ <<>> \in Seq(Runes) /\ Blank(<<>>) /\ Tidy(<<>>)
  BY DEF Blank, Tidy, Runes
<1>2. Trimmed(first) = first /\ Scanned(first) \in Progress /\ Scanned(first).quote = NoQuote
  BY Trim, ScanSteps DEF Refused
<1>3. m \in Seq(Runes) /\ Tidy(m) /\ Scanned(m) \in Progress
  BY Trim, ScanSteps
<1>4. PICK l, r \in Seq(Runes) : Blank(l) /\ Blank(r) /\ rest = Cat(Cat(l, m), r)
  BY Trim
<1>5. words \in Seq(Seq(Runes)) /\ Split(rest) \in Seq(Seq(Runes))
  BY SplitType
<1>6. Split(rest) = AtEnd(Scanned(m)).args /\ (Refused(rest) <=> Scanned(m).quote # NoQuote)
  BY DEF Split, Refused
<1>7. words = AtEnd(Scanned(first)).args
  BY <1>2 DEF Split
<1>8. Cat(first, blank) = Append(first, Space)
  BY AppendIsConcat DEF Cat, Runes
<1> HIDE DEF blank, m, words
<1> DEFINE whole == Cat(Cat(first, blank), rest)
           lead == Cat(Cat(first, blank), l)
<1>9. Trimmed(<<>>) = <<>> /\ Scanned(<<>>) = Fresh /\ AtEnd(Fresh).args = <<>> /\ Fresh.quote = NoQuote
  BY <1>1, Trim, ScanSteps DEF AtEnd, Flushed, Fresh
\* The first part closes its last word at the blank.
<1>10. Scanned(Cat(first, blank)) = WithArgs(words, Fresh)
  <2>1. Scanned(Cat(first, blank)) = Flushed(Scanned(first))
    <3>1. Scanned(Cat(first, blank)) = AfterRune(Scanned(first), Space)
      BY <1>8, ScanSteps DEF Runes
    <3> QED
      BY <1>2, <3>1, RuneAssumption DEF AfterRune
  <2> DEFINE st == Scanned(first)
  <2>2. st \in Progress /\ st.quote = NoQuote /\ ~st.escaped /\ words = AtEnd(st).args
    BY <1>2, <1>7
  <2> HIDE DEF st
  <2>3. Flushed(st) = [args |-> words, word |-> <<>>, quote |-> NoQuote, escaped |-> FALSE]
    BY <2>2 DEF AtEnd, Flushed, Progress
  <2> QED
    BY <1>5, <2>1, <2>3, FreshAfter DEF st
<1>11. lead \in Seq(Runes) /\ Scanned(lead) = WithArgs(words, Fresh)
  <2> DEFINE open == Cat(first, blank)
  <2>1. open \in Seq(Runes)
    BY <1>1, CatFacts
  <2>2. Scanned(open) = WithArgs(words, Fresh)
    BY <1>10
  <2> HIDE DEF open
  <2>3. Scanned(open).word = <<>> /\ Scanned(open).quote = NoQuote /\ ~Scanned(open).escaped
    BY <1>5, <2>2, FreshAfter
  <2>4. Cat(open, l) \in Seq(Runes) /\ Scanned(Cat(open, l)) = WithArgs(words, Fresh)
    BY <1>4, <2>1, <2>2, <2>3, ScanBlanks, CatFacts
  <2> QED
    BY <2>4 DEF open
<1>12. Scanned(Cat(lead, m)) = WithArgs(words, Scanned(m)) /\ Cat(lead, m) \in Seq(Runes)
  <2> HIDE DEF lead
  <2> QED
    BY <1>3, <1>5, <1>11, ScanAfter, CatFacts
<1>13. whole = Cat(Cat(lead, m), r)
  BY <1>1, <1>3, <1>4, CatFacts
<1>14. CASE first # <<>> /\ m # <<>>
  <2>1. Tidy(Cat(lead, m))
    <3>1. Cat(first, blank) # <<>> /\ Cat(first, blank)[1] = first[1] /\ Cat(first, blank) \in Seq(Runes)
      BY <1>1, <1>14, CatFirst, CatFacts
    <3>2. first[1] # Space /\ m[Len(m)] # Space
      BY <1>3, <1>14 DEF Tidy
    <3>3. lead # <<>> /\ lead[1] = first[1]
      <4> DEFINE open == Cat(first, blank)
      <4> HIDE DEF open
      <4>1. Cat(open, l) # <<>> /\ Cat(open, l)[1] = open[1]
        BY <3>1, CatFirst DEF open
      <4> QED
        BY <3>1, <4>1 DEF open
    <3> HIDE DEF lead
    <3> QED
      BY <1>3, <1>11, <1>14, <3>2, <3>3, CatIsTidy
  <2> HIDE DEF lead, whole
  <2>2. Trimmed(whole) = Cat(lead, m)
    <3> DEFINE core == Cat(lead, m)
    <3>1. core \in Seq(Runes) /\ Tidy(core) /\ whole = Cat(core, r)
      BY <1>12, <1>13, <2>1
    <3> HIDE DEF core
    <3>2. whole = Cat(Cat(<<>>, core), r)
      BY <3>1, CatFacts
    <3>3. Trimmed(Cat(Cat(<<>>, core), r)) = core
      BY <1>1, <1>4, <3>1, TrimIs
    <3> QED
      BY <3>2, <3>3 DEF core
  <2>3. Split(whole) = AtEnd(WithArgs(words, Scanned(m))).args
    BY <1>12, <2>2 DEF Split
  <2>4. Refused(whole) <=> WithArgs(words, Scanned(m)).quote # NoQuote
    BY <1>12, <2>2 DEF Refused
  <2>5. WithArgs(words, Scanned(m)).quote = Scanned(m).quote
    BY DEF WithArgs
  <2>6. AtEnd(WithArgs(words, Scanned(m))).args = words \o AtEnd(Scanned(m)).args
    BY <1>3, <1>5, AtEndAfter
  <2> QED
    BY <1>6, <2>3, <2>4, <2>5, <2>6 DEF whole, blank, words
<1>15. CASE m = <<>>
  <2> DEFINE blanks == Cat(Cat(blank, l), r)
  <2>1. whole = Cat(Cat(<<>>, first), blanks)
    BY <1>1, <1>4, <1>11, <1>13, <1>15, CatFacts
  <2>2. blanks \in Seq(Runes) /\ Blank(blanks)
    BY <1>1, <1>4, BlanksTogether
  <2> HIDE DEF whole, blanks
  <2>3. Trimmed(whole) = first
    BY <1>1, <2>1, <2>2, TrimIs
  <2>4. Split(rest) = <<>> /\ ~Refused(rest)
    BY <1>6, <1>9, <1>15
  <2>5. Split(whole) = words /\ ~Refused(whole)
    BY <1>2, <1>7, <2>3 DEF Split, Refused
  <2>6. words \o <<>> = words
    BY <1>5, ConcatEmptySeq
  <2> QED
    BY <2>4, <2>5, <2>6 DEF whole, blank, words
<1>16. CASE first = <<>>
  <2> DEFINE blanks == Cat(blank, l)
  <2>1. whole = Cat(Cat(blanks, m), r)
    BY <1>1, <1>13, <1>16, CatFacts
  <2>2. blanks \in Seq(Runes) /\ Blank(blanks)
    BY <1>1, <1>4, BlanksTogether
  <2> HIDE DEF whole, blanks
  <2>3. Trimmed(whole) = m
    BY <1>3, <1>4, <2>1, <2>2, TrimIs
  <2>4. Split(whole) = Split(rest) /\ (Refused(whole) <=> Refused(rest))
    BY <1>6, <2>3 DEF Split, Refused
  <2>5. words = <<>>
    BY <1>7, <1>9, <1>16
  <2>6. <<>> \o Split(rest) = Split(rest)
    BY <1>5, ConcatEmptySeq
  <2> QED
    BY <2>4, <2>5, <2>6 DEF whole, blank, words
<1> QED
  BY <1>14, <1>15, <1>16 DEF whole, blank, words

TypedIsText == typed \in Seq(Runes)

LEMMA TypedIsTextHolds == FieldSpec => []TypedIsText
<1>1. FieldInit => TypedIsText
  BY DEF FieldInit, TypedIsText
<1>2. TypedIsText /\ [FieldNext]_typed => TypedIsText'
  <2> SUFFICES ASSUME typed \in Seq(Runes), [FieldNext]_typed PROVE typed' \in Seq(Runes)
    BY DEF TypedIsText
  <2>1. ASSUME NEW r \in Runes, Type(r) PROVE typed' \in Seq(Runes)
    BY <2>1, AppendProperties DEF Type
  <2>2. CASE Erase
    <3>1. typed' = SubSeq(typed, 1, Len(typed) - 1)
      BY <2>2 DEF Erase, Front
    <3>2. Len(typed) \in Nat /\ \A i \in 1 .. Len(typed) : typed[i] \in Runes
      BY LenProperties
    <3>3. Len(typed) - 1 \in Int /\ \A i \in 1 .. Len(typed) - 1 : typed[i] \in Runes
      BY <3>2
    <3> QED
      BY <3>1, <3>3, SubSeqProperties
  <2> QED
    BY <2>1, <2>2 DEF FieldNext
<1> QED
  BY <1>1, <1>2, PTL DEF FieldSpec

\* For every text, of any length: splitCommandLine treats a blank outside quotes
\* as the end of an argument and as nothing else, so the arguments of a command
\* line are those of its two parts, and it is refused when the second part is.
THEOREM BlanksSeparateHolds == FieldSpec => []BlanksSeparate
<1>1. TypedIsText => BlanksSeparate
  <2> SUFFICES ASSUME typed \in Seq(Runes), NEW i \in DOMAIN typed, typed[i] = Space,
                      SubSeq(typed, 1, i - 1) = Trimmed(SubSeq(typed, 1, i - 1)),
                      ~Refused(SubSeq(typed, 1, i - 1)), ~Scanned(SubSeq(typed, 1, i - 1)).escaped
               PROVE  LET first == SubSeq(typed, 1, i - 1)
                          rest == SubSeq(typed, i + 1, Len(typed))
                      IN  /\ Refused(typed) <=> Refused(rest)
                          /\ ~Refused(typed) => Split(typed) = Split(first) \o Split(rest)
    BY DEF TypedIsText, BlanksSeparate
  <2> DEFINE n == Len(typed)
             first == SubSeq(typed, 1, i - 1)
             rest == SubSeq(typed, i + 1, n)
  <2>1. n \in Nat /\ i \in 1 .. n /\ \A j \in 1 .. n : typed[j] \in Runes
    BY LenProperties
  <2>2. first \in Seq(Runes) /\ rest \in Seq(Runes)
    <3> HIDE DEF n
    <3> QED
      BY <2>1, SubSeqProperties
  <2>3. Tidy(first)
    BY <2>2, Trim
  <2>4. typed = Cat(Cat(first, <<Space>>), rest)
    <3>1. SubSeq(typed, 1, i) = first \o <<Space>>
      <4>1. 1 \in 1 .. n /\ i \in 1 .. n
        BY <2>1
      <4> QED
        BY <4>1, SubSeqRecursiveSecond
    <3>2. SubSeq(typed, 1, i) \o rest = SubSeq(typed, 1, n)
      <4>1. i \in 1 - 1 .. n /\ n \in i .. n /\ 1 \in 1 .. n + 1
        BY <2>1
      <4> QED
        BY <4>1, ConcatAdjacentSubSeq
    <3> QED
      BY <3>1, <3>2, SubSeqFull DEF Cat
  <2> HIDE DEF first, rest
  <2>5. (Refused(typed) <=> Refused(rest)) /\ Split(typed) = Split(first) \o Split(rest)
    <3>1. ~Refused(first) /\ ~Scanned(first).escaped
      BY DEF first
    <3> DEFINE whole == Cat(Cat(first, <<Space>>), rest)
    <3>2. Refused(whole) <=> Refused(rest)
      BY <2>2, <2>3, <3>1, SplitAfter
    <3>3. Split(whole) = Split(first) \o Split(rest)
      BY <2>2, <2>3, <3>1, SplitAfter
    <3>4. typed = whole
      BY <2>4
    <3> HIDE DEF whole
    <3> QED
      BY <3>2, <3>3, <3>4
  <2> QED
    BY <2>5 DEF first, rest
<1> QED
  BY <1>1, TypedIsTextHolds, PTL
-------------------------------------------------------------------------------
\* Any argument can be typed

\* One sequence after another, from the last.
LEMMA FlattenSteps ==
    /\ FlattenSeq(<<>>) = <<>>
    /\ \A ss \in Seq(Seq(Runes)) : FlattenSeq(ss) \in Seq(Runes)
    /\ \A ss \in Seq(Seq(Runes)), s \in Seq(Runes) :
          FlattenSeq(Append(ss, s)) = Cat(FlattenSeq(ss), s)
<1>1. FlattenSeq(<<>>) = <<>>
  BY DEF FlattenSeq
<1>2. ASSUME NEW ss \in Seq(Seq(Runes))
      PROVE  \E f \in [0 .. Len(ss) -> Seq(Runes)] :
                /\ f[0] = <<>> /\ \A i \in 1 .. Len(ss) : f[i] = Cat(f[i - 1], ss[i])
                /\ FlattenSeq(ss) = f[Len(ss)]
  <2> DEFINE n == Len(ss)
             turn == [i \in 1 .. n |-> [t \in Seq(Runes) |-> Cat(t, ss[i])]]
             flatten[i \in 1 .. n] == IF i = 1 THEN ss[i] ELSE Cat(flatten[i - 1], ss[i])
  <2>1. n \in Nat /\ <<>> \in Seq(Runes) /\ \A i \in 1 .. n : ss[i] \in Seq(Runes)
    OBVIOUS
  <2>2. turn \in [1 .. n -> [Seq(Runes) -> Seq(Runes)]]
    BY <2>1, CatFacts
  <2>3. PICK f \in [0 .. n -> Seq(Runes)] : IsTrace(f, n, <<>>, turn)
    <3> HIDE DEF turn, n
    <3> QED
      BY <2>1, <2>2, Trace
  <2>4. ASSUME NEW i \in 1 .. n PROVE f[i] = Cat(f[i - 1], ss[i])
    <3> HIDE DEF n, turn
    <3>1. f[i - 1] \in Seq(Runes)
      BY <2>1
    <3>2. f[i] = turn[i][f[i - 1]]
      BY <2>3 DEF IsTrace
    <3> QED
      BY <3>1, <3>2 DEF turn
  <2> HIDE DEF turn
  <2>5. f[0] = <<>>
    BY <2>3 DEF IsTrace
  <2>6. CASE n = 0
    <3>1. FlattenSeq(ss) = <<>>
      BY <2>1, <2>6, EmptySeq DEF FlattenSeq
    <3> HIDE DEF n
    <3> QED
      BY <2>1, <2>3, <2>4, <2>5, <2>6, <3>1 DEF n
  <2>7. CASE n # 0
    <3> DEFINE g == [i \in 1 .. n |-> f[i]]
               h == [i \in 0 .. n |-> IF i = 0 THEN <<>> ELSE flatten[i]]
    <3>1. g = [i \in 1 .. n |-> IF i = 1 THEN ss[i] ELSE Cat(g[i - 1], ss[i])]
      <4> HIDE DEF n
      <4>1. ASSUME NEW i \in 1 .. n PROVE f[i] = IF i = 1 THEN ss[i] ELSE Cat(g[i - 1], ss[i])
        <5>1. CASE i = 1
          <6>1. f[1] = Cat(<<>>, ss[1])
            BY <2>4, <2>5, <5>1
          <6>2. Cat(<<>>, ss[1]) = ss[1]
            BY <2>1, <5>1, CatFacts
          <6> QED
            BY <5>1, <6>1, <6>2
        <5>2. CASE i # 1
          <6>1. i - 1 \in 1 .. n
            BY <2>1, <5>2
          <6> QED
            BY <2>4, <5>2, <6>1
        <5> QED
          BY <5>1, <5>2
      <4> QED
        BY <4>1
    <3>2. flatten = [i \in 1 .. n |-> IF i = 1 THEN ss[i] ELSE Cat(flatten[i - 1], ss[i])]
      <4> HIDE DEF n, g
      <4> QED
        BY <3>1 DEF flatten
    <3>3. FlattenSeq(ss) = flatten[n]
      BY <2>7 DEF FlattenSeq, Cat
    <3> HIDE DEF flatten, n, g
    <3>4. GoOnAlike(h, f, n)
      <4>1. h[0] = f[0]
        BY <2>1, <2>5
      <4>2. ASSUME NEW i \in 1 .. n, h[i - 1] = f[i - 1] PROVE h[i] = f[i]
        <5>1. CASE i = 1
          <6>1. h[1] = ss[1]
            BY <2>1, <3>2, <5>1
          <6>2. f[1] = Cat(<<>>, ss[1]) /\ Cat(<<>>, ss[1]) = ss[1]
            BY <2>1, <2>4, <2>5, <5>1, CatFacts
          <6> QED
            BY <5>1, <6>1, <6>2
        <5>2. CASE i # 1
          <6>1. i - 1 \in 1 .. n
            BY <2>1, <5>2
          <6>2. h[i] = Cat(flatten[i - 1], ss[i]) /\ h[i - 1] = flatten[i - 1]
            BY <3>2, <5>2, <6>1
          <6> QED
            BY <2>4, <4>2, <6>2
        <5> QED
          BY <5>1, <5>2
      <4> HIDE DEF h
      <4> QED
        BY <4>1, <4>2 DEF GoOnAlike
    <3>5. h[n] = f[n]
      <4> HIDE DEF h
      <4> QED
        BY <2>1, <3>4, OneTrace
    <3>6. h[n] = flatten[n]
      BY <2>1, <2>7
    <3> HIDE DEF h
    <3> QED
      BY <2>1, <2>3, <2>4, <2>5, <3>3, <3>5, <3>6 DEF n
  <2> QED
    BY <2>6, <2>7
<1>3. ASSUME NEW ss \in Seq(Seq(Runes)) PROVE FlattenSeq(ss) \in Seq(Runes)
  <2>1. Len(ss) \in 0 .. Len(ss)
    BY LenProperties
  <2> QED
    BY <1>2, <2>1
<1>4. ASSUME NEW ss \in Seq(Seq(Runes)), NEW s \in Seq(Runes)
      PROVE  FlattenSeq(Append(ss, s)) = Cat(FlattenSeq(ss), s)
  <2> DEFINE n == Len(ss)
             longer == Append(ss, s)
  <2>1. n \in Nat /\ longer \in Seq(Seq(Runes)) /\ Len(longer) = n + 1 /\ longer[n + 1] = s
        /\ \A i \in 1 .. n : longer[i] = ss[i]
    BY LenProperties, AppendProperties
  <2>2. PICK f \in [0 .. n -> Seq(Runes)] :
          /\ f[0] = <<>> /\ \A i \in 1 .. n : f[i] = Cat(f[i - 1], ss[i])
          /\ FlattenSeq(ss) = f[n]
    BY <1>2
  <2> HIDE DEF longer, n
  <2>3. PICK g \in [0 .. n + 1 -> Seq(Runes)] :
          /\ g[0] = <<>> /\ \A i \in 1 .. n + 1 : g[i] = Cat(g[i - 1], longer[i])
          /\ FlattenSeq(longer) = g[n + 1]
    BY <1>2, <2>1
  <2>4. GoOnAlike(g, f, n)
    BY <2>1, <2>2, <2>3 DEF GoOnAlike
  <2>5. n \in Nat
    BY <2>1
  <2>6. g[n] = f[n]
    <3>1. \A i \in 0 .. n : g[i] = f[i]
      BY <2>4, <2>5, OneTrace
    <3> QED
      BY <2>5, <3>1
  <2>7. n + 1 \in 1 .. n + 1 /\ (n + 1) - 1 = n
    BY <2>5
  <2>8. g[n + 1] = Cat(g[n], s)
    BY <2>1, <2>3, <2>7
  <2> QED
    BY <2>2, <2>3, <2>6, <2>8 DEF longer
<1> QED
  BY <1>1, <1>3, <1>4

\* A rune between quotes, and the runes of a word.
Escaped(r) == IF r \in {Quote, Backslash} THEN <<Backslash, r>> ELSE <<r>>

Inside(word) == FlattenSeq([i \in DOMAIN word |-> Escaped(word[i])])

LEMMA EscapedType == \A r \in Runes : Escaped(r) \in Seq(Runes)
<1>1. ASSUME NEW r \in Runes PROVE <<r>> \in Seq(Runes) /\ <<Backslash, r>> \in Seq(Runes)
  <2>1. Backslash \in Runes
    BY DEF Runes
  <2> QED
    BY <2>1
<1> QED
  BY <1>1 DEF Escaped

LEMMA InsideSteps ==
    /\ Inside(<<>>) = <<>>
    /\ \A word \in Seq(Runes) : Inside(word) \in Seq(Runes)
    /\ \A word \in Seq(Runes), r \in Runes : Inside(Append(word, r)) = Cat(Inside(word), Escaped(r))
<1> DEFINE Each(word) == [i \in DOMAIN word |-> Escaped(word[i])]
<1>1. ASSUME NEW word \in Seq(Runes)
      PROVE  Each(word) \in Seq(Seq(Runes)) /\ Len(Each(word)) = Len(word)
  <2>1. \A i \in DOMAIN word : Escaped(word[i]) \in Seq(Runes)
    BY EscapedType
  <2>2. DOMAIN word = 1 .. Len(word) /\ Len(word) \in Nat
    BY LenProperties
  <2> QED
    BY <2>1, <2>2
<1>2. Inside(<<>>) = <<>>
  <2>1. Each(<<>>) = <<>>
    OBVIOUS
  <2> QED
    BY <2>1, FlattenSteps DEF Inside
<1>3. ASSUME NEW word \in Seq(Runes), NEW r \in Runes
      PROVE  Each(Append(word, r)) = Append(Each(word), Escaped(r))
  <2>1. Len(word) \in Nat /\ Append(word, r) \in Seq(Runes) /\ Len(Append(word, r)) = Len(word) + 1
        /\ Append(word, r)[Len(word) + 1] = r
        /\ \A i \in 1 .. Len(word) : Append(word, r)[i] = word[i]
    BY LenProperties, AppendProperties
  <2> DEFINE longer == Append(word, r)
             left == Each(longer)
             right == Append(Each(word), Escaped(r))
  <2>2. left \in Seq(Seq(Runes)) /\ Len(left) = Len(word) + 1
    BY <1>1, <2>1
  <2>3. right \in Seq(Seq(Runes)) /\ Len(right) = Len(word) + 1 /\ right[Len(word) + 1] = Escaped(r)
        /\ \A i \in 1 .. Len(word) : right[i] = Each(word)[i]
    BY <1>1, EscapedType, AppendProperties
  <2>4. ASSUME NEW i \in 1 .. Len(word) + 1 PROVE left[i] = right[i]
    <3>1. left[i] = Escaped(longer[i])
      BY <2>1, LenProperties
    <3>2. i \in 1 .. Len(word) => Each(word)[i] = Escaped(word[i])
      BY LenProperties
    <3>3. CASE i = Len(word) + 1
      <4>1. longer[i] = r /\ right[i] = Escaped(r)
        BY <2>1, <2>3, <3>3
      <4> HIDE DEF left, right, longer
      <4> QED
        BY <3>1, <4>1
    <3>4. CASE i \in 1 .. Len(word)
      <4>1. longer[i] = word[i] /\ right[i] = Each(word)[i]
        BY <2>1, <2>3, <3>4
      <4> HIDE DEF left, right, longer, Each
      <4> QED
        BY <3>1, <3>2, <3>4, <4>1
    <3>5. i = Len(word) + 1 \/ i \in 1 .. Len(word)
      BY <2>1
    <3> HIDE DEF left, right, longer
    <3> QED
      BY <3>3, <3>4, <3>5
  <2> HIDE DEF left, right
  <2>5. left = right
    BY <2>2, <2>3, <2>4, SeqEqual
  <2> QED
    BY <2>5 DEF left, right
<1> HIDE DEF Each
<1> QED
  BY <1>1, <1>2, <1>3, EscapedType, FlattenSteps DEF Inside, Each

\* The loop in the middle of a word between quotes.
InQuotes(word) == [args |-> <<>>, word |-> word, quote |-> Quote, escaped |-> FALSE]
AfterBackslash(word) == [args |-> <<>>, word |-> word, quote |-> Quote, escaped |-> TRUE]

LEMMA ScanInside ==
    ASSUME NEW word \in Seq(Runes)
    PROVE  Scanned(Cat(<<Quote>>, Inside(word))) = InQuotes(word)
<1> DEFINE T == {w \in Seq(Runes) : Scanned(Cat(<<Quote>>, Inside(w))) = InQuotes(w)}
<1>1. <<Quote>> \in Seq(Runes) /\ <<>> \in Seq(Runes) /\ Quote \in Runes /\ Backslash \in Runes
      /\ Quote # NoQuote /\ Backslash # Quote /\ Space # Quote
  BY RuneAssumption DEF Runes
<1>2. <<>> \in T
  <2>1. Cat(<<Quote>>, Inside(<<>>)) = Append(<<>>, Quote)
    <3>1. Inside(<<>>) = <<>>
      BY InsideSteps
    <3>2. Cat(<<Quote>>, <<>>) = <<Quote>>
      BY <1>1, CatFacts
    <3>3. <<Quote>> = Append(<<>>, Quote)
      OBVIOUS
    <3> QED
      BY <3>1, <3>2, <3>3
  <2>2. Scanned(Append(<<>>, Quote)) = AfterRune(Fresh, Quote)
    BY <1>1, ScanSteps
  <2>3. AfterRune(Fresh, Quote) = InQuotes(<<>>)
    BY <1>1 DEF AfterRune, Fresh, InQuotes
  <2> QED
    BY <1>1, <2>1, <2>2, <2>3
<1>3. ASSUME NEW w \in Seq(Runes), NEW r \in Runes, w \in T PROVE Append(w, r) \in T
  <2> DEFINE before == Cat(<<Quote>>, Inside(w))
  <2>1. before \in Seq(Runes) /\ Inside(w) \in Seq(Runes) /\ Append(w, r) \in Seq(Runes)
    BY <1>1, CatFacts, InsideSteps, AppendProperties
  <2>2. Scanned(before) = InQuotes(w)
    BY <1>3
  <2>3. Cat(<<Quote>>, Inside(Append(w, r))) = Cat(before, Escaped(r))
    <3>1. Inside(Append(w, r)) = Cat(Inside(w), Escaped(r))
      BY InsideSteps
    <3>2. Cat(<<Quote>>, Cat(Inside(w), Escaped(r))) = Cat(Cat(<<Quote>>, Inside(w)), Escaped(r))
      <4>1. Escaped(r) \in Seq(Runes)
        BY EscapedType
      <4> DEFINE q == <<Quote>>
                 in == Inside(w)
                 esc == Escaped(r)
      <4>2. q \in Seq(Runes) /\ in \in Seq(Runes) /\ esc \in Seq(Runes)
        BY <1>1, <2>1, <4>1
      <4> HIDE DEF q, in, esc
      <4>3. Cat(Cat(q, in), esc) = Cat(q, Cat(in, esc))
        BY <4>2, CatFacts
      <4> QED
        BY <4>3 DEF q, in, esc
    <3> QED
      BY <3>1, <3>2
  <2> HIDE DEF before
  <2>4. CASE r \in {Quote, Backslash}
    <3>1. Cat(before, <<Backslash, r>>) = Append(Append(before, Backslash), r)
      <4>1. <<Backslash, r>> = Append(<<Backslash>>, r) /\ <<Backslash>> \in Seq(Runes)
        BY <1>1
      <4>2. before \o Append(<<Backslash>>, r) = Append(before \o <<Backslash>>, r)
        BY <2>1, <4>1, ConcatAppend
      <4>3. before \o <<Backslash>> = Append(before, Backslash)
        BY <1>1, <2>1, AppendIsConcat
      <4> QED
        BY <4>1, <4>2, <4>3 DEF Cat
    <3>2. Append(before, Backslash) \in Seq(Runes)
      BY <1>1, <2>1, AppendProperties
    <3>3. Scanned(Append(before, Backslash)) = AfterRune(InQuotes(w), Backslash)
      BY <1>1, <2>1, <2>2, ScanSteps
    <3>4. Scanned(Cat(before, <<Backslash, r>>)) = AfterRune(AfterRune(InQuotes(w), Backslash), r)
      BY <3>1, <3>2, <3>3, ScanSteps
    <3>5. AfterRune(AfterRune(InQuotes(w), Backslash), r) = InQuotes(Append(w, r))
      <4>1. AfterRune(InQuotes(w), Backslash) = AfterBackslash(w)
        BY <1>1 DEF AfterRune, InQuotes, AfterBackslash
      <4>2. AfterRune(AfterBackslash(w), r) = InQuotes(Append(w, r))
        BY DEF AfterRune, InQuotes, AfterBackslash
      <4> QED
        BY <4>1, <4>2
    <3> QED
      BY <2>1, <2>3, <2>4, <3>4, <3>5 DEF Escaped
  <2>5. CASE r \notin {Quote, Backslash}
    <3>1. Cat(before, <<r>>) = Append(before, r)
      BY <2>1, AppendIsConcat DEF Cat
    <3>2. Scanned(Append(before, r)) = AfterRune(InQuotes(w), r)
      BY <2>1, <2>2, ScanSteps
    <3>3. AfterRune(InQuotes(w), r) = InQuotes(Append(w, r))
      BY <1>1, <2>5 DEF AfterRune, InQuotes
    <3> QED
      BY <2>1, <2>3, <2>5, <3>1, <3>2, <3>3 DEF Escaped
  <2> QED
    BY <2>4, <2>5
<1>4. Seq(Runes) \subseteq T
  <2> HIDE DEF T
  <2> QED
    BY <1>2, <1>3, Texts
<1> QED
  BY <1>4

LEMMA QuotedIs ==
    ASSUME NEW word \in Seq(Runes), word # <<>>
    PROVE  /\ Quoted(word) \in Seq(Runes) /\ Tidy(Quoted(word))
           /\ ~Refused(Quoted(word)) /\ ~Scanned(Quoted(word)).escaped
           /\ Split(Quoted(word)) = <<word>>
<1> DEFINE open == Cat(<<Quote>>, Inside(word))
           done == [args |-> <<>>, word |-> word, quote |-> NoQuote, escaped |-> FALSE]
<1>1. <<Quote>> \in Seq(Runes) /\ Quote \in Runes /\ Space # Quote /\ Quote # NoQuote /\ Backslash # Quote
  BY RuneAssumption DEF Runes
<1>2. open \in Seq(Runes) /\ open # <<>> /\ open[1] = Quote
  <2> DEFINE q == <<Quote>>
             in == Inside(word)
  <2>1. q \in Seq(Runes) /\ q # <<>> /\ q[1] = Quote
    BY <1>1
  <2>2. in \in Seq(Runes)
    BY InsideSteps
  <2> HIDE DEF q, in
  <2>3. Cat(q, in) \in Seq(Runes) /\ Cat(q, in) # <<>> /\ Cat(q, in)[1] = Quote
    BY <2>1, <2>2, CatFacts, CatFirst
  <2> QED
    BY <2>3 DEF q, in
<1>3. Quoted(word) = Cat(open, <<Quote>>)
  BY DEF Quoted, Cat, Inside, Escaped
<1>4. Scanned(open) = InQuotes(word)
  BY ScanInside
<1> HIDE DEF open
<1>5. Quoted(word) \in Seq(Runes) /\ Tidy(Quoted(word))
  <2>1. Tidy(Cat(open, <<Quote>>))
    <3>1. <<Quote>> # <<>> /\ <<Quote>>[Len(<<Quote>>)] = Quote
      OBVIOUS
    <3> QED
      BY <1>1, <1>2, <3>1, CatIsTidy
  <2>2. Cat(open, <<Quote>>) \in Seq(Runes)
    <3> DEFINE q == <<Quote>>
    <3>1. q \in Seq(Runes)
      BY <1>1
    <3> HIDE DEF q
    <3>2. Cat(open, q) \in Seq(Runes)
      BY <1>2, <3>1, CatFacts
    <3> QED
      BY <3>2 DEF q
  <2> QED
    BY <1>3, <2>1, <2>2
<1>6. Scanned(Quoted(word)) = done
  <2>1. Cat(open, <<Quote>>) = Append(open, Quote)
    BY <1>1, <1>2, AppendIsConcat DEF Cat
  <2>2. Scanned(Append(open, Quote)) = AfterRune(InQuotes(word), Quote)
    BY <1>1, <1>2, <1>4, ScanSteps
  <2>3. AfterRune(InQuotes(word), Quote) = done
    BY <1>1 DEF AfterRune, InQuotes
  <2> QED
    BY <1>3, <2>1, <2>2, <2>3
<1>7. Trimmed(Quoted(word)) = Quoted(word)
  BY <1>5, Trim
<1>8. AtEnd(done).args = <<word>>
  BY DEF AtEnd, Flushed
<1>9. ~Refused(Quoted(word)) /\ ~Scanned(Quoted(word)).escaped
  BY <1>6, <1>7 DEF Refused
<1> QED
  BY <1>5, <1>6, <1>7, <1>8, <1>9 DEF Split

\* Words without blanks at their ends are kept.
LEMMA CleanedPair ==
    ASSUME NEW word \in Seq(Runes), word # <<>>, Trimmed(word) = word
    PROVE  Cleaned(<<word, word>>) = <<word, word>>
<1> DEFINE words == <<word, word>>
           Turn(kept, i) ==
               IF Trimmed(words[i]) = <<>> THEN kept ELSE Append(kept, Trimmed(words[i]))
           f == [i \in 0 .. 2 |-> IF i = 0 THEN <<>> ELSE IF i = 1 THEN <<word>> ELSE <<word, word>>]
           out[i \in 0 .. 2] ==
               IF i = 0 THEN <<>>
               ELSE IF Trimmed(words[i]) = <<>> THEN out[i - 1]
               ELSE Append(out[i - 1], Trimmed(words[i]))
<1>1. Len(words) = 2 /\ words[1] = word /\ words[2] = word
  OBVIOUS
<1>2. Cleaned(words) = out[2]
  BY <1>1 DEF Cleaned
<1> HIDE DEF words
<1>3. f = [i \in 0 .. 2 |->
             IF i = 0 THEN <<>>
             ELSE IF Trimmed(words[i]) = <<>> THEN f[i - 1]
             ELSE Append(f[i - 1], Trimmed(words[i]))]
  <2>1. ASSUME NEW i \in 0 .. 2
        PROVE  f[i] = IF i = 0 THEN <<>>
                      ELSE IF Trimmed(words[i]) = <<>> THEN f[i - 1]
                      ELSE Append(f[i - 1], Trimmed(words[i]))
    <3>1. f[0] = <<>> /\ f[1] = <<word>> /\ f[2] = <<word, word>>
      OBVIOUS
    <3>2. i = 0 \/ i = 1 \/ i = 2
      OBVIOUS
    <3>3. <<word>> = Append(<<>>, word) /\ <<word, word>> = Append(<<word>>, word)
      OBVIOUS
    <3> HIDE DEF f
    <3>4. CASE i = 0
      BY <3>1, <3>4
    <3>5. CASE i = 1
      <4>1. Trimmed(words[i]) = word /\ f[i - 1] = <<>>
        BY <1>1, <3>1, <3>5
      <4> QED
        BY <3>1, <3>3, <3>5, <4>1
    <3>6. CASE i = 2
      <4>1. Trimmed(words[i]) = word /\ f[i - 1] = <<word>>
        BY <1>1, <3>1, <3>6
      <4> QED
        BY <3>1, <3>3, <3>6, <4>1
    <3> QED
      BY <3>2, <3>4, <3>5, <3>6
  <2> QED
    BY <2>1
<1> HIDE DEF f
<1>4. out = [i \in 0 .. 2 |->
             IF i = 0 THEN <<>>
             ELSE IF Trimmed(words[i]) = <<>> THEN out[i - 1]
             ELSE Append(out[i - 1], Trimmed(words[i]))]
  BY <1>3, ZenonT(30) DEF out
<1> HIDE DEF out
<1>5. out[0] = <<>>
  BY <1>4
<1>6. out[1] = Append(<<>>, word)
  <2>1. out[1] = IF Trimmed(words[1]) = <<>> THEN out[0] ELSE Append(out[0], Trimmed(words[1]))
    <3>1. 1 \in 0 .. 2 /\ 1 # 0 /\ 1 - 1 = 0
      OBVIOUS
    <3>2. out[1] = IF Trimmed(words[1]) = <<>> THEN out[1 - 1] ELSE Append(out[1 - 1], Trimmed(words[1]))
      BY <1>4, <3>1, Zenon
    <3> QED
      BY <3>1, <3>2, Zenon
  <2> QED
    BY <1>1, <1>5, <2>1
<1>7. out[2] = Append(out[1], word)
  <2>1. out[2] = IF Trimmed(words[2]) = <<>> THEN out[1] ELSE Append(out[1], Trimmed(words[2]))
    <3>1. 2 \in 0 .. 2 /\ 2 # 0 /\ 2 - 1 = 1
      OBVIOUS
    <3>2. out[2] = IF Trimmed(words[2]) = <<>> THEN out[2 - 1] ELSE Append(out[2 - 1], Trimmed(words[2]))
      BY <1>4, <3>1, Zenon
    <3> QED
      BY <3>1, <3>2, Zenon
  <2> QED
    BY <1>1, <2>1
<1>8. Append(Append(<<>>, word), word) = <<word, word>>
  <2>1. Append(<<>>, word) = <<word>>
    OBVIOUS
  <2>2. <<word, word>> = Append(<<word>>, word)
    OBVIOUS
  <2> QED
    BY <2>1, <2>2
<1> QED
  BY <1>2, <1>6, <1>7, <1>8 DEF words

\* For every word, of any length: between quotes, with its quotes and backslashes
\* escaped, it reaches the application as it is through splitCommandLine and
\* normalizeAppCommand, and two of them stay two.
THEOREM WordsSurviveHolds == FieldSpec => []WordsSurvive
<1>1. TypedIsText => WordsSurvive
  <2> SUFFICES ASSUME typed \in Seq(Runes), typed # <<>>, typed = Trimmed(typed)
               PROVE  LET text == Quoted(typed) \o <<Space>> \o Quoted(typed)
                      IN  ~Refused(text) /\ Command(text) = <<typed, typed>>
    BY DEF TypedIsText, WordsSurvive
  <2> DEFINE word == Quoted(typed)
             text == Cat(Cat(word, <<Space>>), word)
  <2>1. /\ word \in Seq(Runes) /\ Tidy(word) /\ ~Refused(word) /\ ~Scanned(word).escaped
        /\ Split(word) = <<typed>>
    BY QuotedIs
  <2> HIDE DEF word
  <2>2. Refused(text) <=> Refused(word)
    BY <2>1, SplitAfter
  <2>3. Split(text) = Split(word) \o Split(word)
    BY <2>1, SplitAfter
  <2> HIDE DEF text
  <2>4. Split(text) = <<typed, typed>>
    <3>1. <<typed>> \o <<typed>> = <<typed, typed>>
      <4>1. <<typed, typed>> = Append(<<typed>>, typed)
        OBVIOUS
      <4>2. <<typed>> \in Seq(Seq(Runes))
        OBVIOUS
      <4>3. Append(<<typed>>, typed) = <<typed>> \o <<typed>>
        BY <4>2, AppendIsConcat
      <4> QED
        BY <4>1, <4>3
    <3> QED
      BY <2>1, <2>3, <3>1
  <2>5. Cleaned(<<typed, typed>>) = <<typed, typed>>
    BY CleanedPair
  <2>6. text = Quoted(typed) \o <<Space>> \o Quoted(typed)
    BY DEF text, word, Cat
  <2>7. ~Refused(text) /\ Command(text) = <<typed, typed>>
    BY <2>1, <2>2, <2>4, <2>5 DEF Command
  <2> QED
    BY <2>6, <2>7
<1> QED
  BY <1>1, TypedIsTextHolds, PTL
=================================================================================
