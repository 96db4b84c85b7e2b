SPECIFICATION Spec
CONSTANTS
    Documents <- MCDocuments
    URLs <- MCURLs
    Nothing = Nothing
    Sessions <- MCSessions
    Digest <- MCDigest
    Given <- MCGiven
    None = None
    MaxLinks = 2
    Letters = {a}
    Space = Space
    Apostrophe = Apostrophe
    Quote = Quote
    Backslash = Backslash
    NoQuote = NoQuote
    MaxRunes = 5
INVARIANTS EndsCanTalk LinksApart SavedParses AdviceIsOfUse ConfigIsFaithful AcceptedCanBeApplied WordsSurvive BlanksSeparate
