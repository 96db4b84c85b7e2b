------------------------------ MODULE CommandLine ------------------------------
(***************************************************************************)
(* The command a user types for an isolated application, from the page's   *)
(* field to the arguments that are launched: splitCommandLine of           *)
(* internal/desktop/app.go, then normalizeAppCommand of                    *)
(* internal/planner/isolated.go.  Blanks are one rune here.                *)
(***************************************************************************)
EXTENDS Naturals, Sequences, SequencesExt

CONSTANTS
    Letters,    \* runes without a meaning to the split
    Space, Apostrophe, Quote, Backslash,
    NoQuote,    \* no quote is open
    MaxRunes    \* the longest text, a bound of the model

VARIABLE typed  \* the text in the field

Runes == Letters \cup {Space, Apostrophe, Quote, Backslash}

ASSUME RuneAssumption ==
    /\ Space \notin {Apostrophe, Quote, Backslash} /\ Backslash \notin {Apostrophe, Quote}
    /\ NoQuote \notin Runes
    /\ MaxRunes \in Nat

-------------------------------------------------------------------------------

\* strings.TrimSpace
Trimmed(text) ==
    LET solid == {i \in DOMAIN text : text[i] # Space}
    IN  IF solid = {} THEN <<>>
        ELSE SubSeq(text, CHOOSE i \in solid : \A j \in solid : i <= j,
                          CHOOSE i \in solid : \A j \in solid : j <= i)

Fresh == [args |-> <<>>, word |-> <<>>, quote |-> NoQuote, escaped |-> FALSE]

Flushed(st) ==
    IF st.word = <<>> THEN st ELSE [st EXCEPT !.args = Append(@, st.word), !.word = <<>>]

\* A backslash that is not special between quotes.
AfterRuneAsInShell(st, r) ==
    CASE st.escaped -> [st EXCEPT !.word = Append(@, r), !.escaped = FALSE]
      [] ~st.escaped /\ st.quote # NoQuote ->
            IF r = st.quote THEN [st EXCEPT !.quote = NoQuote] ELSE [st EXCEPT !.word = Append(@, r)]
      [] ~st.escaped /\ st.quote = NoQuote /\ r = Backslash -> [st EXCEPT !.escaped = TRUE]
      [] ~st.escaped /\ st.quote = NoQuote /\ r \in {Apostrophe, Quote} -> [st EXCEPT !.quote = r]
      [] ~st.escaped /\ st.quote = NoQuote /\ r = Space -> Flushed(st)
      [] OTHER -> [st EXCEPT !.word = Append(@, r)]

\* One turn of the loop.
AfterRune(st, r) ==
    CASE st.escaped -> [st EXCEPT !.word = Append(@, r), !.escaped = FALSE]
      [] ~st.escaped /\ r = Backslash -> [st EXCEPT !.escaped = TRUE]
      [] ~st.escaped /\ st.quote # NoQuote /\ r = st.quote -> [st EXCEPT !.quote = NoQuote]
      [] ~st.escaped /\ st.quote = NoQuote /\ r \in {Apostrophe, Quote} -> [st EXCEPT !.quote = r]
      [] ~st.escaped /\ st.quote = NoQuote /\ r = Space -> Flushed(st)
      [] OTHER -> [st EXCEPT !.word = Append(@, r)]

Scanned(text) ==
    LET scan[i \in 0 .. Len(text)] ==
            IF i = 0 THEN Fresh ELSE AfterRune(scan[i - 1], text[i])
    IN  scan[Len(text)]

\* An end of the text that left out the word it was in.
AtEndUnflushed(st) == st

\* After the loop: a backslash with nothing to escape is itself.
AtEnd(st) == Flushed(IF st.escaped THEN [st EXCEPT !.word = Append(@, Backslash)] ELSE st)

Refused(text) == Scanned(Trimmed(text)).quote # NoQuote

\* splitCommandLine of a text it does not refuse.
Split(text) == AtEnd(Scanned(Trimmed(text))).args

\* normalizeAppCommand: what is left of the words; a command has one at least.
Cleaned(words) ==
    LET out[i \in 0 .. Len(words)] ==
            IF i = 0 THEN <<>>
            ELSE IF Trimmed(words[i]) = <<>> THEN out[i - 1]
            ELSE Append(out[i - 1], Trimmed(words[i]))
    IN  out[Len(words)]

Command(text) == Cleaned(Split(text))

-------------------------------------------------------------------------------
\* The field

Type(r) == Len(typed) < MaxRunes /\ typed' = Append(typed, r)

Erase == typed # <<>> /\ typed' = Front(typed)

FieldInit == typed = <<>>

FieldNext == (\E r \in Runes : Type(r)) \/ Erase

FieldSpec == FieldInit /\ [][FieldNext]_typed

-------------------------------------------------------------------------------
\* Properties

\* A word between quotes, its quotes and backslashes escaped.
Quoted(word) ==
    <<Quote>>
        \o FlattenSeq([i \in DOMAIN word |->
               IF word[i] \in {Quote, Backslash} THEN <<Backslash, word[i]>> ELSE <<word[i]>>])
        \o <<Quote>>

\* Any argument can be typed: a word between quotes, with its quotes and
\* backslashes escaped, reaches the application as it is, and two stay two
\* (splitCommandLine; a word loses blanks at its ends, and an empty one is
\* dropped).
WordsSurvive ==
    typed # <<>> /\ typed = Trimmed(typed) =>
        /\ ~Refused(Quoted(typed) \o <<Space>> \o Quoted(typed))
        /\ Command(Quoted(typed) \o <<Space>> \o Quoted(typed)) = <<typed, typed>>

\* A blank outside quotes separates and does nothing else: a text is refused or
\* split like the two parts around it, whatever they hold, unless the first
\* part is open at its end (an escape, a quote) or ends in an escaped blank,
\* which TrimSpace takes.
BlanksSeparate ==
    \A i \in {j \in DOMAIN typed : typed[j] = Space} :
        LET first == SubSeq(typed, 1, i - 1)
            rest == SubSeq(typed, i + 1, Len(typed))
        IN  /\ first = Trimmed(first)
            /\ ~Refused(first)
            /\ ~Scanned(first).escaped
            => /\ Refused(typed) <=> Refused(rest)
               /\ ~Refused(typed) => Split(typed) = Split(first) \o Split(rest)
================================================================================
