---------------------------- MODULE PatternMatch ----------------------------
(***************************************************************************)
(* WOscPatternMatch: whether the pattern in the address of a message       *)
(* matches the name of a container or a method (WOscPatternMatch.cpp).  A  *)
(* pattern and a name are sequences of character codes, and the code of    *)
(* the character behind the last one is zero; i and j are positions.       *)
(* The patterns are put together from a few tokens of every kind, with     *)
(* what each of them should match; the names are over two letters, the     *)
(* other characters that a bracket begins with or holds, and the wildcards *)
(* that a name may have.                                                   *)
(***************************************************************************)
EXTENDS Naturals, Sequences, FiniteSets, SequencesExt

Star == 42
Comma == 44
Dash == 45
Query == 63
Exclamation == 33
Backslash == 92
OpenBracket == 91
CloseBracket == 93
OpenBrace == 123
CloseBrace == 125

At(s, i) == IF i <= Len(s) THEN s[i] ELSE 0

FirstFrom(s, i, Stops(_)) == CHOOSE k \in i .. Len(s) + 1 :
    Stops(k) /\ \A l \in i .. k - 1 : ~Stops(l)

RECURSIVE Matches(_, _, _, _)

\* MatchBrackets: the search begins at the opening bracket, or at the exclamation mark, and looks
\* for a range or for the character itself at every position.
InBracketsAt(pattern, p, char) ==
    \/ /\ At(pattern, p + 1) = Dash /\ At(pattern, p + 2) # 0
       /\ char \in pattern[p] .. At(pattern, p + 2)
    \/ At(pattern, p) = char

MatchBrackets(pattern, i, test, j) ==
    LET negated == At(pattern, i + 1) = Exclamation
        Ends(p) == (At(pattern, p) \in {0, CloseBracket}) \/ InBracketsAt(pattern, p, At(test, j))
        found == FirstFrom(pattern, IF negated THEN i + 1 ELSE i, Ends)
        result == IF At(pattern, found) = CloseBracket THEN negated ELSE ~negated
        Closes(p) == At(pattern, p) \in {0, CloseBracket}
        close == FirstFrom(pattern, found, Closes)
    IN  /\ At(pattern, i + 1) # 0 /\ At(pattern, found) # 0
        /\ result /\ At(pattern, close) = CloseBracket
        /\ Matches(pattern, close + 1, test, j + 1)

\* MatchList: an alternative that does not fit is skipped; behind the last one, the rest of the
\* pattern is matched with all of the name.
RECURSIVE TryAlternatives(_, _, _, _, _, _)
TryAlternatives(pattern, p, rest, test, j, tp) ==
    LET char == At(pattern, p)
        EndsAlternative(k) == At(pattern, k) \in {Comma, CloseBrace}
        end == FirstFrom(pattern, p, EndsAlternative)
    IN  IF char = Comma THEN
            \/ Matches(pattern, rest, test, tp)
            \/ TryAlternatives(pattern, p + 1, rest, test, j, j)
        ELSE IF char = CloseBrace THEN Matches(pattern, rest, test, tp)
        ELSE IF char = At(test, tp) THEN TryAlternatives(pattern, p + 1, rest, test, j, tp + 1)
        ELSE TryAlternatives(pattern, IF At(pattern, end) = Comma THEN end + 1 ELSE end,
                             rest, test, j, j)

MatchList(pattern, i, test, j) ==
    LET Closes(k) == At(pattern, k) \in {0, CloseBrace}
        close == FirstFrom(pattern, i, Closes)
    IN  At(pattern, close) = CloseBrace /\ TryAlternatives(pattern, i + 1, close + 1, test, j, j)

\* PatternMatch when the pattern has ended
AtEndOfPattern(pattern, i, test, j) ==
    At(test, j) = 0 \/ (At(test, j) = Star /\ Matches(pattern, i, test, j + 1))

\* PatternMatch when the name has ended, or has a wildcard of its own
StarInName(pattern, i, test, j) ==
    Matches(pattern, i, test, j + 1) \/ Matches(pattern, i + 1, test, j)

AtEndOfName(pattern, i, test, j) == At(pattern, i) = Star /\ Matches(pattern, i + 1, test, j)

Escaped(pattern, i, test, j) ==
    IF At(pattern, i + 1) = 0 THEN At(test, j) = 0
    ELSE At(pattern, i + 1) = At(test, j) /\ Matches(pattern, i + 2, test, j + 1)

StarInPatternOnce(pattern, i, test, j) ==
    Matches(pattern, i + 1, test, j) \/ Matches(pattern, i + 1, test, j + 1)

\* A star of the pattern stands for nothing, or for one character more.
StarInPattern(pattern, i, test, j) ==
    Matches(pattern, i + 1, test, j) \/ Matches(pattern, i, test, j + 1)

Matches(pattern, i, test, j) ==
    CASE At(pattern, i) = 0 -> AtEndOfPattern(pattern, i, test, j)
      [] At(pattern, i) # 0 /\ At(test, j) = 0 -> AtEndOfName(pattern, i, test, j)
      [] At(pattern, i) # 0 /\ At(test, j) = Star -> StarInName(pattern, i, test, j)
      [] At(pattern, i) # 0 /\ At(test, j) = Query -> Matches(pattern, i + 1, test, j + 1)
      [] OTHER ->
        CASE At(pattern, i) = Query -> Matches(pattern, i + 1, test, j + 1)
          [] At(pattern, i) = Star -> StarInPattern(pattern, i, test, j)
          [] At(pattern, i) \in {CloseBracket, CloseBrace} -> FALSE
          [] At(pattern, i) = OpenBracket -> MatchBrackets(pattern, i, test, j)
          [] At(pattern, i) = OpenBrace -> MatchList(pattern, i, test, j)
          [] At(pattern, i) = Backslash -> Escaped(pattern, i, test, j)
          [] OTHER -> At(pattern, i) = At(test, j) /\ Matches(pattern, i + 1, test, j + 1)

PatternMatch(pattern, test) == Matches(pattern, 1, test, 1)

-----------------------------------------------------------------------------
(***************************************************************************)
(* Patterns and names                                                      *)
(***************************************************************************)
CONSTANTS
    MaxTokens, MaxName,
    Kinds,              \* the kinds of tokens in the patterns
    NameCharacters

A == 97
B == 98

Token(kind, text, strings) == [kind |-> kind, text |-> text, strings |-> strings]

\* strings: what the token stands for; for one character, a set of characters.
Tokens == {
    Token("literal", <<A>>, {<<A>>}),
    Token("literal", <<B>>, {<<B>>}),
    Token("escape", <<Backslash, A>>, {<<A>>}),
    Token("any", <<Star>>, {}),
    Token("one", <<Query>>, {}),
    Token("set", <<OpenBracket, A, B, CloseBracket>>, {<<A>>, <<B>>}),
    Token("others", <<OpenBracket, Exclamation, A, CloseBracket>>, {<<A>>}),
    Token("range", <<OpenBracket, A, Dash, B, CloseBracket>>, {<<A>>, <<B>>}),
    Token("list", <<OpenBrace, A, Comma, A, B, CloseBrace>>, {<<A>>, <<A, B>>}),
    Token("list", <<OpenBrace, B, A, Comma, B, CloseBrace>>, {<<B, A>>, <<B>>})}

VARIABLES tokens, name
vars == <<tokens, name>>

Init == tokens = <<>> /\ name = <<>>

AddToken ==
    /\ Len(tokens) < MaxTokens
    /\ \E token \in Tokens : token.kind \in Kinds /\ tokens' = Append(tokens, token)
    /\ UNCHANGED name

AddCharacter ==
    /\ Len(name) < MaxName
    /\ \E char \in NameCharacters : name' = Append(name, char)
    /\ UNCHANGED tokens

Next == AddToken \/ AddCharacter

Spec == Init /\ [][Next]_vars

Pattern == FlattenSeq([i \in DOMAIN tokens |-> tokens[i].text])

-----------------------------------------------------------------------------
\* What a token stands for
Accepts(token, string) ==
    CASE token.kind = "any" -> TRUE
      [] token.kind = "one" -> Len(string) = 1
      [] token.kind = "others" -> Len(string) = 1 /\ string \notin token.strings
      [] OTHER -> string \in token.strings

RECURSIVE ShouldMatch(_, _)
ShouldMatch(ts, string) ==
    IF ts = <<>> THEN string = <<>>
    ELSE \E n \in 0 .. Len(string) :
            /\ Accepts(Head(ts), SubSeq(string, 1, n))
            /\ ShouldMatch(Tail(ts), SubSeq(string, n + 1, Len(string)))

Holds(string, characters) == \E i \in DOMAIN string : string[i] \in characters
HasWildcards(string) == Holds(string, {Star, Query})
Has(kinds) == \E i \in DOMAIN tokens : tokens[i].kind \in kinds

\* The search in a bracket takes the character that begins it for one that it lists: "[!a]" does
\* not match an exclamation mark, and "[ab]" matches an opening bracket.
Misses == Has({"others"}) /\ Holds(name, {Exclamation})
Confuses == Has({"set", "range"}) /\ Holds(name, {OpenBracket})

\* Every name that a pattern stands for is matched, however its stars, brackets and lists follow
\* one another and whatever is tried first ("True if both match regarding the definitions in the
\* OSC-address-syntax and OSC pattern matching", WOscPatternMatch.cpp:65); but not an exclamation
\* mark where "[!a]" should match it.
MatchesAllItShould ==
    ~HasWildcards(name) /\ ~Misses /\ ShouldMatch(tokens, name) => PatternMatch(Pattern, name)

\* A pattern without ranges and lists matches no other names, unless an opening bracket meets a
\* set of characters.
MatchesNothingElse ==
    ~HasWildcards(name) /\ ~Confuses /\ ~Has({"range", "list"}) /\ PatternMatch(Pattern, name)
        => ShouldMatch(tokens, name)

\* A name with wildcards, which "are on by default" (WOscPatternMatch.cpp:46), is itself a pattern
\* for the addresses of messages that have none.
NameTokens ==
    [i \in DOMAIN name |->
        CASE name[i] = Star -> Token("any", <<Star>>, {})
          [] name[i] = Query -> Token("one", <<Query>>, {})
          [] OTHER -> Token("literal", <<name[i]>>, {<<name[i]>>})]

NamesAreMatched ==
    ~Has({token.kind : token \in Tokens} \ {"literal"})
        => (PatternMatch(Pattern, name) = ShouldMatch(NameTokens, Pattern))

\* WOscPatternMatch.cpp:65 says "True if both match regarding the definitions in the
\* OSC-address-syntax and OSC pattern matching": a list matches one of its alternatives.
ListsMatchAlternatives ==
    ~HasWildcards(name) /\ ~Confuses /\ ~Has({"range"}) /\ PatternMatch(Pattern, name)
        => ShouldMatch(tokens, name)

\* The same line, of a range of characters: it matches the characters between its bounds.
RangesMatchCharacters ==
    ~HasWildcards(name) /\ ~Confuses /\ ~Has({"list"}) /\ PatternMatch(Pattern, name)
        => ShouldMatch(tokens, name)

\* The same line, of a set of characters: it matches the characters that are listed in it.
SetsMatchCharacters ==
    ~HasWildcards(name) /\ ~Has({"range", "list"}) /\ PatternMatch(Pattern, name)
        => ShouldMatch(tokens, name)

\* The same line, of the opposite: "[!a]" matches every character but those listed in it.
OthersMatchCharacters ==
    ~HasWildcards(name) /\ ShouldMatch(tokens, name) => PatternMatch(Pattern, name)
=============================================================================
