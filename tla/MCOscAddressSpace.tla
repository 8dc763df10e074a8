-------------------------- MODULE MCOscAddressSpace --------------------------
(***************************************************************************)
(* The address space of a receiver: the tree of its containers and         *)
(* methods, in which a pattern is the set of names it matches, and the     *)
(* matching of patterns and names.  A behaviour is about one of the two.   *)
(***************************************************************************)
EXTENDS OscContainer

CONSTANTS
    Parts,                                          \* "tree", "patterns"
    MaxTokens, MaxName, Kinds, NameCharacters       \* of PatternMatch

VARIABLES part, tokens, name

Patterns == INSTANCE PatternMatch

NodeSymmetry ==
    Permutations(Methods) \cup Permutations(Containers \ {Root}) \cup Permutations(Names)

MCInit == part \in Parts /\ Init /\ Patterns!Init
MCNext ==
    \/ part = "tree" /\ Next /\ UNCHANGED <<part, tokens, name>>
    \/ part = "patterns" /\ Patterns!Next /\ UNCHANGED <<part, tree>>
MCSpec == MCInit /\ [][MCNext]_<<part, tree, tokens, name>>

-----------------------------------------------------------------------------
\* The tree is one: every container and method but the root has one parent (OneParent), and what
\* is erased from a list is what was looked up in it (ErasesWhatItFound).
TreeIsSound == part = "tree" => TypeOK /\ OneParent /\ ErasesWhatItFound

\* A message reaches the methods whose addresses it matches, once for every way to them
\* (DispatchIsComplete); every address that GetMethodList gives reaches a method, and the address
\* of every method is listed and reaches it (AddressSpaceIsValid).  The addresses behind the alias
\* of a container reach methods, too, but are not listed (WOscContainer.cpp:510).
MessagesReachMethods == part = "tree" => DispatchIsComplete /\ AddressSpaceIsValid

\* PatternMatch matches what the tokens of a pattern stand for, and, without lists and ranges,
\* nothing else, except for the characters that begin a bracket ("[" and "[!", at which the search
\* begins, :178); wildcards in names match, too (WOscPatternMatch.cpp:46 and 65).
PatternsMatchNames ==
    part = "patterns" =>
        Patterns!MatchesAllItShould /\ Patterns!MatchesNothingElse /\ Patterns!NamesAreMatched
=============================================================================
