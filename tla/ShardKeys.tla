------------------------------- MODULE ShardKeys -------------------------------
(* The shard key of a completion request: generateShardKey of the client's    *)
(* proxy (privatemode-proxy/internal/server). A router sends requests with a  *)
(* long common beginning of their keys to the same worker, which may still    *)
(* have the beginning of the prompt in its cache.                             *)
(*                                                                            *)
(* A character of the key is six bits of a hash of the salt and the text up   *)
(* to a boundary; here it is that text. Lengths of the code are constants:    *)
(* 4 characters to a token, blocks of 16 tokens, characters of 1, 8 and 32    *)
(* blocks, boundaries at 1024 and 100096 tokens, at most 1000000 tokens.      *)
EXTENDS Integers, Sequences, FiniteSets

CONSTANTS
  CharsPerToken, CacheBlockSizeTokens,
  FirstBlocksPerChar, SecondBlocksPerChar, ThirdBlocksPerChar,
  FirstBoundaryBlocks, SecondBoundaryBlocks,
  MaxTokens

FirstSize == FirstBlocksPerChar * CacheBlockSizeTokens
SecondSize == SecondBlocksPerChar * CacheBlockSizeTokens
ThirdSize == ThirdBlocksPerChar * CacheBlockSizeTokens
FirstBoundary == FirstBoundaryBlocks * CacheBlockSizeTokens
SecondBoundary == SecondBoundaryBlocks * CacheBlockSizeTokens

ASSUME ShardKeysAssumption ==
  /\ CharsPerToken \in Nat \ {0} /\ CacheBlockSizeTokens \in Nat \ {0}
  /\ {FirstBlocksPerChar, SecondBlocksPerChar, ThirdBlocksPerChar} \subseteq Nat \ {0}
  /\ {FirstBoundaryBlocks, SecondBoundaryBlocks, MaxTokens} \subseteq Nat
  /\ 0 < FirstBoundaryBlocks /\ FirstBoundaryBlocks < SecondBoundaryBlocks
  /\ FirstBoundary % FirstSize = 0
  /\ (SecondBoundary - FirstBoundary) % SecondSize = 0

Tokens(content) == Len(content) \div CharsPerToken

\* A round of the loop: i and blockSize. The size changes where i meets a
\* boundary exactly.
NextRound(last) ==
  LET i == last.i + last.size
  IN [i |-> i,
      size |-> CASE i = FirstBoundary -> SecondSize
                 [] i = SecondBoundary -> ThirdSize
                 [] OTHER -> last.size]

FirstRound == [i |-> 0, size |-> FirstSize]

Round[k \in Nat] == IF k = 0 THEN FirstRound ELSE NextRound(Round[k - 1])

\* Mutant: a last block that is just full is left out.
Rounds_strict(content) ==
  {k \in 1..Tokens(content) : Round[k].i < Tokens(content)}

Rounds(content) == {k \in 1..Tokens(content) : Round[k].i <= Tokens(content)}

TooLarge(content) == Tokens(content) > MaxTokens

ShardKey(salt, content) ==
  [salt |-> salt,
   chars |-> [k \in Rounds(content) |->
                SubSeq(content, 1, CharsPerToken * Round[k].i)]]

-----------------------------------------------------------------------------
(* What a key promises                                                       *)

\* Characters two keys begin with together.
SharedChars(a, b) ==
  {k \in DOMAIN a.chars \cap DOMAIN b.chars :
     \A j \in 1..k : a.chars[j] = b.chars[j]}

\* Boundaries of characters, in tokens: equally far apart in each of the three
\* ranges (constants.go:103-120).
IsBoundary(t) ==
  CASE t <= FirstBoundary -> t % FirstSize = 0
    [] FirstBoundary < t /\ t <= SecondBoundary -> (t - FirstBoundary) % SecondSize = 0
    [] OTHER -> (t - SecondBoundary) % ThirdSize = 0

Boundaries == {t \in 1..MaxTokens : IsBoundary(t)}

\* The boundaries up to which two texts are the same.
CommonBoundaries(c, d) ==
  {t \in Boundaries :
     LET n == CharsPerToken * t
     IN n <= Len(c) /\ n <= Len(d) /\ SubSeq(c, 1, n) = SubSeq(d, 1, n)}
=============================================================================
