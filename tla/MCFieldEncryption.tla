--------------------------- MODULE MCFieldEncryption ---------------------------
(* An instance of FieldEncryption for TLC. Two characters are a token, and    *)
(* keys have boundaries at 1 and 2 (first range), 4, 6 (second), 9 tokens.    *)
EXTENDS FieldEncryption

MCNameOrder ==
  <<"cache_salt", "choices", "file", "file2", "id", "input", "language", "messages",
    "model", "prompt", "stream", "suffix", "system", "text", "tools", "usage">>
MCConfidential ==
  {"cache_salt", "choices", "file", "file2", "input", "messages", "prompt", "suffix",
   "system", "text", "tools"}

\* The flag may be too short.
MCDefaultSalts == {<<>>, <<"d">>, <<"d", "d">>}
MCRandomSalt == <<"r", "r">>

Doc(f) == [n \in DOMAIN f |-> Field(f[n])]
Request(endpoint, client, f) ==
  [endpoint |-> endpoint, client |-> client, body |-> Doc(f), query |-> <<>>]
Form(f, query) == [Request("transcriptions", "new", f) EXCEPT !.query = query]

\* A text of n characters, other than the common one from d on.
Prose(d, n) == [k \in 1..n |-> IF k < d THEN "a" ELSE "b"]

Chat(messages) ==
  [cache_salt |-> <<"s", "s">>, messages |-> messages, model |-> <<"m">>]

\* Texts that end or differ at, just before and just after the boundaries.
Prompts ==
  {Request("completions", "new", Chat(Prose(d, n))) :
     d \in {4, 5, 8, 12, 13, 30}, n \in {3, 4, 8, 11, 12, 18, 19}}
  \cup {Request("completions", "new", Chat(Prose(30, 22)))}

MCRequests ==
  Prompts \cup
  {Request("completions", "new", <<>>),
   Request("completions", "new", [messages |-> <<"a", "b">>, model |-> <<"m">>]),
   Request("completions", "new", [cache_salt |-> <<"s">>, messages |-> <<"a">>]),
   Request("completions", "new", [cache_salt |-> <<"s", "s">>, messages |-> <<"a", "http">>]),
   Request("completions", "new", [prompt |-> <<"a", "a", "a">>, suffix |-> <<"a">>,
                                  cache_salt |-> <<>>, stream |-> <<"t">>]),
   Request("completions", "new", [messages |-> <<"b", "b">>, tools |-> <<"a", "a">>,
                                  cache_salt |-> <<"d", "d">>]),
   Request("embeddings", "new", [model |-> <<"m">>, input |-> <<"x">>]),
   Request("embeddings", "new", [model |-> <<"m">>]),
   Request("messages", "new", [system |-> <<"y">>, messages |-> <<"a">>,
                               model |-> <<"m">>, stream |-> <<"t">>]),
   Request("transcriptions", "new", [model |-> <<"m">>, stream |-> <<"t">>,
                                     language |-> <<"l">>, file |-> <<"f">>]),
   Request("transcriptions", "old", [model |-> <<"m">>, stream |-> <<"t">>,
                                     language |-> <<"l", "l2">>, file |-> <<"f">>]),
   Request("transcriptions", "new", [file |-> <<"f">>, file2 |-> <<"g">>]),
   Form([model |-> <<"m">>, language |-> <<"l">>, file |-> <<"f">>],
        [model |-> <<"q">>, file |-> <<"q">>, text |-> <<"q">>]),
   Form([model |-> <<"m">>, language |-> <<"l">>, file |-> <<"f">>],
        [language |-> <<"q">>]),
   Request("unstructured", "new", [text |-> <<"x">>, file |-> <<"f">>])}

Data(size, f) == [kind |-> "data", size |-> size, doc |-> Doc(f)]
Other(kind) == [kind |-> kind, size |-> "short", doc |-> <<>>]
Chunk(size) == Data(size, [choices |-> <<"c">>, id |-> <<"i">>, usage |-> <<"u">>])
LastChunk == Data("short", [choices |-> <<"e">>, text |-> <<"t">>])

MCAnswers ==
  {[stream |-> FALSE, lines |-> <<Data("long", [choices |-> <<"c">>, id |-> <<"i">>,
                                                text |-> <<"t">>])>>],
   [stream |-> FALSE, lines |-> <<Data("short", <<>>)>>],
   [stream |-> TRUE, lines |-> <<Chunk("short"), Other("empty"), Other("event"),
                                 LastChunk, Other("done")>>],
   [stream |-> TRUE, lines |-> <<Chunk("short"), Chunk("grown"), Other("done")>>],
   [stream |-> TRUE, lines |-> <<Chunk("short"), Chunk("long"), Other("done")>>]}

CharactersOf(doc) == UNION {Range(doc[n].text) : n \in DOMAIN doc}
MCCharacters ==
  {"d", "r"} \cup UNION {CharactersOf(r.body) : r \in MCRequests}
  \cup UNION {UNION {CharactersOf(a.lines[n].doc) : n \in DOMAIN a.lines} : a \in MCAnswers}
=============================================================================
