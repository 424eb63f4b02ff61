---------------------------- MODULE FieldEncryption ----------------------------
(* What happens to the bodies of requests and answers on their way: the      *)
(* mutators of the client's proxy (privatemode-proxy/internal/server), which  *)
(* add a cache salt and a shard key and encrypt field by field, and of the    *)
(* inference proxy's adapters, which undo this, validate, and encrypt the     *)
(* answer line by line (internal/oss/forwarder/mutators.go, openai,           *)
(* anthropic, unstructured).                                                  *)
(*                                                                            *)
(* One client with one request at a time. Secrets, nonces and sessions are in *)
(* module Exchange: here a sealed field opens if it was sealed by the other   *)
(* side with the sequence number the reader is at. Names of fields stand for  *)
(* themselves and do not repeat, and none has a meaning for gjson; texts are  *)
(* sequences of characters, in a form sequences of values.                    *)
EXTENDS ShardKeys, Functions

CONSTANTS
  NameOrder,      \* names of fields, in the order of their bytes
  Characters,
  Files,          \* names of form files
  Requests,       \* requests applications may make: endpoint, client, body and
                  \* query, the values of the URL by name
  Answers,        \* answers of the workload: stream, lines
  DefaultSalts,   \* values of the flag for the cache salt; empty if not given
  RandomSalt, MinSalt,
  InsecureParts,  \* image parts of messages whose URL is not https nor data
  Confidential,   \* names of prompts, salts, files and generated text
  None, MaxAttempts, MaxRequests

ASSUME FieldEncryptionAssumption ==
  /\ MaxAttempts \in Nat \ {0} /\ MaxRequests \in Nat /\ MinSalt \in Nat \ {0}
  /\ RandomSalt \in Seq(Characters) /\ Len(RandomSalt) >= MinSalt
  /\ DefaultSalts \subseteq Seq(Characters)
  /\ None \notin Requests \cup Answers

VARIABLES
  defaultSalt,  \* Server.defaultCacheSalt
  requests,     \* requests begun
  pc, request, attempt,
  body,         \* the body as it is on its way
  key,          \* the shard key in the headers
  dec, enc,     \* sequence numbers of the session: fields read, sealed
  delivered,    \* what the workload got
  answer,       \* what it answers
  taken,        \* lines the inference proxy has taken of it
  wire,         \* lines on their way
  got,          \* fields of the answer the client has read
  shown,        \* lines the application has got
  keyed         \* history: text and shard key of this and earlier requests

reply == <<answer, taken, wire, got, shown>>
vars == <<defaultSalt, requests, pc, request, attempt, body, key, dec, enc,
          delivered, reply, keyed>>

Field(text) == [by |-> "nobody", seq |-> 0, text |-> text]
Sealed(by, seq, text) == [by |-> by, seq |-> seq, text |-> text]

Text(doc, name) == IF name \in DOMAIN doc THEN doc[name].text ELSE <<>>

-----------------------------------------------------------------------------
(* Mutators of fields                                                        *)

Before(m, n) ==
  \E i, j \in DOMAIN NameOrder : i < j /\ NameOrder[i] = m /\ NameOrder[j] = n

\* sortedIndices: an order gives each field its number, from 0.
Sorted(names) == [n \in names |-> Cardinality({m \in names : Before(m, n)})]
JSONOrder(doc, plain) == Sorted(DOMAIN doc \ plain)

\* Mutant: files are copied as they are.
FormOrders_values(doc, plain) == {Sorted((DOMAIN doc \ Files) \ plain)}

\* Values are sorted; files come after them in the order of a map.
FormOrders(doc, plain) ==
  LET values == (DOMAIN doc \ Files) \ plain
      files == (DOMAIN doc \cap Files) \ plain
  IN {[n \in values \cup files |->
         IF n \in values THEN Sorted(values)[n] ELSE Cardinality(values) + place[n]] :
        place \in Bijection(files, 0..(Cardinality(files) - 1))}

\* Mutant: the last value is taken.
FormValues_last(doc, query) ==
  [n \in DOMAIN doc |->
     IF n \in DOMAIN query \ Files THEN Field(<<Head(query[n])>>)
     ELSE [doc[n] EXCEPT !.text = <<@[Len(@)]>>]]

\* Of a name that is given more than once the first value or file is taken, and
\* values of the URL's query come before those of the form (Request.FormValue).
FormValues(doc, query) ==
  [n \in DOMAIN doc |->
     IF n \in DOMAIN query \ Files THEN Field(<<Head(query[n])>>)
     ELSE [doc[n] EXCEPT !.text = <<Head(@)>>]]

\* Fields are numbered in the order they are visited, beginning with from.
Seal(doc, order, by, from) ==
  [n \in DOMAIN doc |->
     IF n \in DOMAIN order THEN Sealed(by, from + order[n], doc[n].text) ELSE doc[n]]

Opens(doc, order, by, from) ==
  \A n \in DOMAIN order : doc[n].by = by /\ doc[n].seq = from + order[n]

Open(doc, order) ==
  [n \in DOMAIN doc |-> IF n \in DOMAIN order THEN Field(doc[n].text) ELSE doc[n]]

\* WithFullRequestMutation and WithFullResponseMutation: one text.
SealWhole(doc, by, from) == [whole |-> Sealed(by, from, doc)]
OpensWhole(doc, by, from) == doc.whole.by = by /\ doc.whole.seq = from
OpenWhole(doc) == doc.whole.text

-----------------------------------------------------------------------------
(* What stays readable                                                       *)

PlainCompletionsRequest ==
  {"model", "stream_options", "max_tokens", "max_completion_tokens", "n", "stream"}

\* Clients before v1.33 have one plain field only, and read whole answers.
PlainTranscriptionRequest(client) ==
  IF client = "old" THEN {"model"}
  ELSE {"model", "stream", "stream_include_usage", "stream_continuous_usage_stats"}

PlainRequest(r) ==
  CASE r.endpoint = "completions" -> PlainCompletionsRequest
    [] r.endpoint = "embeddings" -> {"model"}
    [] r.endpoint = "transcriptions" -> PlainTranscriptionRequest(r.client)
    [] r.endpoint = "messages" -> {"model", "stream"}
    [] r.endpoint = "unstructured" -> {}

PlainResponse(r) ==
  CASE r.endpoint \in {"completions", "embeddings"} -> {"id", "usage"}
    [] r.endpoint = "transcriptions" -> {"duration", "usage"}
    [] r.endpoint = "messages" -> {"id", "type", "usage"}
    [] r.endpoint = "unstructured" -> {}

WholeAnswer(r) == r.endpoint = "transcriptions" /\ r.client = "old"

\* Mutant: the adapter takes old clients for new ones.
AdapterPlain_new(r) == PlainRequest([r EXCEPT !.client = "new"])

\* The adapter goes by the client's version header.
AdapterPlain(r) == PlainRequest(r)

-----------------------------------------------------------------------------
(* Mutators of completion requests                                           *)

Salt(doc) == Text(doc, "cache_salt")

\* The order of the chat template.
Content(doc) ==
  Text(doc, "tools") \o Text(doc, "messages") \o Text(doc, "prompt") \o Text(doc, "suffix")

\* shardKeyInjector: an explicit salt or the default one, if there is one.
ShardSalt(doc) == IF Salt(doc) # <<>> THEN Salt(doc) ELSE defaultSalt

ShortSalt(doc) == 0 < Len(Salt(doc)) /\ Len(Salt(doc)) < MinSalt

\* CacheSaltInjector; a body may be empty.
WithSalt(doc) ==
  IF DOMAIN doc = {} \/ Salt(doc) # <<>> THEN doc
  ELSE [n \in DOMAIN doc \cup {"cache_salt"} |->
          IF n = "cache_salt"
          THEN Field(IF defaultSalt = <<>> THEN RandomSalt ELSE defaultSalt)
          ELSE doc[n]]

\* CacheSaltValidator and SecureImageURLValidator.
Valid(doc) ==
  \/ DOMAIN doc = {}
  \/ Len(Salt(doc)) >= MinSalt /\ Range(Text(doc, "messages")) \cap InsecureParts = {}

-----------------------------------------------------------------------------

\* Documents applications and the workload write.
Written(doc) ==
  /\ IsFiniteSet(DOMAIN doc)
  /\ doc = [n \in DOMAIN doc |-> Field(doc[n].text)]
  /\ \A n \in DOMAIN doc : doc[n].text \in Seq(Characters)

\* No name is confidential in one place and plain in another. A line that is no
\* data has no fields.
ASSUME DocumentsAssumption ==
  /\ \A r \in Requests :
       /\ r.endpoint \in {"completions", "embeddings", "transcriptions", "messages",
                          "unstructured"}
       /\ Written(r.body)
       /\ Confidential \cap (PlainRequest(r) \cup PlainResponse(r)) = {}
  /\ \A a \in Answers :
       /\ a.stream \in BOOLEAN
       /\ DOMAIN a.lines = 1..Len(a.lines) /\ Len(a.lines) \in Nat
       /\ \A n \in DOMAIN a.lines :
            LET line == a.lines[n]
            IN /\ line = [kind |-> line.kind, size |-> line.size, doc |-> line.doc]
               /\ Written(line.doc)
               /\ line.kind # "data" => DOMAIN line.doc = {}

\* No header with a shard key.
NoKey == [salt |-> <<>>, chars |-> <<>>]

Places == {"idle", "mutate", "sent", "work", "answer", "done", "failed"}

TypeOK ==
  /\ defaultSalt \in DefaultSalts /\ requests \in 0..MaxRequests
  /\ pc \in Places /\ attempt \in 0..MaxAttempts
  /\ request \in Requests \cup {None}
  /\ {dec, enc, taken, got} \subseteq Nat

NoAnswer == /\ answer' = None /\ taken' = 0 /\ wire' = <<>> /\ got' = 0 /\ shown' = <<>>

Init ==
  /\ defaultSalt \in DefaultSalts
  /\ requests = 0 /\ pc = "idle" /\ request = None /\ attempt = 0 /\ body = <<>>
  /\ key = NoKey /\ dec = 0 /\ enc = 0 /\ delivered = None
  /\ answer = None /\ taken = 0 /\ wire = <<>> /\ got = 0 /\ shown = <<>>
  /\ keyed = {}

NewRequest ==
  /\ pc \in {"idle", "done", "failed"} /\ requests < MaxRequests
  /\ requests' = requests + 1
  /\ \E r \in Requests : request' = r /\ body' = r.body
  /\ pc' = "mutate" /\ attempt' = 0 /\ key' = NoKey
  /\ dec' = 0 /\ enc' = 0 /\ delivered' = None /\ NoAnswer
  /\ UNCHANGED <<defaultSalt, keyed>>

\* The handler of an endpoint mutates the request and the forwarder sends it.
Send ==
  /\ pc = "mutate"
  /\ attempt' = attempt + 1
  /\ pc' = "sent"
  /\ UNCHANGED <<defaultSalt, requests, request, dec, enc, delivered, reply>>

SendCompletion ==
  /\ Send /\ request.endpoint = "completions"
  /\ \/ DOMAIN body = {} /\ UNCHANGED <<key, keyed>>
     \/ DOMAIN body # {} /\ ShardSalt(body) = <<>> /\ UNCHANGED <<key, keyed>>
     \/ /\ DOMAIN body # {} /\ ShardSalt(body) # <<>> /\ ~TooLarge(Content(body))
        /\ key' = ShardKey(ShardSalt(body), Content(body))
        /\ keyed' = keyed \cup {[content |-> Content(body), key |-> key']}
  /\ ~ShortSalt(body)
  /\ body' = Seal(WithSalt(body), JSONOrder(WithSalt(body), PlainRequest(request)), "client", 0)

SendJSON ==
  /\ Send /\ request.endpoint \in {"embeddings", "messages"}
  /\ body' = Seal(body, JSONOrder(body, PlainRequest(request)), "client", 0)
  /\ UNCHANGED <<key, keyed>>

SendForm ==
  /\ Send /\ request.endpoint = "transcriptions"
  /\ \E order \in FormOrders(body, PlainRequest(request)) :
       body' = Seal(FormValues(body, request.query), order, "client", 0)
  /\ UNCHANGED <<key, keyed>>

SendWhole ==
  /\ Send /\ request.endpoint = "unstructured"
  /\ body' = SealWhole(body, "client", 0)
  /\ UNCHANGED <<key, keyed>>

\* A mutator returns an error.
MutatorFails ==
  /\ pc = "mutate" /\ request.endpoint = "completions" /\ DOMAIN body # {}
  /\ \/ ShardSalt(body) # <<>> /\ TooLarge(Content(body))
     \/ ShortSalt(body)
  /\ pc' = "failed"
  /\ UNCHANGED <<defaultSalt, requests, request, attempt, body, key, dec, enc,
                 delivered, reply, keyed>>

\* Mutant: one send too many.
MayRetry_more(n) == n <= MaxAttempts

\* attempt <= 1, server.go:286.
MayRetry(n) == n < MaxAttempts

\* The first send is lost or refused in a way that is retried: the mutators
\* begin with the application's body again. Headers stay.
Retry ==
  /\ pc = "sent" /\ MayRetry(attempt)
  /\ pc' = "mutate" /\ body' = request.body
  /\ UNCHANGED <<defaultSalt, requests, request, attempt, key, dec, enc, delivered,
                 reply, keyed>>

-----------------------------------------------------------------------------
(* The inference proxy                                                       *)

\* The adapter's handler decrypts, and for completions validates; otherwise the
\* client gets an error.
Handle(opens, doc, n) ==
  /\ pc = "sent"
  /\ IF opens /\ (request.endpoint = "completions" => Valid(doc))
     THEN pc' = "work" /\ delivered' = doc /\ dec' = n
     ELSE pc' = "failed" /\ UNCHANGED <<delivered, dec>>
  /\ UNCHANGED <<defaultSalt, requests, request, attempt, body, key, enc, reply, keyed>>

HandleJSON ==
  LET order == JSONOrder(body, AdapterPlain(request))
  IN /\ request # None /\ request.endpoint \in {"completions", "embeddings", "messages"}
     /\ Handle(Opens(body, order, "client", 0), Open(body, order),
            Cardinality(DOMAIN order))

\* The URL goes with the request: its values stand in for sealed ones, too.
HandleForm ==
  LET form == FormValues(body, request.query)
  IN /\ request # None /\ request.endpoint = "transcriptions"
     /\ \E order \in FormOrders(body, AdapterPlain(request)) :
          Handle(Opens(form, order, "client", 0), Open(form, order),
               Cardinality(DOMAIN order))

HandleWhole ==
  /\ request # None /\ request.endpoint = "unstructured"
  /\ Handle(OpensWhole(body, "client", 0), OpenWhole(body), 1)

\* The workload answers with one document or a stream of lines.
Answer ==
  /\ pc = "work"
  /\ answer' \in Answers
  /\ pc' = "answer"
  /\ UNCHANGED <<defaultSalt, requests, request, attempt, body, key, dec, enc,
                 delivered, taken, wire, got, shown, keyed>>

Line(n) == answer.lines[n]

\* A scanner takes lines of 64 KiB. Sealing makes a line longer: a "grown" one
\* fits before but not after.
Fits(line, sizes) == answer.stream => line.size \in sizes

\* Names of event types and [DONE] are no JSON.
Mutated(line) == ~answer.stream \/ line.kind = "data"

SealedFields(line) ==
  IF ~Mutated(line) THEN 0
  ELSE IF WholeAnswer(request) THEN 1
  ELSE Cardinality(DOMAIN JSONOrder(line.doc, PlainResponse(request)))

SealLine(line, from) ==
  IF ~Mutated(line) THEN line
  ELSE [line EXCEPT !.doc =
          IF WholeAnswer(request) THEN SealWhole(@, "adapter", from)
          ELSE Seal(@, JSONOrder(@, PlainResponse(request)), "adapter", from)]

\* Nothing can be sealed for a request without a sealed field.
Sendable(line) ==
  /\ Fits(line, {"short", "grown"})
  /\ SealedFields(line) > 0 => dec > 0

\* Mutant: a line that cannot be sent is left out like an empty one.
LeftOut_unsendable(line) == line.kind = "empty" \/ ~Sendable(line)

LeftOut(line) == line.kind = "empty"

\* The next line, if it can be sent.
TakeLine ==
  LET line == Line(taken + 1)
  IN /\ pc = "answer" /\ taken < Len(answer.lines)
     /\ taken' = taken + 1
     /\ \/ LeftOut(line) /\ UNCHANGED <<wire, enc>>
        \/ /\ ~LeftOut(line) /\ Sendable(line)
           /\ wire' = Append(wire, SealLine(line, enc))
           /\ enc' = enc + SealedFields(line)
     /\ UNCHANGED <<defaultSalt, requests, pc, request, attempt, body, key, dec,
                    delivered, answer, got, shown, keyed>>

\* An error ends a stream early; what was sent before still arrives.
TakeLineFails ==
  /\ pc = "answer" /\ taken < Len(answer.lines) /\ wire = <<>>
  /\ ~LeftOut(Line(taken + 1)) /\ ~Sendable(Line(taken + 1))
  /\ pc' = "failed"
  /\ UNCHANGED <<defaultSalt, requests, request, attempt, body, key, dec, enc,
                 delivered, reply, keyed>>

-----------------------------------------------------------------------------
(* The answer at the client's proxy                                          *)

Readable(line) ==
  /\ Fits(line, {"short"})
  /\ Mutated(line) =>
       IF WholeAnswer(request) THEN OpensWhole(line.doc, "adapter", got)
       ELSE Opens(line.doc, JSONOrder(line.doc, PlainResponse(request)), "adapter", got)

OpenLine(line) ==
  IF ~Mutated(line) THEN line
  ELSE [line EXCEPT !.doc = IF WholeAnswer(request) THEN OpenWhole(@)
                            ELSE Open(@, JSONOrder(@, PlainResponse(request)))]

ReadLine ==
  /\ pc = "answer" /\ wire # <<>>
  /\ IF Readable(Head(wire))
     THEN /\ shown' = Append(shown, OpenLine(Head(wire)))
          /\ got' = got + SealedFields(Head(wire))
          /\ pc' = pc
     ELSE pc' = "failed" /\ UNCHANGED <<shown, got>>
  /\ wire' = Tail(wire)
  /\ UNCHANGED <<defaultSalt, requests, request, attempt, body, key, dec, enc,
                 delivered, answer, taken, keyed>>

Finish ==
  /\ pc = "answer" /\ taken = Len(answer.lines) /\ wire = <<>>
  /\ pc' = "done"
  /\ UNCHANGED <<defaultSalt, requests, request, attempt, body, key, dec, enc,
                 delivered, reply, keyed>>

Next ==
  \/ NewRequest
  \/ SendCompletion \/ SendJSON \/ SendForm \/ SendWhole \/ MutatorFails \/ Retry
  \/ HandleJSON \/ HandleForm \/ HandleWhole
  \/ Answer \/ TakeLine \/ TakeLineFails \/ ReadLine \/ Finish

Spec == Init /\ [][Next]_vars

-----------------------------------------------------------------------------
(* Properties                                                                *)

\* Names of values of a form that its URL has, too.
Overridden == (DOMAIN request.query \cap DOMAIN request.body) \ Files

\* The workload gets the request the application made: every field, of a form
\* the first value of each, the URL's before the form's, and nothing more but the
\* salt of a completion, which is long enough, and the application's, the proxy's
\* or else a random one (server.go:305-360, openai.go:79-122).
WorkloadGetsRequest ==
  delivered # None =>
    LET sent == request.body
        completion == request.endpoint = "completions" /\ DOMAIN sent # {}
    IN /\ DOMAIN delivered =
            DOMAIN sent \cup (IF completion THEN {"cache_salt"} ELSE {})
       /\ \A n \in DOMAIN sent \ {"cache_salt"} :
            delivered[n] =
              IF request.endpoint # "transcriptions" THEN sent[n]
              ELSE Field(<<Head(IF n \in Overridden THEN request.query[n]
                                ELSE sent[n].text)>>)
       /\ completion =>
            /\ Len(Salt(delivered)) >= MinSalt
            /\ Salt(delivered) = IF Salt(sent) # <<>> THEN Salt(sent)
                                 ELSE IF defaultSalt # <<>> THEN defaultSalt
                                 ELSE RandomSalt

\* Between the proxies no prompt, salt, file or generated text can be read, in
\* either direction, whatever the endpoint and the version of the client.
NothingConfidentialReadable ==
  /\ pc = "sent" =>
       \A n \in DOMAIN body \cap Confidential : body[n].by = "client"
  /\ \A k \in DOMAIN wire : \A n \in DOMAIN wire[k].doc \cap Confidential :
       wire[k].doc[n].by = "adapter"

\* Keys of one salt begin alike for as many characters as their texts have
\* boundaries in common, and a request has a key just if its salt is not random,
\* made with the salt the workload gets (server.go:149, 236; constants.go:103).
ShardKeysFit ==
  /\ \A a, b \in keyed : a.key.salt = b.key.salt =>
       Cardinality(SharedChars(a.key, b.key))
         = Cardinality(CommonBoundaries(a.content, b.content))
  /\ delivered # None /\ request.endpoint = "completions" /\ DOMAIN delivered # {} =>
       IF key = NoKey THEN Salt(delivered) = RandomSalt ELSE Salt(delivered) = key.salt

\* Lines of the answer that are not empty, among the first n.
FullLines(n) == {m \in 1..n : answer.lines[m].kind # "empty"}

\* The application gets the lines of the workload's answer in order, as they
\* were written and but for empty ones all of them if the answer ends well
\* (mutators.go:239-335).
AnswerArrives ==
  answer # None =>
    /\ \A k \in DOMAIN shown : \E n \in FullLines(Len(answer.lines)) :
         Cardinality(FullLines(n)) = k /\ shown[k] = answer.lines[n]
    /\ pc = "done" => Len(shown) = Cardinality(FullLines(Len(answer.lines)))

\* A request or its answer only fails for a salt that is too short, its own or
\* the flag's, a context that is too large, an insecure image, several files to
\* seal, a sealed value that the URL has, too, nothing to seal, or a line that is
\* too long: never because the two sides number their fields or choose the plain
\* ones differently (mutators.go:102-335).
FailsForAReason ==
  pc = "failed" =>
    \/ /\ request.endpoint = "completions"
       /\ \/ ShortSalt(WithSalt(request.body))
          \/ ShardSalt(request.body) # <<>> /\ TooLarge(Content(request.body))
          \/ Range(Text(request.body, "messages")) \cap InsecureParts # {}
    \/ Cardinality((DOMAIN request.body \cap Files) \ PlainRequest(request)) > 1
    \/ request.endpoint = "transcriptions" /\ Overridden \ PlainRequest(request) # {}
    \/ DOMAIN request.body \subseteq PlainRequest(request)
    \/ /\ answer # None /\ answer.stream
       /\ \E n \in DOMAIN answer.lines : answer.lines[n].size # "short"
=============================================================================
