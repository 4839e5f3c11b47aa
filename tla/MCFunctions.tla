---------------------------- MODULE MCFunctions ----------------------------
(***************************************************************************)
(* Functions of data of the bridge, of the Grok provider and of other      *)
(* extensions, on what is built step by step: `subject` says which that    *)
(* is.                                                                     *)
(***************************************************************************)
EXTENDS Harvest

CONSTANTS
  Jobs, Local, Stops, Text,
  MaxEntries, MaxItems, MaxParts, MaxImages, MaxEdits, MaxNodes, MaxFiles  \* bounds

VARIABLES
  subject,
  entries, segments,      \* a session, and beside it the segment of each job
  job, config,            \* a job that is submitted; a file of the configuration
  search, endpoints,      \* an answer to a search; a list of endpoints
  input, fields,          \* the input and the other fields of a request to xAI
  catalog, json,          \* the models of xAI; an answer of its services
  text, offset, read,     \* a file, and what a model has read of it
  agents                  \* files of agents, of the user and of the project

sessionVars == <<entries, segments>>
bridgeVars  == <<job, config, search, endpoints>>
grokVars    == <<input, fields, catalog, json>>
fileVars    == <<text, offset, read>>
vars == <<subject, sessionVars, bridgeVars, grokVars, fileVars, agents>>

ReadLimit == 3

Input   == INSTANCE JobInput WITH MediaTypes <- {"image/png"}, Envelope <- 512
Tailnet == [network |-> <<1, 2, 0, 0>>, prefix |-> 3]
Setup   == INSTANCE ControllerConfig WITH
  OctetBits <- 2, AllowedNetworks <- {Tailnet, [network |-> <<3, 0, 0, 0>>, prefix |-> 2]},
  ValidNames <- {"a", "b", "constructor"}, Inherited <- {"constructor"}
Payload == INSTANCE GrokPayload WITH Texts <- {Text, "label", "no text"}
Offered == INSTANCE GrokModels WITH
  Fallback <- <<"known", "capable">>, Capable <- {"capable"}, NoChat <- {"image"}
Answers == INSTANCE BoundedJson
Tavily  == INSTANCE SearchData
File    == INSTANCE ReadWindow WITH MaxBytes <- 4, MaxLine <- 3, MaxLimit <- ReadLimit
Agents  == INSTANCE AgentFiles

ASSUME FunctionsAssumption == File!ReadConstants /\ Setup!ConfigConstants

\* Texts at the limits: of one code point per unit, of two, and those that
\* either language, or one of the two, takes for blank.
JobText(points, units, bytes, blank) ==
  [points |-> points, units |-> units, bytes |-> bytes, blank |-> blank]
NoText == JobText(0, 0, 0, {"strip", "trim"})
JobTexts ==
  {NoText, JobText(3, 3, 3, {"strip", "trim"}), JobText(1, 1, 6, {"strip"}), JobText(1, 1, 6, {"trim"}),
   JobText(20, 20, 20, {}), JobText(100000, 100000, 600000, {}), JobText(100001, 100001, 100001, {}),
   JobText(60000, 120000, 240000, {}), JobText(60000, 120000, 720000, {"trim"})}

\* 5 MiB, a byte more, 3 MiB, a byte more; not encoded, not canonical.
Image(type, chars, padding, canonical) ==
  [type |-> type, chars |-> chars, padding |-> padding, canonical |-> canonical]
Images ==
  {Image("image/png", 6990508, 1, TRUE), Image("image/png", 6990508, 0, TRUE),
   Image("image/png", 4194304, 0, TRUE), Image("image/png", 4194308, 2, TRUE),
   Image("image/png", 6, 0, TRUE), Image("image/png", 4, 0, FALSE), Image("other", 4, 2, TRUE)}

\* A configuration that loads, and what may stand in its fields instead.
BaseConfig ==
  [host |-> Setup!Plain(<<1, 3, 0, 1>>), port |-> None, internalPort |-> None,
   sources |-> {Setup!Plain(<<1, 2, 3, 3>>)},
   bearer |-> "hash", statePath |-> "missing", terminal |-> [pi |-> "file"],
   projects |-> [n \in {"a"} |-> "directory"], profiles |-> [n \in {"a"} |-> None],
   project |-> None, profile |-> None, limits |-> [n \in DOMAIN Setup!Limits |-> None]]

Padded == [octets |-> <<1, 2, 0, 1>>, padded |-> {2}]
ConfigValues ==
  [host |-> {Setup!Plain(<<1, 1, 3, 3>>), Setup!Plain(<<2, 2, 0, 0>>), Setup!Plain(<<1, 2>>), Padded},
   port |-> {0, 1, 8788, 65535, 65536},
   internalPort |-> {0, 1, 8787, 65535, 65536},
   sources |-> {{}, {Setup!Plain(<<1, 3, 3, 3>>), Setup!Plain(<<1, 2, 0, 0>>)},
                {Setup!Plain(<<1, 2, 0, 0>>), Setup!Plain(<<0, 0, 0, 0>>)}, {Padded}},
   bearer |-> {"other"}, statePath |-> {"file", "relative", "root"},
   terminal |-> {[pi |-> "missing"], [pi |-> "directory"]},
   projects |-> {[n \in {} |-> None], [n \in {"b"} |-> "file"], [n \in {"a", "b"} |-> "directory"],
                 [n \in {"a", "no name"} |-> "directory"], [n \in {"constructor"} |-> "directory"]},
   profiles |-> {[n \in {} |-> None], [n \in {"b"} |-> "file"], [n \in {"b"} |-> "relative"]},
   project |-> {"a", "b", "constructor"}, profile |-> {"a", "b"},
   limits |-> {[BaseConfig.limits EXCEPT ![n] = v] :
                 n \in DOMAIN Setup!Limits, v \in {0, 1, 25000, 25001, 500000}}]

Edits == {f \in DOMAIN BaseConfig : config[f] # BaseConfig[f]}

\* Files of agents: with a model, without one, without a name.
Described == Agents!Line("description", "d")
AgentFileValues ==
  UNION {{Agents!AgentFile(<<Agents!Line("name", n), Described, Agents!Line("tools", "t"),
                             Agents!Line("model", "m")>>),
          Agents!AgentFile(<<Agents!Line("name", n), Described>>)} : n \in {"a", "b"}}
    \cup {Agents!AgentFile(<<Described, Agents!Line("model", "m")>>)}

NoAgents == [user |-> <<>>, dirs |-> <<None, None>>]
AllFiles ==
  agents.user \o FlattenSeq([d \in 1..2 |-> IF agents.dirs[d] = None THEN <<>> ELSE agents.dirs[d]])

Subjects ==
  {"session", "job", "config", "search", "endpoints", "payload", "fields", "catalog", "json", "file", "agents"}

Init ==
  /\ subject \in Subjects
  /\ entries = <<>> /\ segments = [j \in Jobs |-> None]
  /\ job \in [text : IF subject = "job" THEN JobTexts ELSE {NoText}, images : {<<>>}]
  /\ config = BaseConfig /\ endpoints = <<>>
  /\ search \in [query : IF subject = "search" THEN {None, 0, 5, 1001} ELSE {0},
                 answer : IF subject = "search" THEN {None, 0, 8001} ELSE {0}, results : {<<>>}]
  /\ input = <<>> /\ fields = [f \in {} |-> None] /\ catalog = <<>> /\ json = Answers!Primitive
  /\ text \in IF subject = "file" THEN SeqOf({0, 1, 2, 5}, MaxParts) ELSE {<<>>}
  /\ offset = 1 /\ read = <<>>
  /\ agents = NoAgents

AppendMark(j) ==
  /\ entries' = Append(entries, Mark(j))
  /\ segments' = [segments EXCEPT ![j] = Marked]

AppendUser(who) ==
  /\ entries' = Append(entries, User(who))
  /\ segments' = [j \in Jobs |-> WithUser(segments[j])]

AppendAnswer(who, stop) ==
  /\ entries' = Append(entries, Answer(who, stop))
  /\ segments' = [j \in Jobs |-> WithAnswer(segments[j], who, stop)]

Session ==
  /\ subject = "session" /\ Len(entries) < MaxEntries
  /\ \/ \E j \in Jobs : AppendMark(j)
     \/ \E w \in Jobs \cup {Local} : AppendUser(w)
     \/ \E w \in Jobs \cup {Local}, s \in Stops : AppendAnswer(w, s)
  /\ UNCHANGED <<subject, bridgeVars, grokVars, fileVars, agents>>

Contents == {<<Text>>, <<"image">>, <<Text, "path">>, <<"image_url", Text>>, <<"missing">>}
Items ==
  {Payload!Message(role, content) : role \in {"user", "system"}, content \in Contents \cup {None}}
    \cup {Payload!Output(parts) : parts \in Contents} \cup {Payload!Reasoning, Payload!Raw}

Request ==
  /\ subject = "payload" /\ Len(input) < MaxItems
  /\ \E i \in Items : input' = Append(input, i)
  /\ UNCHANGED <<subject, sessionVars, bridgeVars, fields, catalog, json, fileVars, agents>>

FieldValues ==
  [response_format |-> {"json"}, text |-> {"plain"},
   reasoning |-> SUBSET {"effort", "summary"},
   include |-> SUBSET {"other", Payload!Encrypted},
   tools |-> {<<>>, <<"slash">>, <<"plain", "slash">>},
   temperature |-> {-1, 1, 3}, top_p |-> {-1, 1, 3},
   seed |-> {1}, service_tier |-> {"auto"}, prompt_cache_key |-> {"key"}]

Fields ==
  /\ subject = "fields"
  /\ \E f \in DOMAIN FieldValues \ DOMAIN fields : \E v \in FieldValues[f] :
       fields' = fields @@ (f :> v)
  /\ UNCHANGED <<subject, sessionVars, bridgeVars, input, catalog, json, fileVars, agents>>

\* A catalog names no model twice.
Catalog ==
  /\ subject = "catalog"
  /\ \E id \in {"known", "capable", "new", "image"} \ Offered!Ids(catalog),
        window \in {None, "live"}, effort \in BOOLEAN :
       catalog' = Append(catalog, Offered!Entry(id, window, effort))
  /\ UNCHANGED <<subject, sessionVars, bridgeVars, input, fields, json, fileVars, agents>>

\* The model reads on, where the last footer told it; 0 is the end.
Read ==
  /\ subject = "file" /\ offset > 0
  /\ \E limit \in 1..ReadLimit :
       LET window == File!BuildReadWindow(text, offset, limit)
       IN  /\ ~File!OutOfRange(window, offset)
           /\ read' = read \o window.lines
           /\ offset' = File!NextOffset(window, offset)
  /\ UNCHANGED <<subject, sessionVars, bridgeVars, grokVars, text, agents>>

Submission ==
  /\ subject = "job" /\ Len(job.images) < MaxImages
  /\ \E i \in Images : job' = [job EXCEPT !.images = Append(@, i)]
  /\ UNCHANGED <<subject, sessionVars, config, search, endpoints, grokVars, fileVars, agents>>

\* Results with and without texts, and with texts that are too long.
Results ==
  [title : {None, 600}, url : {0, 20}, content : {None, 9000}, published : {8}]

\* As many as are passed on but one, before others are added.
SearchAnswer ==
  /\ subject = "search" /\ Len(search.results) < 11
  /\ \E r \in Results :
       search' = [search EXCEPT !.results = IF @ = <<>> THEN [k \in 1..9 |-> r] ELSE Append(@, r)]
  /\ UNCHANGED <<subject, sessionVars, job, config, endpoints, grokVars, fileVars, agents>>

Entries ==
  {None} \cup [https : {TRUE}, plain : BOOLEAN, spelling : {0, 1},
              host : {Tavily!Name(FALSE), Tavily!IPv4(8, 8), Tavily!IPv4(172, 16)}]

EndpointEntry ==
  /\ subject = "endpoints" /\ Len(endpoints) < 3
  /\ \E e \in Entries : endpoints' = Append(endpoints, e)
  /\ UNCHANGED <<subject, sessionVars, job, config, search, grokVars, fileVars, agents>>

Configuration ==
  /\ subject = "config" /\ Cardinality(Edits) < MaxEdits
  /\ \E f \in DOMAIN BaseConfig \ Edits : \E v \in ConfigValues[f] : config' = [config EXCEPT ![f] = v]
  /\ UNCHANGED <<subject, sessionVars, job, search, endpoints, grokVars, fileVars, agents>>

\* The nodes of a value with their depths, as they are met.
RECURSIVE Nodes(_, _)
Nodes(value, depth) ==
  <<[value |-> value, depth |-> depth]>>
    \o FlattenSeq([k \in DOMAIN value.items |-> Nodes(value.items[k], depth + 1)])

XaiAnswer ==
  /\ subject = "json" /\ Len(Nodes(json, 0)) < MaxNodes
  /\ \/ \E kind \in {"array", "object"} : json' = Answers!Container(kind, <<json>>)
     \/ Answers!IsContainer(json)
        /\ \E v \in {Answers!Primitive, Answers!Container("array", <<>>)} :
             json' = [json EXCEPT !.items = Append(@, v)]
  /\ UNCHANGED <<subject, sessionVars, bridgeVars, input, fields, catalog, fileVars, agents>>

AgentsAdded ==
  /\ subject = "agents" /\ Len(AllFiles) < MaxFiles
  /\ \E f \in AgentFileValues :
       \/ agents' = [agents EXCEPT !.user = Append(@, f)]
       \/ \E d \in 1..2 : agents' = [agents EXCEPT !.dirs[d] = IF @ = None THEN <<f>> ELSE Append(@, f)]
  /\ UNCHANGED <<subject, sessionVars, bridgeVars, grokVars, fileVars>>

Next ==
  \/ Session \/ Submission \/ Configuration \/ SearchAnswer \/ EndpointEntry \/ Request \/ Fields \/ Catalog \/ XaiAnswer \/ Read
  \/ AgentsAdded

Spec == Init /\ [][Next]_vars

-----------------------------------------------------------------------------
\* Whatever the order of markers, prompts and answers of several authors, the
\* segment a job's marker opens tells what hasUserAfterMarker and harvestResult
\* read off the whole session (core.ts:195, :231).
SegmentsExact ==
  \A j \in Jobs :
    /\ SegmentHasUser(segments[j]) = HasUserAfterMarker(entries, j)
    /\ SegmentResult(segments[j]) = HarvestResult(entries, j)

\* What the controller accepts within the limits of the extension is accepted by
\* the extension too, and is a prompt; and conversely, with the same limits.  It
\* fits into a request.  What the plugin accepts is refused only for characters
\* that take two units, or when all it has is white space for JavaScript and not
\* for Python, and a refusal is not tried again.
JobsPass ==
  LET smaller == [Input!Limits EXCEPT !.text = 20, !.images = 1]
  IN  /\ \A limits \in {Input!Limits, smaller} :
           Input!SubmitRefusal(limits, job) = None =>
             Input!PayloadRefusal(job) = None /\ Input!UserContent(job) # <<>>
      /\ Input!PayloadRefusal(job) = None =>
           Input!SubmitRefusal(Input!Limits, job) = None /\ Input!BodyBytes(job) <= Input!MaxBodyBytes
      /\ (\A k \in DOMAIN job.images : Input!CanonicalBase64(job.images[k]))
           /\ Input!PluginAccepts(job)
           => \/ Input!Refusal(Input!Limits, job) = None
              \/ job.text.points <= Input!Limits.text /\ job.text.units > Input!Limits.text
              \/ Input!Empty(job, "trim") /\ ~Input!Empty(job, "strip")
      /\ LET refusal == Input!Refusal(Input!Limits, job)
         IN  refusal # None => ~Input!Retryable(Input!Status(refusal))

\* A job that a configured controller accepts is a job for the extension.  One
\* beyond the limits of the extension is dropped (index.ts:341), leased again and
\* again, and never settled, although loadConfig allows larger limits.
LargerJobsPass ==
  Input!SubmitRefusal([text |-> 500000, images |-> 10, bytes |-> 20 * Input!MiB, total |-> 40 * Input!MiB], job)
    = None => Input!PayloadRefusal(job) = None

\* The limit of 100k characters is the same for the plugin (main.py:284).
PointsPass == Input!PluginAccepts(job) => job.text.units <= Input!Limits.text

Bit(n, k) == (n \div 2^(Setup!WordBits - k)) % 2

\* An address is in a network if and only if the first bits are the same.
CidrExact ==
  \A address \in [1..4 -> Setup!Octets], network \in {<<1, 2, 0, 0>>, <<3, 3, 3, 3>>, <<0, 0, 0, 0>>},
     prefix \in 0..Setup!WordBits :
    Setup!InCidr(Setup!Plain(address), [network |-> network, prefix |-> prefix]) <=>
      \A k \in 1..prefix : Bit(Setup!Ipv4Number(address), k) = Bit(Setup!Ipv4Number(network), k)

\* A configuration that loads can be used: requests come from the tailnet only,
\* and from every source that is written without leading zeros; so written, the
\* plugin accepts its address; a start needs to name no project, its extension
\* accepts the environment, and an answer to a poll comes before the caller gives up.
ConfigUsable ==
  Setup!Loads(config) =>
    LET c == Setup!Config(config)
    IN  /\ \A remote \in [1..4 -> Setup!Octets] :
             Setup!Admits(c, remote) => Bit(Setup!Ipv4Number(remote), 2) = 1
                                        /\ Bit(Setup!Ipv4Number(remote), 1) = 0
        /\ \A source \in c.sources : source.padded = {} => Setup!Admits(c, source.octets)
        /\ c.host.padded = {} <=> Setup!AcceptsUrl(c.host, c.port)
        /\ Setup!Resolves(c, None, None)
        /\ \A alias \in {"a", "b"} : Setup!ParsesRuntime(Setup!Environment(c, alias))
        /\ c.port # c.internalPort
        /\ c.limits.internalPollMs < Setup!ExtensionPollMs /\ c.limits.resultPollMs < Setup!PluginCallMs

\* "Default project or profile is unknown" (server.mjs:213) is noticed: names
\* that every object inherits pass for known ones.
DefaultsKnown ==
  Setup!Loads(config) => Setup!Config(config).project \in DOMAIN config.projects

Requests ==
  [query : {None, 0, 1, 1000, 1001}, max : {None, 0, 1, 10, 11}, depth : {None, "basic", "deep"},
   topic : {None, "news", "other"}]

\* The controller searches for exactly what the tool sends.  What it passes on of
\* an answer is shown as it is, in as many results; only results that say nothing
\* and what is beyond the limits is missing.
SearchPasses ==
  LET now   == Tavily!Projected(search, 7)
      shown == Tavily!Shown(now)
      first == SubSeq(search.results, 1, Min({10, Len(search.results)}))
  IN  /\ \A r \in Requests :
           Tavily!ToolAccepted(r) = Tavily!SearchAccepted(IF Tavily!ToolAccepted(r) THEN Tavily!Sent(r) ELSE r)
      /\ shown.query = now.query /\ now.query > 0
      /\ shown.answer = (IF now.answer = None THEN 0 ELSE now.answer)
      /\ Len(shown.results) = Len(now.results)
      /\ \A k \in DOMAIN now.results, f \in DOMAIN Tavily!FieldLimits :
           shown.results[k][f] = IF now.results[k][f] = None THEN 0 ELSE now.results[k][f]
      /\ Len(now.results) =
           Cardinality({k \in DOMAIN first :
                          \E f \in {"title", "url", "content"} : first[k][f] \notin {None, 0}})
      /\ Tavily!Projected(now, 7) = now

\* The endpoints are those that are configured, each once and none private, and
\* configuration, which parses the list twice, has the same list.
EndpointsExact ==
  LET list  == Tavily!ParseEndpointList(endpoints)
      given == ToSet(endpoints) \ {None}
  IN  IF list = None
      THEN given = {} \/ \E e \in given : ~e.plain \/ e.host = Tavily!IPv4(172, 16)
      ELSE /\ IsInjective(list) /\ ToSet(list) = {Tavily!Canonical(e) : e \in given}
           /\ Tavily!ParseEndpointList(list) = list

\* The private networks by their first bits.
PrivateExact ==
  \A first, second \in Tavily!Octet :
    Tavily!IsPrivateLiteral(Tavily!IPv4(first, second)) <=>
      \/ first \in {0, 10, 127} \/ <<first, second>> \in {<<169, 254>>, <<192, 168>>}
      \/ first = 172 /\ second \div 16 = 1
      \/ first = 100 /\ second \div 64 = 1

(* On its way a job meets three checks that agree, under any configuration *)
(* that loads, an answer is read off its own segment, and a search and its *)
(* results pass the tool and the controller alike: the functions of the    *)
(* bridge (registry.mjs:369, core.ts:104, :231, server.mjs:115,            *)
(* tavily.mjs:144).                                                        *)
BridgeExact ==
  /\ subject = "session" => SegmentsExact
  /\ subject = "job" => JobsPass
  /\ subject = "config" => ConfigUsable /\ (Edits = {} => CidrExact)
  /\ subject = "search" => SearchPasses
  /\ subject = "endpoints" => EndpointsExact /\ (endpoints = <<>> => PrivateExact)

(* An answer once harvested as finished is never taken back or replaced by *)
(* another text, unless the job is marked again: what follows can only add *)
(* that it was interrupted (harvestResult stops at the second user         *)
(* message), or, before that, a later text of the same segment.            *)
CutIsFinal ==
  [][\A j \in Jobs :
       /\ segments[j] # None /\ segments[j].cut
       /\ Last(entries') # Mark(j)
       => HarvestResult(entries', j) = HarvestResult(entries, j)]_entries

\* The parts of all items, without those that the function writes itself.
AllParts(items) ==
  SelectSeq(FlattenSeq([k \in DOMAIN items |-> items[k].content]),
            LAMBDA p : p \notin {"label", "no text"})

\* A request that is sent holds nothing that xAI is known to refuse, among
\* which no instruction at its beginning, has lost no text and no image but
\* those of instructions, and is the same when sanitized again.  It is refused
\* only for an image that is missing.
InputAccepted ==
  LET kept  == Payload!Kept(input)
      rest  == SubSeq(kept, Payload!Leading(kept) + 1, Len(kept))
      asked == AllParts(rest)
      now   == Payload!Sanitized([instructions |-> <<>>, input |-> input])
  IN  IF now = None THEN Contains(asked, "missing")
      ELSE /\ \A k \in DOMAIN now.input :
                /\ now.input[k].type # "reasoning" /\ now.input[k].content # None
                /\ Payload!ImagesOf(now.input[k].content) \in Seq({"input_image"})
                /\ now.input[k].type = "function_call_output"
                     => Payload!ImagesOf(now.input[k].content) = <<>>
           /\ now.input # <<>> => ~Payload!Instructs(Head(now.input))
           /\ now.instructions \o Payload!TextsOf(AllParts(now.input))
                = Payload!TextsOf(AllParts(kept))
           /\ Len(Payload!ImagesOf(AllParts(now.input))) = Len(Payload!ImagesOf(asked))
           /\ Payload!Sanitized(now) = now

\* Nor does it hold another field that xAI refuses or a value out of its range,
\* it asks for what is needed to replay reasoning, and every other field is
\* there as it was.
FieldsAccepted ==
  \A efforts, reasons \in BOOLEAN :
    LET now == Payload!SanitizedFields(fields, efforts, reasons)
        Has(f) == f \in DOMAIN now
    IN  /\ Payload!Unsupported \cap DOMAIN now = {}
        /\ Has("response_format") => "text" \in DOMAIN fields
        /\ Has("reasoning") => efforts /\ "summary" \notin now["reasoning"]
        /\ reasons => Has("include") /\ Payload!Encrypted \in now["include"]
        /\ Has("tools") => now["tools"] # <<>> /\ ~Contains(now["tools"], "slash")
        /\ Has("temperature") => now["temperature"] \in 0..2
        /\ Has("top_p") => now["top_p"] \in 0..1
        /\ {"text", "include", "prompt_cache_key"} \cap DOMAIN fields \subseteq DOMAIN now
        /\ "text" \in DOMAIN fields => now["text"] = fields["text"]
        /\ "response_format" \in DOMAIN fields =>
             "json" \in {now[f] : f \in DOMAIN now \cap {"text", "response_format"}}
        /\ Payload!SanitizedFields(now, efforts, reasons) = now

\* Every discovered chat model and every hardcoded one is offered once, or
\* exactly those of PI_XAI_OAUTH_MODELS in their order; each is routed through
\* the proxy, with what the catalog says of it.  The models are the same whether
\* the catalog arrives before or after they are registered, and when they are
\* rebuilt once more; those of another provider stay.
ModelsOffered ==
  \A env \in {<<>>, <<"new", "known">>, <<"other">>} :
    LET others == <<[Offered!Model("known", "others") EXCEPT !.provider = "other"]>>
        Rebuilt(models) == Offered!Rebuilt(models, catalog, env)
        cold   == others \o Offered!Resolved(env)
        all    == Rebuilt(cold)
        ours   == Tail(all)
        ids    == [k \in DOMAIN ours |-> ours[k].id]
        chats  == Offered!Ids(Offered!Chats(catalog))
    IN  /\ <<Head(all)>> = others
        /\ IF env # <<>> THEN ids = env
           ELSE IsInjective(ids) /\ ToSet(ids) = chats \cup {"known", "capable"}
        /\ \A k \in DOMAIN ours : ours[k].routed
        /\ \A e \in ToSet(Offered!Chats(catalog)), m \in ToSet(ours) :
             m.id = e.id => /\ e.window # None => m.window = e.window
                            /\ e.effort => m.levels
        /\ Rebuilt(all) = all
        /\ Rebuilt(others \o Offered!Applied(Offered!Resolved(env), catalog, env)) = all

\* An answer of xAI is used if and only if its nodes, its depth and the widths of
\* its arrays and objects are within the bounds, and its bytes within the limit
\* however they come.  A catalog that stays a level and three nodes below them is
\* read back from the cache.
AnswersBounded ==
  LET nodes == Nodes(json, 0)
      Fits(options) ==
        /\ Len(nodes) <= options.maxNodes
        /\ \A k \in DOMAIN nodes : LET v == nodes[k].value
             IN  Answers!IsContainer(v) =>
                   /\ nodes[k].depth < options.maxDepth
                   /\ Len(v.items) <= IF v.kind = "array" THEN options.maxArrayItems
                                      ELSE options.maxObjectKeys
  IN  /\ \A depth \in 0..3, size \in 1..MaxNodes, width \in 1..3 :
           LET options == Answers!Options(depth, size, width)
           IN  /\ Answers!Parses(options, json) <=> Fits(options)
               /\ Answers!Parses(options, json) /\ Answers!IsContainer(json) =>
                    Answers!Cached(Answers!Options(depth + 1, size + 3, Max({width, 3})), json)
      /\ \A chunks \in SeqOf(0..2, 3), bytes \in 0..4 :
           Answers!ReadText(chunks, bytes) =
             IF FoldLeft(+, 0, chunks) <= bytes THEN FoldLeft(+, 0, chunks) ELSE None

\* A catalog that is accepted is also read back from the cache, which has the
\* same bounds for one more level (catalog-cache.ts:96, models.ts:429).
CatalogsKept ==
  \A depth \in 1..3 :
    LET options == Answers!Options(depth, MaxNodes, 3)
    IN  Answers!Parses(options, json) /\ Answers!IsContainer(json) => Answers!Cached(options, json)

(* What a request to xAI says is accepted, complete, and the same when     *)
(* sanitized again, whatever its items and fields are (sanitize.ts:4); the *)
(* models that pi offers do not depend on when the catalog arrives         *)
(* (models.ts:706); and exactly the answers within the bounds are used     *)
(* (bounded-json.ts:55).                                                   *)
ProviderExact ==
  /\ subject = "payload" => InputAccepted
  /\ subject = "fields" => FieldsAccepted
  /\ subject = "catalog" => ModelsOffered
  /\ subject = "json" => AnswersBounded

\* The levels of thinking that are offered are levels that are sent: the flag
\* of the catalog makes pi offer them (models.ts:284), while the payload keeps
\* an effort only of the models that the code lists (sanitize.ts:333).
EffortsSent ==
  \A m \in ToSet(Offered!Rebuilt(Offered!Resolved(<<>>), catalog, <<>>)) :
    m.levels => "reasoning" \in DOMAIN Payload!SanitizedFields(
                                 [reasoning |-> {"effort"}], m.id = "capable", TRUE)

(* xAI rejects role: "developer" and role: "system" in the input array;    *)
(* these must be moved to top-level instructions (sanitize.ts:11).  Only   *)
(* those at the beginning are.                                             *)
InstructionsMoved ==
  LET now == Payload!Sanitized([instructions |-> <<>>, input |-> input])
  IN  now # None => \A k \in DOMAIN now.input : ~Payload!Instructs(now.input[k])

\* A model that follows the footers of the read tool sees each line of the file
\* once and in order, gets on with every call, and is told the end when it has
\* seen the last (buildReadWindow).
ReadsAll ==
  /\ read = [k \in 1..Len(read) |-> k]
  /\ LET lines == Len(File!Lines(text))
     IN  IF offset = 0 THEN Len(read) = lines
         ELSE offset = Len(read) + 1 /\ offset <= Max({1, lines})

\* The files that are looked at, in the order in which a later one wins: those of
\* the user, and of the directory that is nearest to the working directory.
LookedAt(scope) ==
  (IF scope = "project" THEN <<>> ELSE agents.user)
    \o CASE scope = "user" -> <<>>
         [] agents.dirs[2] # None -> agents.dirs[2]
         [] agents.dirs[1] # None -> agents.dirs[1]
         [] OTHER -> <<>>

\* Every name that a file gives is found once, as its last file has it; one that
\* the project gives is the project's.
AgentsFound ==
  \A scope \in {"user", "project", "both"} :
    LET found  == Agents!DiscoverAgents(agents.user, agents.dirs, scope)
        files  == SelectSeq(LookedAt(scope), Agents!Loadable)
        OfName(name) == {k \in DOMAIN files : Agents!Value(files[k], "name") = name}
    IN  /\ IsInjective([k \in DOMAIN found |-> found[k].name])
        /\ {a.name : a \in ToSet(found)} = {Agents!Value(f, "name") : f \in ToSet(files)}
        /\ \A a \in ToSet(found) :
             LET last == Max(OfName(a.name))
             IN  /\ a = Agents!Agent(files[last], a.source)
                 /\ a.source = "project" <=>
                      scope # "user" /\ (scope = "both" => last > Len(SelectSeq(agents.user, Agents!Loadable)))

\* An agent whose model is taken back is found as before, and runs with the
\* default or with none.
ModelTakenBack ==
  \A k \in DOMAIN AllFiles :
    LET file == AllFiles[k]
        now  == Agents!SetFrontmatterModel(file, None)
        settings == [s \in {"defaultModel", "promptOptimizerModel"} |-> "n"]
    IN  /\ \A key \in {"name", "description", "tools"} :
             Agents!Value(now, key) = Agents!Value(file, key)
        /\ Agents!EffectiveModel(None, Agents!Agent(now, "user"), settings) = "n"

\* An agent whose model is set is found as before, with that model
\* (subagent/index.ts:136).  The fence that ends the frontmatter is put behind its
\* last line, so that no agent is found any more.
ModelSet ==
  \A k \in DOMAIN AllFiles :
    Agents!Loadable(AllFiles[k]) =>
      Agents!Value(Agents!SetFrontmatterModel(AllFiles[k], "n"), "model") = "n"

\* Setting the default model keeps what else is in subagent-config.json: the model
\* of the prompt optimizer (subagent/index.ts:661).
SettingsKept ==
  LET settings == [s \in {"defaultModel", "promptOptimizerModel"} |-> "m"]
  IN  "promptOptimizerModel" \in DOMAIN Agents!WriteDefaultModel(settings, "n")

(* What the tools of other extensions give is all there is: a file that is *)
(* read in windows (anchored-standard.ts:288), the agents that can be      *)
(* named (agents.ts:97).                                                   *)
ExtensionsExact ==
  /\ subject = "file" => ReadsAll
  /\ subject = "agents" => AgentsFound /\ ModelTakenBack

=============================================================================
