----------------------------- MODULE SearchData -----------------------------
(***************************************************************************)
(* What a search asks and what it is told: the checks of the tool of the   *)
(* extension (tui-extension/tavily.ts) and of the controller               *)
(* (controller/tavily.mjs), the part of an answer that the controller      *)
(* passes on and the tool shows, and the endpoints that are configured.    *)
(*                                                                         *)
(* A text is its number of characters, a query without the white space at  *)
(* its ends; None is what is absent or of another type.  The labels of the *)
(* tool, and the limit of its whole output, are left out.                  *)
(***************************************************************************)
EXTENDS Integers, Sequences, SequencesExt, FiniteSetsExt

CONSTANTS None

Limits == [query |-> 1000, results |-> 10, answer |-> 8000]
FieldLimits == [title |-> 512, url |-> 2048, content |-> 8000, published |-> 128]
DefaultResults == 5

\* value ?? fallback, value || fallback
Given(value, fallback) == IF value = None THEN fallback ELSE value
Filled(value, fallback) == IF value \in {None, 0} THEN fallback ELSE value

\* boundedString, and textValue, which gives no characters for what is no text.
Bounded(value, maximum) == IF value = None THEN None ELSE Min({value, maximum})
TextValue(value, maximum) == Given(Bounded(value, maximum), 0)

\* Mutation of SearchAccepted: the limit itself is one too many.
SearchAcceptedBelow(request) ==
  /\ request.query \in 1..Limits.query
  /\ Given(request.max, DefaultResults) \in 1..(Limits.results - 1)
  /\ request.depth \in {None, "basic", "advanced"}
  /\ request.topic \in {None, "general", "news", "finance"}

\* validateSearchRequest of the controller.
SearchAccepted(request) ==
  /\ request.query \in 1..Limits.query
  /\ Given(request.max, DefaultResults) \in 1..Limits.results
  /\ request.depth \in {None, "basic", "advanced"}
  /\ request.topic \in {None, "general", "news", "finance"}

\* validateTavilyToolParams of the tool, and what it sends on.
ToolAccepted(request) ==
  /\ request.query \in 1..1000 /\ Given(request.max, 5) \in 1..10
  /\ request.depth \in {None, "basic", "advanced"}
  /\ request.topic \in {None, "general", "news", "finance"}
Sent(request) == [request EXCEPT !.max = Given(@, 5)]

\* projectTavilyResponse: a result that says nothing is left out.
Item(result) == [f \in DOMAIN FieldLimits |-> Filled(Bounded(result[f], FieldLimits[f]), None)]
Says(item) == \E f \in {"title", "url", "content"} : item[f] # None

Projected(answer, query) ==
  LET first == SubSeq(answer.results, 1, Min({Len(answer.results), Limits.results}))
  IN  [query   |-> Filled(Bounded(answer.query, Limits.query), query),
       answer  |-> Filled(Bounded(answer.answer, Limits.answer), None),
       results |-> SelectSeq([k \in DOMAIN first |-> Item(first[k])], Says)]

\* formatTavilySearchResult: the texts in their order, before the end is cut.
ShownLimits == [title |-> 512, url |-> 2048, content |-> 8000, published |-> 128]
Shown(answer) ==
  LET first == SubSeq(answer.results, 1, Min({Len(answer.results), 10}))
  IN  [query   |-> TextValue(answer.query, 1000),
       answer  |-> TextValue(answer.answer, 8000),
       results |-> [k \in DOMAIN first |->
                      [f \in DOMAIN ShownLimits |-> TextValue(first[k][f], ShownLimits[f])]]]

-----------------------------------------------------------------------------
(* Endpoints.  A host is an address of IPv4, or a name or an address of    *)
(* IPv6, which is or is not reserved for a private use.                    *)

Octet == 0..255
IPv4(first, second) == [kind |-> "ipv4", first |-> first, second |-> second]
Name(reserved) == [kind |-> "name", reserved |-> reserved]

IsPrivateLiteral(host) ==
  IF host.kind # "ipv4" THEN host.reserved
  ELSE \/ host.first \in {0, 10, 127}
       \/ host.first = 169 /\ host.second = 254
       \/ host.first = 172 /\ host.second \in 16..31
       \/ host.first = 192 /\ host.second = 168
       \/ host.first = 100 /\ host.second \in 64..127

\* A URL may be written in several ways; plain is one that has no user, no
\* search and no hash.
ValidEndpoint(entry) == entry.https /\ entry.plain /\ ~IsPrivateLiteral(entry.host)
Canonical(entry) == [entry EXCEPT !.spelling = 0]

\* parseEndpointList: the list, or None when it throws; None is an entry that
\* is blank.
ParseEndpointList(entries) ==
  LET given == SelectSeq(entries, LAMBDA e : e # None)
  IN  IF given = <<>> \/ \E k \in DOMAIN given : ~ValidEndpoint(given[k]) THEN None
      ELSE FoldLeft(LAMBDA seen, e : IF Contains(seen, Canonical(e)) THEN seen
                                     ELSE Append(seen, Canonical(e)), <<>>, given)

=============================================================================
