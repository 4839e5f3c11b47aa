---------------------------- MODULE BoundedJson ----------------------------
(***************************************************************************)
(* What pi-grok reads of an answer: its bytes up to a limit                *)
(* (safe-fetch.ts), and a value whose depth, width and size are bounded    *)
(* (bounded-json.ts); and what the cache file keeps of a catalog           *)
(* (catalog-cache.ts).                                                     *)
(*                                                                         *)
(* A value is its kind and its items, which only arrays and objects have.  *)
(***************************************************************************)
EXTENDS Integers, Sequences, SequencesExt

CONSTANTS None

Primitive == [kind |-> "primitive", items |-> <<>>]
Container(kind, items) == [kind |-> kind, items |-> items]
IsContainer(value) == value.kind \in {"array", "object"}

\* Options are the numbers maxDepth, maxNodes, maxArrayItems, maxObjectKeys.
Options(depth, nodes, width) ==
  [maxDepth |-> depth, maxNodes |-> nodes, maxArrayItems |-> width, maxObjectKeys |-> width]

MaxWidth(options, kind) ==
  IF kind = "array" THEN options.maxArrayItems ELSE options.maxObjectKeys

\* Mutation of Enters: one level more.
EntersDeeper(options, value, depth) ==
  depth <= options.maxDepth /\ Len(value.items) <= MaxWidth(options, value.kind)

\* Whether the walk goes into a container.
Enters(options, value, depth) ==
  depth < options.maxDepth /\ Len(value.items) <= MaxWidth(options, value.kind)

\* assertBoundedJson: how many nodes were walked in the end, None once the
\* walk has thrown.
RECURSIVE Walk(_, _, _, _)
Walk(options, value, depth, nodes) ==
  CASE nodes + 1 > options.maxNodes -> None
    [] ~IsContainer(value) -> nodes + 1
    [] ~Enters(options, value, depth) -> None
    [] OTHER -> FoldLeft(LAMBDA walked, item :
                           IF walked = None THEN None ELSE Walk(options, item, depth + 1, walked),
                         nodes + 1, value.items)

\* parseBoundedJson, of a text that is JSON
Parses(options, value) == Walk(options, value, 0, 0) # None

\* readBoundedText: the bytes that are read, None if they are too many.  A body
\* that is no stream is one chunk.
ReadText(chunks, maxBytes) ==
  FoldLeft(LAMBDA received, bytes :
             IF received = None \/ received + bytes > maxBytes THEN None ELSE received + bytes,
           0, chunks)

\* readBoundedJson, of a body that holds a value.
Reads(chunks, maxBytes, options, value) == ReadText(chunks, maxBytes) # None /\ Parses(options, value)

\* serializeCatalog, with the version of the schema and fetchedAt.
Record(body) == Container("object", <<Primitive, Primitive, body>>)

\* loadCachedCatalog, of what writeCachedCatalog wrote, when it is not too old.
Cached(options, body) == Parses(options, Record(body)) /\ IsContainer(body)

=============================================================================
