---------------------------- MODULE GrokPayload ----------------------------
(***************************************************************************)
(* What sanitizePayload (pi-grok/sanitize.ts) makes of a request before it *)
(* goes to xAI: of its input, and of its other fields.                     *)
(*                                                                         *)
(* An item of the input is a message, a reasoning item, a string, or the   *)
(* output of a function call.  Content is None if it is the empty string,  *)
(* or a sequence of parts: a text, or an image as one of the APIs writes   *)
(* it, with its data or with the path of a local file, which may be        *)
(* missing.                                                                *)
(*                                                                         *)
(* The other fields are a function of the names of those that are there:   *)
(* reasoning holds the set of its keys and include what it names; a tool   *)
(* is "plain", or "slash" if an enum of its schema holds a slash.          *)
(***************************************************************************)
EXTENDS Integers, Sequences, FiniteSetsExt, SequencesExt, TLC

CONSTANTS None, Texts

Images == {"image", "image_url", "path", "missing", "input_image"}

Message(role, content) == [type |-> "message", role |-> role, content |-> content]
Output(parts)          == [type |-> "function_call_output", role |-> None, content |-> parts]
Reasoning              == [type |-> "reasoning", role |-> None, content |-> <<>>]
Raw                    == [type |-> "string", role |-> None, content |-> <<>>]

TextsOf(parts)  == SelectSeq(parts, LAMBDA p : p \in Texts)
ImagesOf(parts) == SelectSeq(parts, LAMBDA p : p \in Images)

\* What is replayed of reasoning goes, and so does what is empty.
Kept(input) == SelectSeq(input, LAMBDA i : i.type # "reasoning" /\ i.content # None)

Instructs(item) == item.role \in {"developer", "system"}

\* How many messages at the beginning instruct.
Leading(input) == Min({Len(input)} \cup {k - 1 : k \in {l \in DOMAIN input : ~Instructs(input[l])}})

\* normalizeImageParts
Normalized(parts) ==
  [k \in DOMAIN parts |-> IF parts[k] \in Images THEN "input_image" ELSE parts[k]]

\* rewriteFunctionCallOutput: the images of an output follow it in a message
\* of their own.
Rewritten(item) ==
  IF item.type # "function_call_output" THEN <<item>>
  ELSE LET texts  == TextsOf(item.content)
           images == ImagesOf(item.content)
       IN  <<Output(IF texts = <<>> THEN <<"no text">> ELSE texts)>> \o
           (IF images = <<>> THEN <<>> ELSE <<Message("user", <<"label">> \o images)>>)

\* None if it throws, because of a local image that does not exist.
Sanitized(request) ==
  LET kept  == Kept(request.input)
      first == Leading(kept)
      rest  == SubSeq(kept, first + 1, Len(kept))
  IN  IF \E k \in DOMAIN rest : Contains(rest[k].content, "missing") THEN None
      ELSE [instructions |-> request.instructions \o
                             FlattenSeq([k \in 1..first |-> TextsOf(kept[k].content)]),
            input |-> FlattenSeq([k \in DOMAIN rest |->
                        Rewritten([rest[k] EXCEPT !.content = Normalized(@)])])]

-----------------------------------------------------------------------------
(* The other fields.                                                       *)

Unsupported == {"prompt_cache_retention", "seed", "parallel_tool_calls", "service_tier"}
Encrypted   == "reasoning.encrypted_content"

Given(fields, name, otherwise) == IF name \in DOMAIN fields THEN fields[name] ELSE otherwise
Clamped(n, high) == Max({0, Min({n, high})})

\* response_format becomes text.format, unless there is a text.
Renamed(fields) ==
  IF {"response_format", "text"} \cap DOMAIN fields = {"response_format"}
  THEN [f \in ({"text"} \cup DOMAIN fields) \ {"response_format"} |->
          IF f = "text" THEN fields["response_format"] ELSE fields[f]]
  ELSE fields

\* stripSlashEnumsFromTools
Stripped(tools) == [k \in DOMAIN tools |-> "plain"]

\* The fields that xAI refuses, of a model with or without efforts.
Refused(fields, efforts) ==
  Unsupported \cup (IF efforts THEN {} ELSE {"reasoning"})
              \cup (IF Given(fields, "tools", <<>>) = <<>> THEN {"tools"} ELSE {})

\* For a model that reasons or not, in a session whose id is the cache key.
SanitizedFields(fields, efforts, reasons) ==
  LET now   == Renamed(fields)
      added == {"prompt_cache_key"} \cup (IF reasons THEN {"include"} ELSE {})
      Value(f) ==
        CASE f = "reasoning"   -> now[f] \ {"summary"}
          [] f = "include"     -> Given(now, f, {}) \cup (IF reasons THEN {Encrypted} ELSE {})
          [] f = "tools"       -> Stripped(now[f])
          [] f = "temperature" -> Clamped(now[f], 2)
          [] f = "top_p"       -> Clamped(now[f], 1)
          [] f = "prompt_cache_key" -> Given(now, f, "session")
          [] OTHER             -> now[f]
  IN  [f \in (DOMAIN now \ Refused(now, efforts)) \cup added |-> Value(f)]

=============================================================================
