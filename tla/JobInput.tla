------------------------------ MODULE JobInput ------------------------------
(***************************************************************************)
(* What a job may hold: the checks of the plugin (main.py), of the         *)
(* controller (server.mjs, registry.mjs) and of the extension (core.ts),   *)
(* which a job passes one after the other, and the prompt that pi is       *)
(* handed in the end.                                                      *)
(*                                                                         *)
(* A text is its length in code points, as Python counts, and in UTF-16    *)
(* units, as JavaScript does, the bytes it takes in JSON, and the calls    *)
(* that leave nothing of it: "strip" of Python and "trim" of JavaScript,   *)
(* which do not have the same white space (U+FEFF is one of trim's only,   *)
(* U+001C one of strip's only).  The plugin has stripped it before         *)
(* (queueing.py:273).  An image is its media type and its data: the number *)
(* of characters, how many of them are padding, and whether they are the   *)
(* encoding of what they decode to.                                        *)
(***************************************************************************)
EXTENDS Integers, Sequences, SequencesExt, FiniteSetsExt

CONSTANTS
  MediaTypes,  \* the types of images that are known
  Envelope,    \* bound: bytes of a request beside its text and its images
  None

MiB == 1024 * 1024

\* The limits of the extension and of the plugin, and the controller's unless
\* it is configured otherwise.
Limits == [text |-> 100000, images |-> 3, bytes |-> 5 * MiB, total |-> 8 * MiB]
MaxBodyBytes == 12 * MiB

CanonicalBase64(image) == image.chars > 0 /\ image.chars % 4 = 0 /\ image.canonical
Bytes(image) == 3 * (image.chars \div 4) - image.padding
Total(sizes) == FoldLeft(LAMBDA sum, size : sum + size, 0, sizes)

\* What is wrong with image k, when those before it are right.
ImageRefusal(limits, images, k) ==
  CASE images[k].type \notin MediaTypes \/ ~CanonicalBase64(images[k]) -> "invalid-image"
    [] Bytes(images[k]) > limits.bytes -> "image-too-large"
    [] Total([i \in 1..k |-> Bytes(images[i])]) > limits.total -> "image-total-too-large"
    [] OTHER -> None

\* validateImages: the first thing that is wrong.
ImagesRefusal(limits, images) ==
  LET wrong == {k \in DOMAIN images : ImageRefusal(limits, images, k) # None}
  IN  IF Len(images) > limits.images THEN "image-limit"
      ELSE IF wrong = {} THEN None
      ELSE ImageRefusal(limits, images, Min(wrong))

Empty(job, call) == call \in job.text.blank /\ job.images = <<>>

\* Mutation of SubmitRefusal: an image alone is no prompt.
SubmitNeedsText(limits, job) ==
  CASE job.text.units > limits.text \/ "trim" \in job.text.blank -> "invalid-request"
    [] OTHER -> ImagesRefusal(limits, job.images)

\* JobStore.submit, as far as text and images go.
SubmitRefusal(limits, job) ==
  CASE job.text.units > limits.text -> "invalid-request"
    [] ImagesRefusal(limits, job.images) # None -> ImagesRefusal(limits, job.images)
    [] OTHER -> IF Empty(job, "trim") THEN "invalid-request" ELSE None

\* validateJobPayload; a job that it refuses is dropped without an answer.
PayloadRefusal(job) ==
  CASE job.text.units > Limits.text -> "invalid-job"
    [] ImagesRefusal(Limits, job.images) # None -> ImagesRefusal(Limits, job.images)
    [] OTHER -> IF Empty(job, "trim") THEN "empty-job" ELSE None

\* ask, of the command.
AskAccepts(job) ==
  job.text.points <= Limits.text /\ Len(job.images) <= Limits.images /\ ~Empty(job, "strip")

\* image_payload, which encodes what it has read.
MediaAccepts(image) == image.type \in MediaTypes /\ Bytes(image) <= Limits.bytes

\* ask, of what is read.  Padding counts as data.
TotalAccepted(images) == Total([k \in DOMAIN images |-> (images[k].chars * 3) \div 4]) <= Limits.total

PluginAccepts(job) ==
  /\ AskAccepts(job) /\ TotalAccepted(job.images)
  /\ \A k \in DOMAIN job.images : MediaAccepts(job.images[k])

\* readJson: the bytes that are declared, or those that have come so far.
BodyBytes(job) == Envelope + job.text.bytes + Total([k \in DOMAIN job.images |-> job.images[k].chars])
Refusal(limits, job) ==
  IF BodyBytes(job) > MaxBodyBytes THEN "payload-too-large" ELSE SubmitRefusal(limits, job)

\* mappedError
Statuses ==
  [c \in {"invalid-alias", "invalid-request", "invalid-image", "invalid-result"} |-> 400]
    @@ [c \in {"image-limit", "image-too-large", "image-total-too-large", "payload-too-large"} |-> 413]
    @@ [c \in {"request-conflict", "invalid-job-state", "lease-mismatch"} |-> 409]
    @@ ("queue-full" :> 429) @@ ("job-not-found" :> 404)
Status(code) == IF code \in DOMAIN Statuses THEN Statuses[code] ELSE 500

\* _request_sync: which answers the plugin tries again.
Retryable(status) == status = 429 \/ status >= 500

\* toUserContent
UserContent(job) ==
  (IF job.text.units > 0 THEN <<job.text>> ELSE <<>>) \o job.images

=============================================================================
