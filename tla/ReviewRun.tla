------------------------------ MODULE ReviewRun ------------------------------
(***************************************************************************)
(* A review of BPMN inputs (Review and Lint of src/internal/toolkit/       *)
(* service.go, src/internal/review): the inputs are resolved and linted    *)
(* one by one, then the AI provider is asked about one process after the   *)
(* other.  The provider may fail, answer nothing, or be given a prompt     *)
(* without the model, and the caller may cancel at any moment.             *)
(*                                                                         *)
(* A document is what the linter finds in it, in its messages and in each  *)
(* of its processes: "none", "warning" or "error"; a prompt is its size.   *)
(***************************************************************************)
EXTENDS Integers, Sequences, SequencesExt

CONSTANTS
  Requests,      \* [operation, project, inputs, failOn, enabled, required]
  ProjectInputs, \* the inputs found in a project
  PromptSizes,   \* the sizes a prompt may have: [full, compacted]
  PromptLimit

VARIABLES
  review,        \* the request and where it is
  reviewed,      \* what it has gathered
  client,        \* whether an AI client is configured
  abandoned      \* whether the caller has canceled

reviewVars == <<review, reviewed, client, abandoned>>

Levels == {"none", "warning", "error"}
BPMNInputs ==
  [how : {"content", "absolute", "relative", "outside", "empty"},
   document : [messages : Levels, processes : Seq(Levels)]]

ASSUME ReviewAssumption ==
  ProjectInputs \in Seq(BPMNInputs) /\ \A q \in Requests : q.inputs \in Seq(BPMNInputs)

Statuses == {"completed", "partial", "failed"}
Narratives == {"disabled", "skipped", "succeeded", "failed"}

NoResult == [status |-> "completed", complete |-> TRUE, ai |-> "disabled",
             findings |-> <<>>, processes |-> <<>>]

ReviewInit ==
  /\ review = [step |-> "idle", request |-> <<>>, inputs |-> <<>>, error |-> "none"]
  /\ reviewed = NoResult
  /\ client \in BOOLEAN
  /\ abandoned = FALSE

VAt(step) == review.step = step
Requested == review.request.enabled \/ review.request.required

(* Without a result: what was gathered is dropped.                         *)
Refused(error) ==
  /\ review' = [review EXCEPT !.step = "done", !.error = error]
  /\ reviewed' = NoResult
-------------------------------------------------------------------------------
(* The inputs, or why there are none.  A project that is named is opened   *)
(* first, whatever the inputs are.                                         *)
Unresolved(i, project) ==
  CASE i.how \in {"content", "absolute"} -> "none"
    [] i.how = "empty"    -> "invalid"
    [] i.how = "relative" -> IF project = "none" THEN "discovery" ELSE "none"
    [] i.how = "outside"  -> IF project = "none" THEN "discovery" ELSE "input"

resolveBPMNInputs(q) ==
  LET wrong == SelectSeq(q.inputs, LAMBDA i : Unresolved(i, q.project) # "none")
      error == IF \/ q.project = "broken"
                  \/ q.inputs = <<>> /\ (q.project = "none" \/ ProjectInputs = <<>>)
               THEN "discovery"
               ELSE IF wrong = <<>> THEN "none" ELSE Unresolved(Head(wrong), q.project)
  IN  [error |-> error, inputs |-> IF q.inputs = <<>> THEN ProjectInputs ELSE q.inputs]

BeginReview(q) ==
  /\ VAt("idle")
  /\ review' = [step |-> IF abandoned \/ resolveBPMNInputs(q).error # "none" THEN "done" ELSE "parse",
                request |-> q, inputs |-> resolveBPMNInputs(q).inputs,
                error |-> IF abandoned THEN "input" ELSE resolveBPMNInputs(q).error]
  /\ UNCHANGED <<reviewed, client, abandoned>>

(* One input: a document that does not parse ends the review.              *)
ParseInput ==
  /\ VAt("parse") /\ review.inputs # <<>>
  /\ LET document == Head(review.inputs).document
         linted == [k \in DOMAIN document.processes |->
                      [found |-> document.processes[k], narrated |-> "disabled", prompt |-> "none"]]
     IN  IF abandoned \/ document.processes = <<>> THEN Refused("input")
         ELSE /\ review' = [review EXCEPT !.inputs = Tail(@)]
              /\ reviewed' = [reviewed EXCEPT
                              !.findings = @ \o <<document.messages>> \o document.processes,
                              !.processes = @ \o linted]
  /\ UNCHANGED <<client, abandoned>>

ShouldFailAt(findings, failOn) ==
  \E k \in DOMAIN findings :
    findings[k] = "error" \/ (findings[k] = "warning" /\ failOn = "warning")

Degraded(status) == IF status = "failed" THEN "failed" ELSE "partial"

(* Every input is linted: the status is that of the findings, and the AI   *)
(* comes next if it was asked for and there is a client.                   *)
Linted ==
  /\ VAt("parse") /\ review.inputs = <<>>
  /\ LET q == review.request
         status == IF ShouldFailAt(reviewed.findings, q.failOn) THEN "failed" ELSE "completed"
         ended(error, r) == /\ review' = [review EXCEPT !.step = "done", !.error = error]
                            /\ reviewed' = r
     IN  \/ /\ q.operation = "lint" \/ ~Requested
            /\ ended("none", [reviewed EXCEPT !.status = status])
         \/ /\ q.operation = "review" /\ Requested /\ ~client
            /\ IF q.required
               THEN ended("ai", [reviewed EXCEPT !.status = status, !.complete = FALSE, !.ai = "failed"])
               ELSE ended("none", [reviewed EXCEPT !.status = Degraded(status), !.complete = FALSE,
                                                 !.ai = "skipped"])
         \/ /\ q.operation = "review" /\ Requested /\ client
            /\ review' = [review EXCEPT !.step = "ask"]
            /\ reviewed' = [reviewed EXCEPT !.status = status, !.ai = "succeeded"]
  /\ UNCHANGED <<client, abandoned>>
-------------------------------------------------------------------------------
(* The prompt, or that without the model, if it is within the limit.       *)
BuildPrompt(size) ==
  IF size.full <= PromptLimit THEN "full"
  ELSE IF size.compacted <= PromptLimit THEN "compacted" ELSE "too long"

(* What one process adds to the status of the review.  (A mutant: the last *)
(* process decides.)                                                       *)
LastDecides(r, narrated, prompt) ==
  [r EXCEPT !.ai = narrated,
            !.complete = narrated = "succeeded" /\ prompt = "full",
            !.status = IF narrated = "succeeded" /\ prompt = "full" THEN @ ELSE Degraded(@)]
Adds(r, narrated, prompt) ==
  [r EXCEPT !.ai = IF narrated = "failed" THEN "failed" ELSE @,
            !.complete = @ /\ narrated = "succeeded" /\ prompt = "full",
            !.status = IF narrated = "succeeded" /\ prompt = "full" THEN @ ELSE Degraded(@)]

(* The next process: the first one the provider was not asked about.  One  *)
(* that fails ends the review when the AI is required.                     *)
AskNext ==
  /\ VAt("ask")
  /\ \E k \in DOMAIN reviewed.processes, size \in PromptSizes, content \in {"text", "empty", "error"} :
       LET prompt == IF abandoned THEN "none" ELSE BuildPrompt(size)
           narrated == IF prompt \in {"full", "compacted"} /\ content = "text"
                       THEN "succeeded" ELSE "failed"
           here == [reviewed EXCEPT !.processes[k].narrated = narrated, !.processes[k].prompt = prompt]
       IN  /\ reviewed.processes[k].narrated = "disabled"
           /\ \A j \in 1..(k - 1) : reviewed.processes[j].narrated # "disabled"
           /\ IF narrated = "failed" /\ review.request.required
              THEN /\ review' = [review EXCEPT !.step = "done", !.error = "ai"]
                   /\ reviewed' = [here EXCEPT !.ai = "failed", !.complete = FALSE]
              ELSE /\ UNCHANGED review
                   /\ reviewed' = Adds(here, narrated, prompt)
  /\ UNCHANGED <<client, abandoned>>

Reviewed ==
  /\ VAt("ask")
  /\ \A k \in DOMAIN reviewed.processes : reviewed.processes[k].narrated # "disabled"
  /\ review' = [review EXCEPT !.step = "done"]
  /\ UNCHANGED <<reviewed, client, abandoned>>

CancelReview == ~abandoned /\ ~VAt("done") /\ abandoned' = TRUE /\ UNCHANGED <<review, reviewed, client>>

ReviewStep == (\E q \in Requests : BeginReview(q)) \/ ParseInput \/ Linted \/ AskNext \/ Reviewed
ReviewNext == ReviewStep \/ CancelReview
ReviewSpec == ReviewInit /\ [][ReviewNext]_reviewVars
-------------------------------------------------------------------------------
ReviewTypes ==
  /\ review.step \in {"idle", "parse", "ask", "done"}
  /\ review.error \in {"none", "invalid", "discovery", "input", "ai"}
  /\ reviewed.status \in Statuses /\ reviewed.ai \in Narratives /\ reviewed.complete \in BOOLEAN
  /\ ToSet(reviewed.findings) \subseteq Levels
  /\ client \in BOOLEAN /\ abandoned \in BOOLEAN

(* What a finished review claims is so, whatever went wrong at which of    *)
(* its processes: it is failed exactly if the findings are (no trouble     *)
(* with the AI hides them, or stands in for them); it is complete only if  *)
(* each process that was to be narrated was, from a prompt with the whole  *)
(* model; and one that required the AI either has a narrative of every     *)
(* process or returns an error (service.go:119-270, review.go:74-152).     *)
ReviewHonest ==
  VAt("done") /\ review.error \in {"none", "ai"} =>
    LET q == review.request
        asked == q.operation = "review" /\ Requested
        narrated(k) == reviewed.processes[k].narrated = "succeeded"
    IN  /\ reviewed.status = "failed" <=> ShouldFailAt(reviewed.findings, q.failOn)
        /\ reviewed.complete /\ asked =>
             \A k \in DOMAIN reviewed.processes : narrated(k) /\ reviewed.processes[k].prompt = "full"
        /\ reviewed.ai = "succeeded" => \A k \in DOMAIN reviewed.processes : narrated(k)
        /\ asked /\ q.required /\ review.error = "none" =>
             \A k \in DOMAIN reviewed.processes : narrated(k)
        /\ review.error = "none" /\ reviewed.status = "completed" => reviewed.complete
=============================================================================
