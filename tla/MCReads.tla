------------------------------- MODULE MCReads -------------------------------
(* The parts of the API that share no state, one at a time: lists, amounts and *)
(* verdicts, signed requests, and the pipeline around a handler.               *)
EXTENDS Pagination, PaymentMatching, WebhookSigning, RequestPipeline, TLC

VARIABLE part  \* the part this behaviour is about; the others rest

PagingRests ==
    /\ table = {} /\ resource = "payments" /\ filter = "any" /\ cursor = NoCursor
    /\ pages = <<>> /\ reading = "no" /\ steady = {}
MatchingRests ==
    target = NoTarget /\ records = <<>> /\ verdict = "none" /\ lifetime = Zero /\ before = Zero
SigningRests ==
    /\ configured = NotHex /\ cachedKey = NoKeyYet /\ status = "confirmed"
    /\ unanswered = {} /\ shown = 1 /\ serial = TRUE
    /\ endpoint = [encrypted |-> encryptSecret(1, NotHex), secretLastFour |-> lastFour(1)]
    /\ event = [type |-> "confirmed"] /\ now = 1
    /\ attempt = NoRequest /\ sent = NoRequest /\ received = NoRequest

Init ==
    \/ part = "paging" /\ PagingInit /\ MatchingRests /\ SigningRests /\ PipelineInit
    \/ part = "matching" /\ PagingRests /\ MatchingInit /\ SigningRests /\ PipelineInit
    \/ part = "signing" /\ PagingRests /\ MatchingRests /\ SigningInit /\ PipelineInit
    \/ part = "pipeline" /\ PagingRests /\ MatchingRests /\ SigningRests /\ PipelineInit

Next ==
    /\ UNCHANGED part
    /\ \/ part = "paging" /\ PagingNext /\ UNCHANGED <<matchingVars, signingVars, pipelineVars>>
       \/ part = "matching" /\ MatchingNext /\ UNCHANGED <<pagingVars, signingVars, pipelineVars>>
       \/ part = "signing" /\ SigningNext /\ UNCHANGED <<pagingVars, matchingVars, pipelineVars>>
       \/ part = "pipeline" /\ PipelineNext /\ UNCHANGED <<pagingVars, matchingVars, signingVars>>

Spec == Init /\ [][Next]_<<part, pagingVars, matchingVars, signingVars, pipelineVars>>

(* The calls are interchangeable, and so are the keys of either kind; the properties are safety. *)
Symmetry == Permutations(Calls) \cup Permutations(ApiKeys) \cup Permutations(EncryptionKeys)
=============================================================================
