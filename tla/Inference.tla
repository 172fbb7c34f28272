----------------------------- MODULE Inference -----------------------------
(***************************************************************************)
(* Model results of the local client: a result cache in front of an        *)
(* adapter that loads the model file lazily and runs it in padded batches  *)
(* with several requests in flight.  The client and the adapter each keep  *)
(* a snapshot of the file's digest, taken again when its metadata changed; *)
(* the file may be replaced or removed by another process at any time.     *)
(* Calls of one client follow each other.                                  *)
(*                                                                         *)
(* Sources: clients/local.py, adapters/models/inference_contract.py,       *)
(* openvino_nima_aesthetic.py, openvino_embedding.py, openvino_session.py. *)
(***************************************************************************)
EXTENDS Integers, Sequences, FiniteSets

CONSTANTS
    Pictures,       \* previews
    Batches,        \* the lists of previews that a call may bring
    Capacity,       \* result_cache_size
    Chunk,          \* 32: inputs per adapter call, prepared images per window
    Batch,     \* the requested batch size
    Digests,        \* contents of the model file
    MaxSwaps,       \* bound: how often the file changes
    MaxCalls,       \* bound: calls
    MaxBroken       \* bound: compilations and inferences that fail

ASSUME InferenceAssumption ==
    /\ Pictures # {} /\ \A b \in Batches: b \in Seq(Pictures) /\ b # <<>>
    /\ Capacity \in Nat /\ Chunk \in Nat \ {0} /\ Batch \in Nat \ {0}
    /\ 0 \notin Digests /\ Digests \subseteq Nat
    /\ MaxSwaps \in Nat /\ MaxCalls \in Nat /\ MaxBroken \in Nat

VARIABLES
    file,       \* the model file: its content, and how often it was replaced
    snapshots,  \* the snapshots of the client and of its adapter
    adapter,    \* the adapter: the content it believes in, the loaded session
    keyed,      \* the content in the key of the client's last call
    cache,      \* the result cache, least recently used first
    request,      \* the running call
    swapped,    \* the file was replaced while a call was running
    calls, broken

inferenceVars ==
    <<file, snapshots, adapter, keyed, cache, request, swapped, calls, broken>>

Gone == 0           \* no file: asset state "missing"
Contents == Digests \union {Gone}
Owners == {"client", "adapter"}
Never == -1
Answer == [of: Pictures, by: Contents]
CacheRow == [key: Contents, picture: Pictures, answer: Answer]

InferenceTypeOK ==
    /\ file \in [content: Contents, print: 0..MaxSwaps]
    /\ snapshots \in [Owners -> [content: Contents, print: {Never} \union 0..MaxSwaps]]
    /\ adapter \in [made: BOOLEAN, trusts: Contents, runs: Contents, batch: {1, Batch}]
    /\ keyed \in Contents \union {Never}
    /\ cache \in Seq(CacheRow) /\ Len(cache) <= Capacity
    /\ request.at \in {"idle", "snapshot", "lookup", "adapter", "again", "load", "infer",
                     "returned", "raised"}
    /\ request.owner \in Owners /\ request.hashed \in Contents \union {Never}
    /\ request.inputs \in Seq(Pictures) /\ request.key \in Contents
    /\ request.queue \in Seq(Pictures)
    /\ request.found \subseteq [picture: Pictures, answer: Answer]
    /\ request.done \in Seq(Answer)
    /\ \A s \in DOMAIN request.outputs: request.outputs[s] \in Seq(Answer)
    /\ swapped \in BOOLEAN
    /\ calls \in 0..MaxCalls /\ broken \in 0..MaxBroken

Rest == [at |-> "idle", owner |-> "client", hashed |-> Never, inputs |-> <<>>, key |-> Gone,
         queue |-> <<>>, found |-> {}, done |-> <<>>, outputs |-> <<>>]
Unmade == [made |-> FALSE, trusts |-> Gone, runs |-> Gone, batch |-> Batch]
Unsigned == [content |-> Gone, print |-> Never]

InferenceInit ==
    /\ file \in [content: Contents, print: {0}]
    /\ snapshots = [o \in Owners |-> Unsigned]
    /\ adapter = Unmade
    /\ keyed = Never /\ cache = <<>>
    /\ request = Rest
    /\ swapped = FALSE
    /\ calls = 0 /\ broken = 0

Breaks == broken < MaxBroken /\ broken' = broken + 1

Ask(batch) ==
    /\ request.at \in {"idle", "returned", "raised"} /\ calls < MaxCalls
    /\ calls' = calls + 1
    /\ request' = [Rest EXCEPT !.at = "snapshot", !.inputs = batch]
    /\ UNCHANGED <<file, snapshots, adapter, keyed, cache, swapped, broken>>

(* AssetSnapshot.current: an unchanged signature of an available asset is  *)
(* believed; else the file is hashed, and its signature read AFTER that.   *)
Current(o) == snapshots[o].print = file.print /\ snapshots[o].content # Gone
Snapshotting == request.at \in {"snapshot", "adapter", "again"}

HashAssets ==
    /\ Snapshotting /\ request.hashed = Never
    /\ request' = [request EXCEPT !.hashed = IF Current(request.owner)
                                         THEN snapshots[request.owner].content ELSE file.content]
    /\ UNCHANGED <<file, snapshots, adapter, keyed, cache, swapped, calls, broken>>

SignAssets ==
    /\ Snapshotting /\ request.hashed # Never
    /\ snapshots' = [snapshots EXCEPT ![request.owner] =
                        [content |-> request.hashed, print |-> file.print]]
    /\ \/ /\ request.at = "snapshot"
          /\ request' = [request EXCEPT !.at = "lookup", !.hashed = Never, !.key = request.hashed]
          /\ UNCHANGED adapter
       \/ /\ request.at = "adapter"       \* the adapter's __init__
          /\ adapter' = [Unmade EXCEPT !.made = TRUE, !.trusts = request.hashed]
          /\ request' = [request EXCEPT !.at = "again", !.hashed = Never]
       \/ /\ request.at = "again"         \* _score_many_sync, _embed_many_sync
          /\ adapter' = IF request.hashed = adapter.trusts THEN adapter
                        ELSE [adapter EXCEPT !.runs = Gone, !.trusts = request.hashed]
          /\ request' = [request EXCEPT !.at = "load", !.hashed = Never]
    /\ UNCHANGED <<file, keyed, cache, swapped, calls, broken>>

RowOf(rows, key, picture) == {i \in DOMAIN rows: rows[i].key = key /\ rows[i].picture = picture}

(* The rows without the one that stands at the place i.                    *)
Without(rows, i) == SubSeq(rows, 1, i - 1) \o SubSeq(rows, i + 1, Len(rows))
Renewed(rows, row) ==
    LET old == RowOf(rows, row.key, row.picture)
    IN Append(IF old = {} THEN rows ELSE Without(rows, CHOOSE i \in old: TRUE), row)

(* Fault: nothing is evicted.                                              *)
Put_Unbounded(rows, row) == Renewed(rows, row)

(* ResultCache.put: the row becomes the most recent, the oldest goes.      *)
Put(rows, row) ==
    IF Len(Renewed(rows, row)) > Capacity THEN Tail(Renewed(rows, row)) ELSE Renewed(rows, row)
PutAll(rows, added) ==
    LET after[i \in 0..Len(added)] == IF i = 0 THEN rows ELSE Put(after[i - 1], added[i])
    IN after[Len(added)]

(* ResultCache.get: nothing is cached without a file.  Hits move to the    *)
(* recent end; each preview that misses is asked for once.                 *)
Hit(rows, key, p) == key # Gone /\ RowOf(rows, key, p) # {}
Kept(rows, key, p) == rows[CHOOSE i \in RowOf(rows, key, p): TRUE]
Touched(rows, key, inputs) ==
    LET after[i \in 0..Len(inputs)] ==
            IF i = 0 THEN rows
            ELSE IF Hit(rows, key, inputs[i]) THEN Put(after[i - 1], Kept(rows, key, inputs[i]))
            ELSE after[i - 1]
    IN after[Len(inputs)]
Misses(rows, key, inputs) ==
    LET missed[i \in 0..Len(inputs)] ==
            IF i = 0 THEN <<>>
            ELSE IF Hit(rows, key, inputs[i]) \/ \E j \in 1..i - 1: inputs[j] = inputs[i]
                 THEN missed[i - 1]
            ELSE Append(missed[i - 1], inputs[i])
    IN missed[Len(inputs)]

(* A key that differs from the last call's clears the cache and drops the  *)
(* adapter.                                                                *)
LookUp ==
    /\ request.at = "lookup"
    /\ LET key == request.key
           stale == keyed # Never /\ keyed # key
           rows == IF stale THEN <<>> ELSE cache
           wanted == Misses(rows, key, request.inputs)
           found == {i \in DOMAIN request.inputs: Hit(rows, key, request.inputs[i])} IN
       /\ cache' = Touched(rows, key, request.inputs)
       /\ keyed' = key
       /\ adapter' = IF stale THEN Unmade ELSE adapter
       /\ request' = [request EXCEPT
              !.queue = wanted,
              !.owner = "adapter",
              !.found = {[picture |-> request.inputs[i],
                          answer |-> Kept(rows, key, request.inputs[i]).answer]: i \in found},
              !.at = IF wanted = <<>> THEN "returned"
                     ELSE IF stale \/ ~adapter.made THEN "adapter" ELSE "again"]
       /\ snapshots' = IF stale \/ ~adapter.made THEN [snapshots EXCEPT !["adapter"] = Unsigned]
                       ELSE snapshots
    /\ UNCHANGED <<file, swapped, calls, broken>>

(* The session is compiled from the file that lies there now: with the     *)
(* batch asked for, with one input per request after a fallback, or not.   *)
Load ==
    /\ request.at = "load"
    /\ \/ /\ adapter.runs # Gone /\ UNCHANGED <<adapter, broken>>
          /\ request' = [request EXCEPT !.at = "infer"]
       \/ /\ adapter.runs = Gone /\ file.content # Gone
          /\ \E b \in {1, Batch}:
                adapter' = [adapter EXCEPT !.runs = file.content, !.batch = b]
          /\ request' = [request EXCEPT !.at = "infer"]
          /\ UNCHANGED broken
       \/ /\ adapter.runs = Gone /\ UNCHANGED adapter
          /\ IF file.content = Gone THEN UNCHANGED broken ELSE Breaks
          /\ request' = [request EXCEPT !.at = "raised"]
    /\ UNCHANGED <<file, snapshots, keyed, cache, swapped, calls>>

(* The session takes the chunk window by window, and a window batch by     *)
(* batch, the last batch padded with its last image.                       *)
Least(a, b) == IF a < b THEN a ELSE b
Inputs == SubSeq(request.queue, 1, Least(Chunk, Len(request.queue)))
Window == LET w == (Chunk \div adapter.batch) * adapter.batch
          IN IF w < adapter.batch THEN adapter.batch ELSE w
Prepared == SubSeq(Inputs, Len(request.done) + 1, Least(Len(request.done) + Window, Len(Inputs)))
Starts == {s \in 1..Len(Prepared): (s - 1) % adapter.batch = 0}
Valid(s) == Least(adapter.batch, Len(Prepared) - s + 1)
Padded(s) == [i \in 1..adapter.batch |->
                 [of |-> Prepared[IF i <= Valid(s) THEN s + i - 1 ELSE Len(Prepared)],
                  by |-> adapter.runs]]

(* A request completes, in any order: its outputs are kept by its start.   *)
Complete ==
    /\ request.at = "infer" /\ Len(request.done) < Len(Inputs)
    /\ \E s \in Starts \ DOMAIN request.outputs:
          request' = [request EXCEPT !.outputs =
                      [t \in DOMAIN request.outputs \union {s} |->
                          IF t = s THEN Padded(s) ELSE request.outputs[t]]]
    /\ UNCHANGED <<file, snapshots, adapter, keyed, cache, swapped, calls, broken>>

(* Fault: the rows of the last request come first.                         *)
Collected_Reversed ==
    LET rows[s \in 0..Len(Prepared)] ==
            IF s = 0 THEN <<>>
            ELSE IF s \in Starts THEN SubSeq(request.outputs[s], 1, Valid(s)) \o rows[s - 1]
            ELSE rows[s - 1]
    IN rows[Len(Prepared)]

(* wait_all: the rows of the window in the order of the starts, without    *)
(* the padding.  A missing or nonfinite output raises.                     *)
Collected ==
    LET rows[s \in 0..Len(Prepared)] ==
            IF s = 0 THEN <<>>
            ELSE IF s \in Starts THEN rows[s - 1] \o SubSeq(request.outputs[s], 1, Valid(s))
            ELSE rows[s - 1]
    IN rows[Len(Prepared)]

FinishWindow ==
    /\ request.at = "infer" /\ Len(request.done) < Len(Inputs)
    /\ DOMAIN request.outputs = Starts
    /\ request' = [request EXCEPT !.done = @ \o Collected, !.outputs = <<>>]
    /\ UNCHANGED <<file, snapshots, adapter, keyed, cache, swapped, calls, broken>>

InferFails ==
    /\ request.at = "infer" /\ Breaks
    /\ request' = [request EXCEPT !.at = "raised"]
    /\ UNCHANGED <<file, snapshots, adapter, keyed, cache, swapped, calls>>

(* The predictions are paired with their inputs, and cached.               *)
StoreChunk ==
    /\ request.at = "infer" /\ Len(request.done) = Len(Inputs)
    /\ LET paired == [i \in 1..Len(Inputs) |->
                        [key |-> request.key, picture |-> Inputs[i], answer |-> request.done[i]]]
           left == SubSeq(request.queue, Len(Inputs) + 1, Len(request.queue)) IN
       /\ cache' = IF request.key = Gone THEN cache ELSE PutAll(cache, paired)
       /\ request' = [request EXCEPT
              !.found = @ \union {[picture |-> Inputs[i], answer |-> request.done[i]]:
                                      i \in DOMAIN Inputs},
              !.done = <<>>, !.queue = left,
              !.at = IF left = <<>> THEN "returned" ELSE "again"]
    /\ UNCHANGED <<file, snapshots, adapter, keyed, swapped, calls, broken>>

(* Another process installs another model under this path, or removes it.  *)
SwapFile ==
    /\ file.print < MaxSwaps
    /\ \E d \in Contents \ {file.content}: file' = [content |-> d, print |-> file.print + 1]
    /\ swapped' = (swapped \/ request.at \notin {"idle", "returned", "raised"})
    /\ request' = IF request.at \in {"returned", "raised"} THEN Rest ELSE request
    /\ UNCHANGED <<snapshots, adapter, keyed, cache, calls, broken>>

InferenceNext ==
    \/ \E batch \in Batches: Ask(batch)
    \/ HashAssets \/ SignAssets \/ LookUp \/ Load
    \/ Complete \/ FinishWindow \/ InferFails \/ StoreChunk
    \/ SwapFile

InferenceSpec == InferenceInit /\ [][InferenceNext]_inferenceVars

-----------------------------------------------------------------------------
(* Whoever asks gets, for every preview, the answer for that preview by    *)
(* the model that lies under the path, whatever was cached, evicted,       *)
(* loaded or broken before and in whatever order the requests completed.   *)
(* The exception is a file replaced while a call was running: hashing and  *)
(* loading read it at different moments.                                   *)
AnswersBelong ==
    request.at = "returned" /\ ~swapped =>
        request.found = {[picture |-> p, answer |-> [of |-> p, by |-> file.content]]:
                            p \in {request.inputs[i]: i \in DOMAIN request.inputs}}
=============================================================================
