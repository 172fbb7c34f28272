--------------------------- MODULE VisionBackend ---------------------------
(***************************************************************************)
(* One request to a vision backend over HTTP: what the server may answer,  *)
(* how a text is searched for a JSON object, what the strict (oMLX) and    *)
(* the lenient (Ollama) reading accept, and the retries.                   *)
(*                                                                         *)
(* A text is a sequence of tokens: braces, quotes, escapes, the inside     *)
(* ("body") of an object, a list of numbers, prose that names scores.      *)
(*                                                                         *)
(* Sources: utils/json_extract.py, clients/omlx.py, clients/ollama.py,     *)
(* clients/protocol.py, adapters/models/omlx/contracts.py,                 *)
(* adapters/models/ollama/contracts.py, transport.py.                      *)
(***************************************************************************)
EXTENDS Integers, Sequences, FiniteSets

CONSTANTS
    Criteria,       \* VISION_DIMS, or the keys of the fast and text answers
    Replies,        \* what the server may answer to one attempt
    Retries         \* vision_retries

(* Objects and prose state a value for every key or Missing.               *)
IsText(text) ==
    /\ text \in Seq({text[i]: i \in DOMAIN text})
    /\ \A i \in DOMAIN text:
          /\ text[i].is \in {"body", "prose"} => text[i].says.scores \in [Criteria -> Int]
          /\ text[i].is = "array" => text[i].says \in [Criteria -> Int]

ASSUME BackendAssumption ==
    /\ Criteria # {} /\ Retries \in Nat \ {0}
    /\ \A reply \in Replies: IsText(reply.text)

VARIABLES
    ask,            \* the call: its backend and its task
    attempt,        \* attempts begun
    missed,         \* an earlier reply of the call was a whole answer
    outcome         \* how it ended, on which reply and with which scores

backendVars == <<ask, attempt, missed, outcome>>

(* Values of a key that are not numbers in range; scores are hundredths.   *)
Missing == -100
Worded == -101      \* a string
Dummy == -102       \* a placeholder: "todo", "n/a", blank
NotANumber == -103  \* NaN, which json.loads accepts
Odd == {Missing, Worded, Dummy, NotANumber}

OpenBrace == [is |-> "open"]
CloseBrace == [is |-> "close"]
QuoteMark == [is |-> "quote"]
EscapeMark == [is |-> "escape"]
Body(p) == [is |-> "body", says |-> p]

Object(text) == Len(text) >= 2 /\ text[1] = OpenBrace /\ text[Len(text)] = CloseBrace
             /\ \/ Len(text) = 2
                \/ Len(text) = 3 /\ text[2].is = "body"
BareObject == [scene |-> "none", raw |-> "none", extra |-> FALSE, scores |-> [c \in Criteria |-> Missing]]
(* json.loads of an object. *)
Loaded(text) == IF Len(text) = 2 THEN BareObject ELSE text[2].says

-----------------------------------------------------------------------------
(* Fault: quotes count outside objects too.                                *)
Scan_Quotes(s, i, token) ==
    CASE s.escaped -> [s EXCEPT !.escaped = FALSE]
      [] ~s.escaped /\ s.string /\ token.is = "escape" -> [s EXCEPT !.escaped = TRUE]
      [] ~s.escaped /\ token.is = "quote" -> [s EXCEPT !.string = ~@]
      [] ~s.escaped /\ ~s.string /\ token.is = "open" ->
           [s EXCEPT !.depth = @ + 1, !.start = IF @ = 0 THEN i ELSE @]
      [] ~s.escaped /\ ~s.string /\ token.is = "close" /\ s.depth > 1 -> [s EXCEPT !.depth = @ - 1]
      [] ~s.escaped /\ ~s.string /\ token.is = "close" /\ s.depth = 1 ->
           [s EXCEPT !.depth = 0, !.start = 0, !.found = Append(@, <<s.start, i>>)]
      [] OTHER -> s

(* extract_last_json_object, one character.                                *)
Scan(s, i, token) ==
    IF s.start = 0
    THEN IF token.is = "open"
         THEN [start |-> i, depth |-> 1, string |-> FALSE, escaped |-> FALSE, found |-> s.found]
         ELSE s
    ELSE IF s.string
    THEN CASE s.escaped -> [s EXCEPT !.escaped = FALSE]
           [] ~s.escaped /\ token.is = "escape" -> [s EXCEPT !.escaped = TRUE]
           [] ~s.escaped /\ token.is = "quote" -> [s EXCEPT !.string = FALSE]
           [] OTHER -> s
    ELSE CASE token.is = "quote" -> [s EXCEPT !.string = TRUE]
           [] token.is = "open" -> [s EXCEPT !.depth = @ + 1]
           [] token.is = "close" /\ s.depth > 1 -> [s EXCEPT !.depth = @ - 1]
           [] token.is = "close" /\ s.depth = 1 ->
                [start |-> 0, depth |-> 0, string |-> FALSE, escaped |-> FALSE,
                 found |-> Append(s.found, <<s.start, i>>)]
           [] OTHER -> s

(* Where the outermost objects of a text begin and end.                    *)
Unscanned == [start |-> 0, depth |-> 0, string |-> FALSE, escaped |-> FALSE, found |-> <<>>]
Scanned(text) ==
    LET read[i \in 0..Len(text)] ==
            IF i = 0 THEN Unscanned ELSE Scan(read[i - 1], i, text[i])
    IN read[Len(text)].found

(* The last of the outermost objects that is valid JSON, as a set.         *)
Extracted(text) ==
    LET found == Scanned(text)
        part(k) == SubSeq(text, found[k][1], found[k][2])
        valid == {k \in 1..Len(found): Object(part(k))}
    IN {Loaded(part(k)): k \in {j \in valid: \A l \in valid: l <= j}}

-----------------------------------------------------------------------------
(* clamp_scores and _clamp_score01: min(10, NaN) is 10.                    *)
Bounded(x) ==
    CASE x = NotANumber -> 1000
      [] x \in Odd \ {NotANumber} -> 0
      [] OTHER -> IF x < 0 THEN 0 ELSE IF x > 1000 THEN 1000 ELSE x
Bounds(scores) == [c \in Criteria |-> Bounded(scores[c])]

Good(scores) == [is |-> "answer", scores |-> scores]
Bad(error) == [is |-> error, scores |-> BareObject.scores]

(* extract_omlx_structured_dict: an object and nothing else.               *)
Strict(reply) ==
    IF reply.shape \in {"parsed", "content"} /\ Object(reply.text)
    THEN {Loaded(reply.text)} ELSE {}

(* validate_omlx_full_score_payload. *)
WholeScore(p) ==
    /\ p.scene \in {"known", "odd"} /\ p.raw \in {"label", "words"} /\ ~p.extra
    /\ \A c \in Criteria: p.scores[c] \notin {Missing, Worded, Dummy}

(* parse_fast_screening: the keys exactly, whatever their values.          *)
FastKeys(p) ==
    /\ p.scene = "none" /\ p.raw = "none" /\ ~p.extra
    /\ \A c \in Criteria: p.scores[c] # Missing

(* _generate_structured_commentary: texts that are no placeholders; other  *)
(* keys are dropped.                                                       *)
WholeText(p) == \A c \in Criteria: p.scores[c] = Worded

(* parse_vision_response of the Ollama contract: a list without any brace, *)
(* an object, scores in prose, an object whose end is missing.             *)
HasArray(text) == \E i \in DOMAIN text: text[i].is = "array"
HasOpen(text) == \E i \in DOMAIN text: text[i].is = "open"
Repaired(text) ==
    LET start == CHOOSE i \in DOMAIN text:
                    text[i].is = "open" /\ \A j \in DOMAIN text: text[j].is = "open" => i <= j
    IN SubSeq(text, start, Len(text)) \o <<CloseBrace>>

Prose(text) ==
    LET prose == {i \in DOMAIN text: text[i].is = "prose"}
    IN IF prose = {} THEN {} ELSE {text[CHOOSE i \in prose: TRUE].says}

ReadFrom(text) ==
    IF Extracted(text) # {} THEN Extracted(text)
    ELSE IF Prose(text) # {} THEN Prose(text)
    ELSE IF HasOpen(text) /\ Object(Repaired(text)) THEN {Loaded(Repaired(text))} ELSE {}

Lenient(text) ==
    LET answer == CHOOSE p \in ReadFrom(text): TRUE
    IN IF HasArray(text) /\ ~HasOpen(text)
       THEN Good(Bounds(text[CHOOSE i \in DOMAIN text: text[i].is = "array"].says))
       ELSE IF ReadFrom(text) = {} THEN Bad("value error")
       ELSE IF answer.raw = "number" THEN Bad("escaped")          \* no .strip()
       ELSE Good(Bounds(answer.scores))

(* _vision_raw, generate_text, generate_vision_async: what is raised before *)
(* the answer is looked at.                                                *)
FailsWith(how, reply) ==
    CASE reply.shape = "error" -> {"http error"}
      [] how.backend = "ollama" /\ reply.shape = "odd" -> {"escaped"}      \* KeyError
      [] how.backend = "omlx" /\ reply.shape # "error" /\ Strict(reply) = {} -> {"value error"}
      [] OTHER -> {}

Parsed(how, reply) == IF how.backend = "omlx" THEN Strict(reply) ELSE Extracted(reply.text)
Checked(found, Accepts(_), scores(_)) ==
    IF \E p \in found: Accepts(p) THEN Good(scores(CHOOSE p \in found: TRUE))
    ELSE Bad("value error")

FullAnswer(how, reply) ==
    IF how.backend = "ollama" THEN Lenient(reply.text)
    ELSE Checked(Parsed(how, reply), WholeScore, LAMBDA p: Bounds(p.scores))
FastAnswer(how, reply) == Checked(Parsed(how, reply), FastKeys, LAMBDA p: Bounds(p.scores))
TextAnswer(how, reply) ==
    IF how.backend = "ollama" THEN Good(BareObject.scores)
    ELSE Checked(Parsed(how, reply), WholeText, LAMBDA p: p.scores)

-----------------------------------------------------------------------------
NoReply == [shape |-> "none", text |-> <<>>]
Awaited == [is |-> "none", scores |-> BareObject.scores]
Calls == [backend: {"omlx", "ollama"}, task: {"full", "fast", "text"}]

BackendTypeOK ==
    /\ ask \in Calls
    /\ attempt \in 0..Retries
    /\ missed \in BOOLEAN
    /\ outcome.how.is \in {"none", "answer", "value error", "http error", "escaped"}
    /\ outcome.how.scores \in [Criteria -> Odd \union 0..1000]
    /\ outcome.reply \in Replies \union {NoReply}

BackendInit ==
    /\ ask \in Calls
    /\ attempt = 0 /\ missed = FALSE
    /\ outcome = [how |-> Awaited, reply |-> NoReply]

(* Every brace the model wrote opens or closes a complete object.          *)
Tidy(text) ==
    /\ \A i \in DOMAIN text: text[i].is = "open" =>
          \E j \in {i + 1, i + 2} \cap DOMAIN text: Object(SubSeq(text, i, j))
    /\ HasOpen(text)
LastObject(text) ==
    LET start == CHOOSE i \in DOMAIN text:
                    text[i].is = "open" /\ \A j \in DOMAIN text: text[j].is = "open" => j <= i
    IN IF text[start + 1].is = "close" THEN BareObject ELSE text[start + 1].says

(* A reply with a whole answer to this task: an object and nothing else    *)
(* for oMLX, the last object of a tidy text for Ollama.                    *)
HasWholeAnswer(how, reply) ==
    /\ reply.shape \in {"parsed", "content"} /\ Tidy(reply.text)
    /\ how.backend = "omlx" => Object(reply.text)
    /\ CASE how.task = "full" -> WholeScore(LastObject(reply.text))
         [] how.task = "fast" -> FastKeys(LastObject(reply.text))
         [] how.task = "text" -> WholeText(LastObject(reply.text))

(* One attempt; `again' tells whether a failed one is tried again.         *)
Attempt(reply, answer, again) ==
    LET raised == FailsWith(ask, reply)
        found == IF raised = {} THEN answer ELSE Bad(CHOOSE e \in raised: TRUE)
        more == again /\ found.is \in {"value error", "http error"} /\ attempt + 1 < Retries IN
    /\ outcome.how = Awaited
    /\ attempt' = attempt + 1
    /\ missed' = (missed \/ (more /\ HasWholeAnswer(ask, reply)))
    /\ outcome' = IF more THEN outcome ELSE [how |-> found, reply |-> reply]
    /\ UNCHANGED ask

(* score_image. *)
ScoreImage ==
    ask.task = "full" /\ \E reply \in Replies: Attempt(reply, FullAnswer(ask, reply), TRUE)

(* score_image_fast. *)
ScoreImageFast ==
    ask.task = "fast" /\ \E reply \in Replies: Attempt(reply, FastAnswer(ask, reply), TRUE)

(* generate_group_commentary, generate_post_commentary: asked once.        *)
GenerateCommentary ==
    ask.task = "text" /\ \E reply \in Replies: Attempt(reply, TextAnswer(ask, reply), FALSE)

NextCall ==
    /\ outcome.how # Awaited
    /\ ask' \in Calls
    /\ attempt' = 0 /\ missed' = FALSE
    /\ outcome' = [how |-> Awaited, reply |-> NoReply]

BackendNext == ScoreImage \/ ScoreImageFast \/ GenerateCommentary \/ NextCall

BackendSpec == BackendInit /\ [][BackendNext]_backendVars

-----------------------------------------------------------------------------
(* A call gives what the model said: an oMLX answer consists of values the *)
(* reply states for every key, never of defaults; in a text whose braces   *)
(* are all in order, Ollama's answer is the last object, whatever quotes,  *)
(* escapes and brackets stand around it; and no call fails or goes on      *)
(* asking after a reply that has a whole answer.  A NaN is the exception,  *)
(* it counts as the best score.                                            *)
AnswerIsTheModels ==
    LET how == outcome.how reply == outcome.reply IN
    /\ how.is = "answer" /\ ask.backend = "omlx" =>
          LET says == LastObject(reply.text).scores IN
          \A c \in Criteria:
             /\ says[c] # Missing
             /\ ask.task = "full" =>
                   \/ says[c] = NotANumber
                   \/ says[c] \notin Odd /\ how.scores[c] = Bounded(says[c])
    /\ how.is = "answer" /\ ask.backend = "ollama" /\ ask.task # "text" /\ Tidy(reply.text) =>
          how.scores = Bounds(LastObject(reply.text).scores)
    /\ ~missed
    /\ how.is \in {"value error", "http error"} => ~HasWholeAnswer(ask, reply)
=============================================================================
