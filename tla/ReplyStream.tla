----------------------------- MODULE ReplyStream -----------------------------
(***************************************************************************)
(* One request to the model: the events of the server's stream, what the   *)
(* provider makes of them (mewcode/providers), and what the collector      *)
(* hands to the agent (agent/streaming.py).                                *)
(*                                                                         *)
(* The server interleaves the blocks of a reply -- texts, and tool calls   *)
(* whose arguments come in pieces -- and may stop at its output limit, in  *)
(* the middle of a call.  The stream may break, or end before it is over.  *)
(* What a text or an argument says is left out: a block is a number.       *)
(***************************************************************************)
EXTENDS Naturals, FiniteSets, Sequences

CONSTANTS MaxBlocks,   \* bound on the blocks of a reply
          MaxPieces    \* bound on the pieces of a call's arguments

ASSUME ReplyAssumption == {MaxBlocks, MaxPieces} \subseteq Nat

VARIABLES protocol,    \* which provider the profile names
          thinking,    \* ThinkingMode of the profile
          attempt,     \* 1, or 2 when the request was sent again
          stream,      \* the connection: what the server can still do on it
          blocks,      \* server: the blocks begun, each with what it is
          over,        \* server: how the reply ended, as far as it was told
          argued,      \* OpenAI's server: when it told the end of a call's arguments
          calls,       \* parser: block -> pieces of an unfinished call
          done,        \* parser: calls already handed on
          reason,      \* parser: the finish reason
          collector,   \* StreamCollector._state
          text,        \* collector: blocks of text, as shown to the user
          tools,       \* collector: tool calls, in order
          reply        \* what the agent gets

servervars == <<stream, blocks, over, argued>>
parservars == <<calls, done, reason>>
collectorvars == <<collector, text, tools>>
replyvars == <<protocol, thinking, attempt, servervars, parservars, collectorvars, reply>>

BlockIds == 1 .. MaxBlocks
Block == [kind : {"text", "call"}, pieces : 0 .. MaxPieces, size : 0 .. MaxPieces,
          open : BOOLEAN]
Call == [id : BlockIds, pieces : 0 .. MaxPieces]
Reasons == {"natural", "tool_calls", "output_limit"}

ReplyTypeOK ==
    /\ protocol \in {"anthropic", "openai"} /\ thinking \in {"auto", "enabled", "disabled"}
    /\ attempt \in 1 .. 2
    /\ stream \in {"closed", "open", "ended"}
    /\ blocks \in Seq(Block) /\ Len(blocks) <= MaxBlocks
    /\ over \in {"no", "natural", "tool_calls", "limit", "refused"}
    /\ argued \in [BlockIds -> {"no", "first", "late"}]
    /\ \A b \in DOMAIN calls : b \in BlockIds /\ calls[b] \in 0 .. MaxPieces
    /\ done \in SUBSET BlockIds
    /\ reason \in Reasons \cup {"none"}
    /\ collector \in {"new", "consuming", "complete", "failed"}
    /\ text \in Seq([attempt : 1 .. 2, id : BlockIds]) /\ tools \in Seq(Call)
    /\ reply \in Reasons \cup {"none", "error", "cancelled"}

ReplyInit ==
    /\ protocol \in {"anthropic", "openai"}
    /\ thinking \in {"auto", "enabled", "disabled"}
    /\ attempt = 1 /\ stream = "closed" /\ blocks = << >> /\ over = "no"
    /\ argued = [b \in BlockIds |-> "no"]
    /\ calls = << >> /\ done = {} /\ reason = "none"
    /\ collector = "new" /\ text = << >> /\ tools = << >>
    /\ reply = "none"

(***************************************************************************)
(* The request.                                                            *)
(***************************************************************************)

Receiving == stream = "open" /\ collector = "consuming" /\ reply = "none"

\* The collector starts, and with it the provider's generator.
Sends ==
    /\ stream = "closed" /\ reply = "none" /\ collector \in {"new", "consuming"}
    /\ stream' = "open"
    /\ collector' = "consuming"
    /\ UNCHANGED <<protocol, thinking, attempt, blocks, over, argued, parservars, text, tools, reply>>

Failed == reply' = "error" /\ collector' = "failed" /\ stream' = "ended"

\* Any exception of the stream becomes a ProviderError.
Breaks ==
    /\ Receiving
    /\ Failed
    /\ UNCHANGED <<protocol, thinking, attempt, blocks, over, argued, parservars, text, tools>>

\* Mutant: every failed request with thinking is sent once more.
BugRefusesThinking ==
    /\ Receiving /\ protocol = "anthropic" /\ thinking = "enabled" /\ attempt = 1
    /\ attempt' = 2 /\ stream' = "closed" /\ blocks' = << >> /\ over' = "no"
    /\ calls' = << >> /\ reason' = "none"
    /\ UNCHANGED <<protocol, thinking, argued, done, collectorvars, reply>>

\* A model without adaptive thinking answers 400, and with that nothing else:
\* Anthropic's request is sent again with a budget for thinking.
RefusesThinking ==
    /\ Receiving /\ protocol = "anthropic" /\ thinking = "enabled" /\ attempt = 1
    /\ blocks = << >> /\ over = "no"
    /\ attempt' = 2
    /\ stream' = "closed"
    /\ UNCHANGED <<protocol, thinking, blocks, over, argued, parservars, collectorvars, reply>>

(***************************************************************************)
(* The events of the reply, each with what the parser and the collector do *)
(* of it.                                                                  *)
(***************************************************************************)

\* A block begins; a call has as many pieces as the model wants.
BlockStarts(what, size) ==
    LET b == Len(blocks) + 1 IN
    /\ Receiving /\ over = "no" /\ b <= MaxBlocks
    /\ what = "text" => size = 0
    /\ blocks' = Append(blocks, [kind |-> what, pieces |-> 0, size |-> size, open |-> TRUE])
    /\ calls' = [x \in DOMAIN calls \cup (IF what = "call" THEN {b} ELSE {}) |->
                   IF x = b THEN 0 ELSE calls[x]]
    /\ UNCHANGED <<protocol, thinking, attempt, stream, over, argued, done, reason, collectorvars, reply>>

\* Text is shown as it comes.
TextDelta(b) ==
    /\ Receiving /\ over = "no"
    /\ b \in DOMAIN blocks /\ blocks[b].open /\ blocks[b].kind = "text"
    /\ \A k \in DOMAIN text : text[k].id # b \/ text[k].attempt # attempt   \* one delta a block
    /\ text' = Append(text, [attempt |-> attempt, id |-> b])
    /\ UNCHANGED <<protocol, thinking, attempt, servervars, parservars, collector, tools, reply>>

\* Mutant: the pieces are appended to the last call begun.
BugPieceArrives(b) ==
    LET last == CHOOSE x \in DOMAIN calls : \A y \in DOMAIN calls : y <= x IN
    /\ Receiving /\ over = "no"
    /\ b \in DOMAIN blocks /\ blocks[b].open /\ blocks[b].pieces < blocks[b].size
    /\ blocks' = [blocks EXCEPT ![b].pieces = @ + 1]
    /\ calls' = [calls EXCEPT ![last] = IF @ < MaxPieces THEN @ + 1 ELSE @]
    /\ UNCHANGED <<protocol, thinking, attempt, stream, over, argued, done, reason, collectorvars, reply>>

\* A piece of a call's arguments is kept under the number of its block.
PieceArrives(b) ==
    /\ Receiving /\ over = "no"
    /\ b \in DOMAIN blocks /\ blocks[b].open /\ blocks[b].pieces < blocks[b].size
    /\ blocks' = [blocks EXCEPT ![b].pieces = @ + 1]
    /\ calls' = [calls EXCEPT ![b] = @ + 1]
    /\ UNCHANGED <<protocol, thinking, attempt, stream, over, argued, done, reason, collectorvars, reply>>

\* The arguments are the pieces that came, or those that OpenAI's event repeats.
HandsOn(b) ==
    /\ tools' = Append(tools, [id |-> b, pieces |-> IF b \in DOMAIN calls THEN calls[b]
                                                    ELSE blocks[b].size])
    /\ done' = done \cup {b}
    /\ calls' = [x \in DOMAIN calls \ {b} |-> calls[x]]

\* The end of a call.  Before the limit all its pieces have come; at the limit
\* the server may close a call that is not whole, and Anthropic does.
Whole(b) == blocks[b].pieces = blocks[b].size

BlockStops(b) ==
    /\ Receiving /\ over = "no" /\ protocol = "anthropic"
    /\ b \in DOMAIN blocks /\ blocks[b].open
    /\ blocks' = [blocks EXCEPT ![b].open = FALSE]
    /\ IF b \in DOMAIN calls THEN HandsOn(b) ELSE UNCHANGED <<tools, done, calls>>
    /\ UNCHANGED <<protocol, thinking, attempt, stream, over, argued, reason, collector, text, reply>>

\* OpenAI tells the end of a call twice, as arguments and as an item; a
\* compatible server may tell it once, or the item first.
CallEnds(b) ==
    /\ Receiving /\ over = "no" /\ protocol = "openai" /\ b \in DOMAIN blocks
    /\ blocks' = [blocks EXCEPT ![b].open = FALSE]
    /\ UNCHANGED <<protocol, thinking, attempt, stream, over, reason, collector, text, reply>>

\* The end of the arguments is a call, also after its item was one.
ArgumentsDone(b) ==
    /\ CallEnds(b) /\ blocks[b].kind = "call" /\ Whole(b) /\ argued[b] = "no"
    /\ argued' = [argued EXCEPT ![b] = IF b \in done THEN "late" ELSE "first"]
    /\ HandsOn(b)

\* Mutant: the item is a call of its own.
BugItemDone(b) ==
    /\ CallEnds(b) /\ blocks[b].kind = "call" /\ Whole(b) /\ Len(tools) <= MaxBlocks
    /\ HandsOn(b)
    /\ UNCHANGED argued

\* The end of an item is one when that of its arguments was not told before.
ItemDone(b) ==
    /\ CallEnds(b) /\ (blocks[b].kind = "text" \/ Whole(b))
    /\ IF blocks[b].kind = "call" /\ b \notin done
       THEN HandsOn(b) ELSE UNCHANGED <<tools, done, calls>>
    /\ UNCHANGED argued

(***************************************************************************)
(* The end.                                                                *)
(***************************************************************************)

HasCalls == \E b \in DOMAIN blocks : blocks[b].kind = "call"

\* The server tells why it stops: every block is closed and whole then, except
\* at the limit; or it refuses to go on.
ServerStops(why) ==
    /\ Receiving /\ over = "no" /\ blocks # << >>
    /\ why \in {"natural", "tool_calls"} =>
         /\ \A b \in DOMAIN blocks : ~blocks[b].open /\ Whole(b)
         /\ why = "tool_calls" <=> HasCalls
    /\ over' = why

\* Anthropic: the reason is kept; one that is not known is an error.
StopReason(why) ==
    /\ protocol = "anthropic"
    /\ ServerStops(why)
    /\ \/ /\ why # "refused"
          /\ reason' = IF why = "limit" THEN "output_limit" ELSE why
          /\ UNCHANGED <<stream, collector, reply>>
       \/ why = "refused" /\ Failed /\ UNCHANGED reason
    /\ UNCHANGED <<protocol, thinking, attempt, blocks, argued, calls, done, text, tools>>

\* OpenAI: a completed response is told by its calls; an incomplete one is an
\* error unless the limit is its reason, and a failed one is.
Completed(why) ==
    /\ protocol = "openai"
    /\ ServerStops(why)
    /\ \/ /\ why # "refused"
          /\ reason' = IF why = "limit" THEN "output_limit"
                       ELSE IF tools # << >> THEN "tool_calls" ELSE "natural"
          /\ UNCHANGED <<stream, collector, reply>>
       \/ why = "refused" /\ Failed /\ UNCHANGED reason
    /\ UNCHANGED <<protocol, thinking, attempt, blocks, argued, calls, done, text, tools>>

\* What the collector makes of the end of the provider's events.
Collects(finish) ==
    /\ stream' = "ended"
    /\ IF \/ finish = "none"
          \/ finish = "natural" /\ tools # << >>
          \/ finish = "tool_calls" /\ tools = << >>
       THEN reply' = "error" /\ collector' = "failed"
       ELSE reply' = finish /\ collector' = "complete"

\* The stream ends.  Without a terminal event OpenAI's is an error; Anthropic's
\* counts as a reply whose reason is read from the calls it has had so far.
StreamEnds ==
    /\ Receiving
    /\ IF reason = "none" /\ protocol = "anthropic"
       THEN Collects(IF tools # << >> THEN "tool_calls" ELSE "natural")
       ELSE Collects(reason)
    /\ UNCHANGED <<protocol, thinking, attempt, blocks, over, argued, parservars, text, tools>>

\* The run is cancelled at any event.
Cancelled ==
    /\ Receiving
    /\ reply' = "cancelled" /\ collector' = "failed" /\ stream' = "ended"
    /\ UNCHANGED <<protocol, thinking, attempt, blocks, over, argued, parservars, text, tools>>

Decided == reply # "none" /\ UNCHANGED replyvars

ReplyNext ==
    \/ Sends \/ Breaks \/ RefusesThinking \/ StreamEnds \/ Cancelled \/ Decided
    \/ \E what \in {"text", "call"}, size \in 0 .. MaxPieces : BlockStarts(what, size)
    \/ \E b \in BlockIds : TextDelta(b) \/ PieceArrives(b) \/ BlockStops(b) \/ ArgumentsDone(b)
                           \/ ItemDone(b)
    \/ \E why \in {"natural", "tool_calls", "limit", "refused"} :
         StopReason(why) \/ Completed(why)

ReplySpec == ReplyInit /\ [][ReplyNext]_replyvars

(***************************************************************************)
(* Properties.                                                             *)
(***************************************************************************)

\* The agent is told to run the tool calls of a reply of which the server could
\* tell that it was over.
RunsCalls == reply = "tool_calls" /\ over # "no"

\* The tool calls the agent is told to run are the calls of the reply with the
\* arguments the model gave them, whatever the order in which the pieces of
\* several calls came; and each is run once, whichever of its two ends OpenAI
\* told, or both, as long as it told the end of the arguments first.
CallsAreTheModels ==
    RunsCalls =>
        /\ {tools[k].id : k \in DOMAIN tools}
             = {b \in DOMAIN blocks : blocks[b].kind = "call"}
        /\ \A k \in DOMAIN tools : tools[k].pieces = blocks[tools[k].id].size
        /\ \A k, l \in DOMAIN tools :
             tools[k].id = tools[l].id /\ argued[tools[k].id] # "late" => k = l

\* A call whose end is told twice is run once, in whichever order that comes
\* (docs/phase-2-tool-system/tool-call-debugging.md).
ToldTwiceRunsOnce ==
    RunsCalls => \A k, l \in DOMAIN tools : tools[k].id = tools[l].id => k = l

\* A request that is sent again shows nothing twice: the user has seen text of
\* one attempt only.
OneAttemptIsShown == \A k \in DOMAIN text : text[k].attempt = attempt

\* The two together.
RepliesAreWhole == CallsAreTheModels /\ OneAttemptIsShown

\* Tools are run only on a reply that is over: a stream that ends early, after
\* some calls and before others, is not taken for the whole reply.
CutRunsNothing == reply = "tool_calls" => over # "no"
=============================================================================
